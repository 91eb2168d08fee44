------------------------------- MODULE MsgAggr -------------------------------
(***************************************************************************)
(* Message aggregation in slurmd, common/msg_aggr.c.  Threads add messages *)
(* to a list with msg_aggr_add_msg() and may wait for the answer; the      *)
(* thread _msg_aggregation_sender() opens a window at the first message,   *)
(* closes it after a time or when the list is full, and sends the list to  *)
(* the next collector as one composite message.  msg_aggr_resp() finds the *)
(* waiter of an answer by the index of the message, a 16 bit counter.      *)
(*                                                                         *)
(* One condition variable serves the sender and the threads that find the  *)
(* list full, so a signal may wake either.  A step between two operations  *)
(* on a mutex is atomic; only the sender holds one while it sends.         *)
(***************************************************************************)
EXTENDS Integers, Sequences, Functions

CONSTANTS
    Adders,         \* threads that add messages
    max_msg_cnt,    \* WindowMsgs; no aggregation below 2
    IndexMod,       \* 2^16 in the code
    MaxAdds         \* bound on the messages added

ASSUME AggrAssumption ==
    /\ max_msg_cnt \in Nat \ {0, 1} /\ IndexMod \in Nat \ {0, 1} /\ MaxAdds \in Nat

VARIABLES
    running,
    sender,         \* where _msg_aggregation_sender() is, see Sender
    adder,          \* where each thread is, see Adder
    index,          \* the msg_index of its message
    msg_index,      \* the counter
    msg_list,       \* the collected messages, by the thread that added them and the index
    max_msgs,
    msg_aggr_list,  \* the waiters, in the order they came
    flight,         \* messages sent, not answered yet
    fini,           \* msg_aggr_sender_fini(): "no", "set" (running cleared),
                    \* "join" or "end"
    adds,           \* count of the messages added
    clash           \* ghost: the counter came round to the index of another waiter

aggr_vars == <<running, sender, adder, index, msg_index, msg_list, max_msgs, msg_aggr_list,
          flight, fini, adds, clash>>

\* "wait" is the wait for a first message, "window" the one with a time limit; "woken" and
\* "closing" have come back from them and want the mutex; "send" holds it.
Sender == {"start", "wait", "woken", "window", "closing", "send", "done"}

\* "blocked" waits for room, "woken" has been told of it; "register" has added its message
\* and is not yet on msg_aggr_list; "answered" has been signalled.
Adder == {"idle", "lock", "blocked", "woken", "register", "waiting", "answered"}

Entry == [who : Adders, index : 0..(IndexMod - 1)]

\* After msg_aggr_sender_fini() the mutexes are gone and nobody may be inside.
Open == fini # "end"
Unlocked == sender # "send" /\ Open

AggrInit ==
    /\ running = FALSE
    /\ sender = "start"
    /\ adder = [a \in Adders |-> "idle"]
    /\ index = [a \in Adders |-> 0]
    /\ msg_index = 1
    /\ msg_list = <<>>
    /\ max_msgs = FALSE
    /\ msg_aggr_list = <<>>
    /\ flight = {}
    /\ fini = "no"
    /\ adds = 0
    /\ clash = FALSE
-----------------------------------------------------------------------------
(* The condition variable                                                    *)

Woken(s) == CASE s = "wait" -> "woken" [] s = "window" -> "closing" [] OTHER -> s

\* pthread_cond_signal wakes one of the waiting threads, if there is one.  adr is adder
\* after what the caller does to itself.
signal(adr) ==
    LET blocked == {a \in Adders : adr[a] = "blocked"}
        asleep == sender \in {"wait", "window"}
    IN  \/ /\ asleep
           /\ sender' = Woken(sender) /\ adder' = adr
        \/ \E a \in blocked : adder' = [adr EXCEPT ![a] = "woken"] /\ UNCHANGED sender
        \/ /\ ~asleep /\ blocked = {}
           /\ adder' = adr /\ UNCHANGED sender
-----------------------------------------------------------------------------
(* _msg_aggregation_sender                                                   *)

\* running is set before the mutex is taken.
sender_start ==
    /\ sender = "start" /\ ~running /\ fini = "no"
    /\ running' = TRUE
    /\ UNCHANGED <<sender, adder, index, msg_index, msg_list, max_msgs, msg_aggr_list,
                   flight, fini, adds, clash>>

\* The first wait does not look at the list.
sender_enter ==
    /\ sender = "start" /\ (running \/ fini # "no")
    /\ sender' = IF running THEN "wait" ELSE "done"
    /\ UNCHANGED <<running, adder, index, msg_index, msg_list, max_msgs, msg_aggr_list,
                   flight, fini, adds, clash>>

\* Back from the wait, or from the window; neither goes on for a sender that has been
\* told to stop with nothing to send.
sender_woken ==
    /\ sender \in {"woken", "closing"}
    /\ IF ~running /\ msg_list = <<>>
       THEN sender' = "done" /\ UNCHANGED max_msgs
       ELSE IF sender = "woken"
       THEN sender' = "window" /\ UNCHANGED max_msgs
       ELSE sender' = "send" /\ max_msgs' = TRUE
    /\ UNCHANGED <<running, adder, index, msg_index, msg_list, msg_aggr_list, flight,
                   fini, adds, clash>>

window_expires ==
    /\ sender = "window"
    /\ sender' = "closing"
    /\ UNCHANGED <<running, adder, index, msg_index, msg_list, max_msgs, msg_aggr_list,
                   flight, fini, adds, clash>>

\* Mutant of sender_send: the threads that wait for room are not woken.
SendNoBroadcast ==
    /\ sender = "send"
    /\ msg_list' = <<>>
    /\ max_msgs' = FALSE
    /\ flight' = flight \cup Range(msg_list)
    /\ sender' = IF running THEN "wait" ELSE "done"
    /\ UNCHANGED <<running, adder, index, msg_index, msg_aggr_list, fini, adds, clash>>

\* The list is replaced by an empty one and sent to the collector, its backup or the
\* controller; what reaches none of them is never answered.  The broadcast wakes all that
\* wait for room, and the loop is entered again, all under the mutex.
sender_send ==
    /\ sender = "send"
    /\ msg_list' = <<>>
    /\ max_msgs' = FALSE
    /\ flight' = flight \cup Range(msg_list)
    /\ adder' = [a \in Adders |-> IF adder[a] = "blocked" THEN "woken" ELSE adder[a]]
    /\ sender' = IF running THEN "wait" ELSE "done"
    /\ UNCHANGED <<running, index, msg_index, msg_aggr_list, fini, adds, clash>>
-----------------------------------------------------------------------------
(* msg_aggr_add_msg                                                          *)

add_begin(a) ==
    /\ adder[a] = "idle" /\ running
    /\ adds < MaxAdds
    /\ adds' = adds + 1
    /\ adder' = [adder EXCEPT ![a] = "lock"]
    /\ UNCHANGED <<running, sender, index, msg_index, msg_list, max_msgs,
                   msg_aggr_list, flight, fini, clash>>

\* A thread that comes back from the wait for room does not look at max_msgs again.
add_block(a) ==
    /\ adder[a] = "lock" /\ max_msgs /\ Unlocked
    /\ adder' = [adder EXCEPT ![a] = "blocked"]
    /\ UNCHANGED <<running, sender, index, msg_index, msg_list, max_msgs,
                   msg_aggr_list, flight, fini, adds, clash>>

add_append(a, wait) ==
    LET list == Append(msg_list, [who |-> a, index |-> msg_index])
        adr == [adder EXCEPT ![a] = IF wait THEN "register" ELSE "idle"]
    IN  /\ Unlocked
        /\ adder[a] = "woken" \/ (adder[a] = "lock" /\ ~max_msgs)
        /\ index' = [index EXCEPT ![a] = msg_index]
        /\ msg_index' = (msg_index + 1) % IndexMod
        /\ msg_list' = list
        /\ max_msgs' = (max_msgs \/ Len(list) >= max_msg_cnt)
        /\ IF Len(list) = 1 \/ Len(list) >= max_msg_cnt
           THEN signal(adr)
           ELSE adder' = adr /\ UNCHANGED sender
        /\ UNCHANGED <<running, msg_aggr_list, flight, fini, adds, clash>>

\* The index is that of a thread that waits, or that was answered and has not returned.
Clashes(a) ==
    \/ \E e \in Range(msg_aggr_list) : e.index = index[a]
    \/ \E b \in Adders : adder[b] = "answered" /\ index[b] = index[a]

\* Under aggr_mutex, after the other one was released: the answer may be there before.
add_register(a) ==
    /\ adder[a] = "register" /\ Open
    /\ clash' = (clash \/ Clashes(a))
    /\ adder' = [adder EXCEPT ![a] = "waiting"]
    /\ msg_aggr_list' = Append(msg_aggr_list, [who |-> a, index |-> index[a]])
    /\ UNCHANGED <<running, sender, index, msg_index, msg_list, max_msgs, flight, fini,
                   adds>>

add_return(a) ==
    /\ adder[a] = "answered"
    /\ adder' = [adder EXCEPT ![a] = "idle"]
    /\ UNCHANGED <<running, sender, index, msg_index, msg_list, max_msgs,
                   msg_aggr_list, flight, fini, adds, clash>>
-----------------------------------------------------------------------------
(* Answers                                                                   *)

\* Where the entries are that _handle_msg_aggr_ret takes off msg_aggr_list: the first with
\* the index, but all of them for index 0.
Handled(i) ==
    {k \in DOMAIN msg_aggr_list :
        i = 0 \/ (/\ msg_aggr_list[k].index = i
                  /\ \A j \in 1..(k - 1) : msg_aggr_list[j].index # i)}

list_remove(s, k) == [j \in 1..(Len(s) - 1) |-> IF j < k THEN s[j] ELSE s[j + 1]]

_handle_msg_aggr_ret(i) ==
    \/ i = 0 /\ msg_aggr_list' = <<>>
    \/ i # 0 /\ Handled(i) = {} /\ UNCHANGED msg_aggr_list
    \/ i # 0 /\ \E k \in Handled(i) : msg_aggr_list' = list_remove(msg_aggr_list, k)

Notified(adr, places) ==
    [a \in Adders |-> IF adr[a] = "waiting" /\ (\E k \in places : msg_aggr_list[k].who = a)
                      THEN "answered" ELSE adr[a]]

\* An answer without a waiter is dropped.
msg_aggr_resp(m) ==
    /\ m \in flight /\ Open
    /\ flight' = flight \ {m}
    /\ _handle_msg_aggr_ret(m.index)
    /\ adder' = Notified(adder, Handled(m.index))
    /\ UNCHANGED <<running, sender, index, msg_index, msg_list, max_msgs, fini, adds,
                   clash>>

\* Mutant of add_timeout: the entry stays on the list.
TimeoutKeepsEntry(a) ==
    /\ adder[a] \in {"waiting", "answered"} /\ Open
    /\ adder' = [adder EXCEPT ![a] = "idle"]
    /\ UNCHANGED <<running, sender, index, msg_index, msg_list, max_msgs, msg_aggr_list,
                   flight, fini, adds, clash>>

\* The waiter's time is up, perhaps just before its answer: it takes the entry with its
\* index off, and with index 0 it wakes the others.
add_timeout(a) ==
    LET back == [adder EXCEPT ![a] = "idle"]
    IN  /\ adder[a] \in {"waiting", "answered"} /\ Open
        /\ _handle_msg_aggr_ret(index[a])
        /\ adder' = IF index[a] = 0 THEN Notified(back, Handled(0)) ELSE back
        /\ UNCHANGED <<running, sender, index, msg_index, msg_list, max_msgs, flight,
                       fini, adds, clash>>
-----------------------------------------------------------------------------
(* msg_aggr_sender_fini                                                      *)

fini_begin ==
    /\ fini = "no" /\ running
    /\ running' = FALSE
    /\ fini' = "set"
    /\ UNCHANGED <<sender, adder, index, msg_index, msg_list, max_msgs, msg_aggr_list,
                   flight, adds, clash>>

\* Mutant of fini_signal: nobody is woken.
FiniNoSignal ==
    /\ fini = "set" /\ Unlocked
    /\ fini' = "join"
    /\ UNCHANGED <<running, sender, adder, index, msg_index, msg_list, max_msgs,
                   msg_aggr_list, flight, adds, clash>>

fini_signal ==
    /\ fini = "set" /\ Unlocked
    /\ fini' = "join"
    /\ signal(adder)
    /\ UNCHANGED <<running, index, msg_index, msg_list, max_msgs, msg_aggr_list,
                   flight, adds, clash>>

\* After the join every waiter is woken.
fini_end ==
    /\ fini = "join" /\ sender = "done"
    /\ fini' = "end"
    /\ _handle_msg_aggr_ret(0)
    /\ adder' = Notified(adder, Handled(0))
    /\ msg_list' = <<>>
    /\ UNCHANGED <<running, sender, index, msg_index, max_msgs, flight, adds, clash>>
-----------------------------------------------------------------------------
SenderStep ==
    \/ sender_start \/ sender_enter \/ sender_woken \/ window_expires \/ sender_send

AddStep(a) ==
    \/ add_block(a)
    \/ \E wait \in BOOLEAN : add_append(a, wait)
    \/ add_register(a) \/ add_return(a) \/ add_timeout(a)

AggrNext ==
    \/ SenderStep
    \/ \E a \in Adders : add_begin(a) \/ AddStep(a)
    \/ \E m \in flight : msg_aggr_resp(m)
    \/ fini_begin \/ fini_signal \/ fini_end

AggrSpec == AggrInit /\ [][AggrNext]_aggr_vars

\* The threads run and the time limits of their waits pass; no answer is promised.
AggrFairness ==
    /\ WF_aggr_vars(SenderStep)
    /\ \A a \in Adders : WF_aggr_vars(AddStep(a))
    /\ WF_aggr_vars(fini_signal)
    /\ WF_aggr_vars(fini_end)

AggrLiveSpec == AggrSpec /\ AggrFairness
-----------------------------------------------------------------------------
\* Every variable stays in its type.
AggrTypeOK ==
    /\ running \in BOOLEAN /\ max_msgs \in BOOLEAN
    /\ sender \in Sender
    /\ adder \in [Adders -> Adder]
    /\ index \in [Adders -> 0..(IndexMod - 1)] /\ msg_index \in 0..(IndexMod - 1)
    /\ msg_list \in Seq(Entry) /\ msg_aggr_list \in Seq(Entry)
    /\ flight \subseteq Entry
    /\ fini \in {"no", "set", "join", "end"}
    /\ adds \in 0..MaxAdds
    /\ clash \in BOOLEAN

\* The first message starts a window (msg_aggr_add_msg): the sender is not asleep without
\* a time limit while a message is collected.  This does not hold for a message that comes
\* before the sender's first wait.
WindowStarts == ~(sender = "wait" /\ msg_list # <<>>)

\* A thread that adds a message comes back from it: by room in the list, by the answer or
\* by its time limit.  The exception is a message that came before the sender's first
\* wait, when the signal for it finds nobody.
AddsReturn ==
    \A a \in Adders :
        adder[a] # "idle" ~> (adder[a] = "idle" \/ ~WindowStarts \/ fini # "no")

\* msg_aggr_sender_fini returns: the signal that should end the sender may wake a thread
\* that waits for room instead, and is then passed on.
FiniReturns == fini = "set" ~> fini = "end"

\* msg_aggr_list has an entry of every thread that waits and of no other: an answer finds
\* the waiter, and never one that has timed out and freed its entry.  This lasts until the
\* 16 bit counter comes round to the index of a waiter.
EntriesLive ==
    ~clash =>
      /\ {e.who : e \in Range(msg_aggr_list)} = {a \in Adders : adder[a] = "waiting"}
      /\ \A e \in Range(msg_aggr_list) : e.index = index[e.who]
=============================================================================
