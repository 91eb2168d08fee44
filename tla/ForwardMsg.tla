----------------------------- MODULE ForwardMsg -----------------------------
(***************************************************************************)
(* A node inside a message tree (forward_msg(), _forward_msg_internal(),   *)
(* _forward_thread() and forward_wait() in src/common/forward.c, started   *)
(* by slurm_receive_msg_and_forward()).  The node passes a message on to   *)
(* the hosts named in its header, in branches with one thread each, and    *)
(* waits in forward_wait for as many answers before it sends its own.  In  *)
(* contrast to the head of the tree (module MsgTree) nothing counts the    *)
(* threads: forward_wait frees the shared forward_struct as soon as the    *)
(* list of answers is long enough.                                         *)
(***************************************************************************)
EXTENDS Naturals, FiniteSets

CONSTANTS
    Hosts,
    NoThread        \* not a host

ASSUME HostsAssumption == IsFiniteSet(Hosts) /\ NoThread \notin Hosts

VARIABLES
    msg_type,       \* "quiet" for a shutdown, reconfigure or reboot request
    branch,         \* split of the hosts: the first host of each host's branch
    started,        \* branches whose thread was created
    waiter,         \* the thread that handles the message
    thr,            \* the forward threads, named after their first host
    hl,             \* thread whose hostlist holds each host, or NoThread
    name,           \* host each thread is asking
    ret_list        \* number of answers listed for each host

vars == <<msg_type, branch, started, waiter, thr, hl, name, ret_list>>

Live(t) == thr[t] \in {"loop", "open", "recv", "merge", "spawn", "end"}

Left(t) == {h \in Hosts : hl[h] = t}

\* hostlist_uniq and route_g_split_hostlist: any split into branches.
Splits == {f \in [Hosts -> Hosts] : \A h \in Hosts : f[f[h]] = f[h]}

Init ==
    /\ msg_type \in {"quiet", "answered"}
    /\ branch \in Splits
    /\ started = {}
    /\ waiter = "forward"
    /\ thr = [h \in Hosts |-> "none"]
    /\ hl = [h \in Hosts |-> NoThread]
    /\ name = [h \in Hosts |-> NoThread]
    /\ ret_list = [h \in Hosts |-> 0]
-----------------------------------------------------------------------------
(* The thread that handles the message                                       *)

\* forward_msg
forward_msg(b) ==
    /\ waiter = "forward"
    /\ b \in {branch[h] : h \in Hosts} \ started
    /\ started' = started \cup {b}
    /\ thr' = [thr EXCEPT ![b] = "loop"]
    /\ hl' = [h \in Hosts |-> IF branch[h] = b THEN b ELSE hl[h]]
    /\ UNCHANGED <<msg_type, branch, waiter, name, ret_list>>

forwarded ==
    /\ waiter = "forward" /\ \A h \in Hosts : branch[h] \in started
    /\ waiter' = "check"
    /\ UNCHANGED <<msg_type, branch, started, thr, hl, name, ret_list>>

\* list_count(ret_list) and fwd_cnt
Entries == UNION {{<<h, i>> : i \in 1..ret_list[h]} : h \in Hosts}
count == Cardinality(Entries)
fwd_cnt == Cardinality(Hosts)

\* Mutant of EnoughAnswers: one answer too few.
EnoughBut1 == count + 1 >= fwd_cnt

\* while (count < fwd_cnt)
EnoughAnswers == count >= fwd_cnt

\* forward_wait, and destroy_forward_struct once the answers are there.
forward_wait ==
    /\ waiter = "check"
    /\ waiter' = IF EnoughAnswers THEN "destroyed" ELSE "asleep"
    /\ UNCHANGED <<msg_type, branch, started, thr, hl, name, ret_list>>

\* slurm_cond_signal(notify), with forward_mutex held
Signalled == IF waiter = "asleep" THEN "check" ELSE waiter
-----------------------------------------------------------------------------
(* _forward_thread                                                           *)

Add(list, S) == [h \in Hosts |-> IF h \in S THEN list[h] + 1 ELSE list[h]]

\* mark_as_failed_forward with forward_mutex held, then "next" if there are hosts
\* left and the cleanup otherwise, which signals and ends the thread.
Fail(t, n, left, next) ==
    /\ ret_list' = Add(ret_list, {n})
    /\ IF left # {}
         THEN thr' = [thr EXCEPT ![t] = next] /\ UNCHANGED waiter
         ELSE thr' = [thr EXCEPT ![t] = "gone"] /\ waiter' = Signalled

\* hostlist_shift and slurm_conf_get_addr, which may not know the host.
fwd_shift(t, n) ==
    /\ thr[t] = "loop" /\ n \in Left(t)
    /\ t \in Left(t) => n = t
    /\ hl' = [hl EXCEPT ![n] = NoThread]
    /\ name' = [name EXCEPT ![t] = n]
    /\ \/ Fail(t, n, Left(t) \ {n}, "loop")
       \/ thr' = [thr EXCEPT ![t] = "open"] /\ UNCHANGED <<waiter, ret_list>>
    /\ UNCHANGED <<msg_type, branch, started>>

\* slurm_open_msg_conn or slurm_msg_sendto fails: the tree is abandoned.
fwd_send_failed(t) ==
    /\ thr[t] = "open"
    /\ Fail(t, name[t], Left(t), "spawn")
    /\ UNCHANGED <<msg_type, branch, started, hl, name>>

\* The message is sent.  Nobody answers a quiet one: all the hosts are listed.
fwd_sent(t) ==
    /\ thr[t] = "open"
    /\ IF msg_type = "quiet"
         THEN /\ ret_list' = Add(ret_list, Left(t) \cup {name[t]})
              /\ hl' = [h \in Hosts |-> IF hl[h] = t THEN NoThread ELSE hl[h]]
              /\ thr' = [thr EXCEPT ![t] = "gone"]
              /\ waiter' = Signalled
         ELSE thr' = [thr EXCEPT ![t] = "recv"] /\ UNCHANGED <<ret_list, hl, waiter>>
    /\ UNCHANGED <<msg_type, branch, started, name>>

\* slurm_receive_msgs gets no answer, or one that speaks for the host alone: the
\* host is marked as failed and the others are tried one after the other.
fwd_no_answer(t) ==
    /\ thr[t] = "recv"
    /\ Fail(t, name[t], Left(t), "loop")
    /\ UNCHANGED <<msg_type, branch, started, hl, name>>

\* Mutants of fwd_answered: hosts that answered are marked as failed as well, or
\* hosts that did not are forgotten.
AnsweredMarkAll(t, got) ==
    /\ thr[t] = "recv" /\ got \subseteq Left(t)
    /\ Left(t) # {} => got # {}
    /\ ret_list' = Add(ret_list, Left(t))
    /\ hl' = [h \in Hosts |-> IF hl[h] = t /\ h \notin got THEN NoThread ELSE hl[h]]
    /\ thr' = [thr EXCEPT ![t] = "merge"]
    /\ UNCHANGED <<msg_type, branch, started, waiter, name>>

AnsweredForget(t, got) ==
    /\ thr[t] = "recv" /\ got \subseteq Left(t)
    /\ Left(t) # {} => got # {}
    /\ hl' = [h \in Hosts |-> IF hl[h] = t /\ h \notin got THEN NoThread ELSE hl[h]]
    /\ thr' = [thr EXCEPT ![t] = "merge"]
    /\ UNCHANGED <<msg_type, branch, started, waiter, name, ret_list>>

\* It gets the answers of the host and of the hosts in got.  Those missing are
\* marked as failed, without the mutex and before the others are listed.
fwd_answered(t, got) ==
    /\ thr[t] = "recv" /\ got \subseteq Left(t)
    /\ Left(t) # {} => got # {}
    /\ ret_list' = Add(ret_list, Left(t) \ got)
    /\ hl' = [h \in Hosts |-> IF hl[h] = t /\ h \notin got THEN NoThread ELSE hl[h]]
    /\ thr' = [thr EXCEPT ![t] = "merge"]
    /\ UNCHANGED <<msg_type, branch, started, waiter, name>>

\* The answers are listed and the thread ends.
fwd_merge(t) ==
    /\ thr[t] = "merge"
    /\ ret_list' = Add(ret_list, Left(t) \cup {name[t]})
    /\ hl' = [h \in Hosts |-> IF hl[h] = t THEN NoThread ELSE hl[h]]
    /\ thr' = [thr EXCEPT ![t] = "gone"]
    /\ waiter' = Signalled
    /\ UNCHANGED <<msg_type, branch, started, name>>

\* _forward_msg_internal with a thread for every host left.
fwd_spawn(t, n) ==
    /\ thr[t] = "spawn" /\ n \in Left(t)
    /\ thr' = [thr EXCEPT ![n] = "loop"]
    /\ hl' = [hl EXCEPT ![n] = n]
    /\ UNCHANGED <<msg_type, branch, started, waiter, name, ret_list>>

\* The loop ends when all hosts have a thread.
fwd_spawned(t) ==
    /\ thr[t] = "spawn" /\ Left(t) = {}
    /\ thr' = [thr EXCEPT ![t] = "end"]
    /\ UNCHANGED <<msg_type, branch, started, waiter, hl, name, ret_list>>

\* The thread locks forward_mutex, has nothing to list, signals and unlocks.
fwd_end(t) ==
    /\ thr[t] = "end"
    /\ thr' = [thr EXCEPT ![t] = "gone"]
    /\ waiter' = Signalled
    /\ UNCHANGED <<msg_type, branch, started, hl, name, ret_list>>
-----------------------------------------------------------------------------
Step(t) ==
    \/ \E n \in Left(t) : fwd_shift(t, n) \/ fwd_spawn(t, n)
    \/ fwd_send_failed(t) \/ fwd_sent(t) \/ fwd_no_answer(t)
    \/ \E got \in SUBSET Left(t) : fwd_answered(t, got)
    \/ fwd_merge(t) \/ fwd_spawned(t) \/ fwd_end(t)

Next ==
    \/ \E b \in Hosts : forward_msg(b)
    \/ forwarded \/ forward_wait
    \/ \E t \in Hosts : Step(t)

Spec == Init /\ [][Next]_vars

\* Threads run, and sending and receiving end by their timeouts.
Fairness ==
    /\ WF_vars(\E b \in Hosts : forward_msg(b))
    /\ WF_vars(forwarded) /\ WF_vars(forward_wait)
    /\ \A t \in Hosts : WF_vars(Step(t))

LiveSpec == Spec /\ Fairness
-----------------------------------------------------------------------------
\* Every variable stays in its type; no host is listed twice.
TypeOK ==
    /\ msg_type \in {"quiet", "answered"}
    /\ branch \in Splits
    /\ started \subseteq Hosts
    /\ waiter \in {"forward", "check", "asleep", "destroyed"}
    /\ thr \in [Hosts -> {"none", "loop", "open", "recv", "merge", "spawn", "end", "gone"}]
    /\ hl \in [Hosts -> Hosts \cup {NoThread}]
    /\ name \in [Hosts -> Hosts \cup {NoThread}]
    /\ ret_list \in [Hosts -> 0..1]

\* forward_wait: when it lets the answer go out every host below has exactly one
\* entry in the list, whatever failed.  The counting alone would also accept two
\* entries for one host and none for another.
AllListedOnce == waiter = "destroyed" => \A h \in Hosts : ret_list[h] = 1

\* forward_msg and forward_wait keep the promise of Broadcast, though they count
\* answers and not threads.
Promise == INSTANCE Broadcast WITH
               answered <- {h \in Hosts : ret_list[h] = 1},
               returned <- (waiter = "destroyed")
ForwardKeepsPromise == Promise!Spec

\* forward_wait sleeps only while a thread is left that will signal notify.
WaiterWakes == waiter = "asleep" => \E t \in Hosts : Live(t)

\* forward_wait: no thread that still has an answer to list finds the
\* forward_struct freed.
ListersLive ==
    waiter = "destroyed" =>
        \A t \in Hosts : thr[t] \notin {"loop", "open", "recv", "merge"}

\* forward_wait, "wait for all the other messages on the tree under us": when it
\* frees the forward_struct no thread is going to use it.  This does not hold: a thread
\* that has handed its hosts to others still locks the mutex in it before it ends.
StructLive == waiter = "destroyed" => \A t \in Hosts : ~Live(t)

\* forward_wait returns, however many branches fail.
WaitReturns == <>(waiter = "destroyed")
=============================================================================
