------------------------------ MODULE DbdAgent ------------------------------
(***************************************************************************)
(* The queue of accounting messages that slurmctld keeps for slurmdbd,     *)
(* from common/slurmdbd_defs.c.  slurm_send_slurmdbd_msg() appends to      *)
(* agent_list; the thread _agent() sends what is queued, waits for the     *)
(* return codes and only then takes the messages off the list; callers of  *)
(* slurm_send_recv_slurmdbd_msg() share its connection and push in front   *)
(* of it with halt_agent.  Closing the connection stops the thread, which  *)
(* saves what is pending in the file dbd.messages, read when the           *)
(* connection is opened again; the daemon may also end without that.       *)
(*                                                                         *)
(* A message is its number in the order of the calls and the class that    *)
(* the purge of a full queue goes by.  slurmdbd is external: it answers    *)
(* with success for a prefix of what it is sent, or does not answer.  The  *)
(* ten seconds that the agent lets pass after a failure are a delay of its *)
(* next step.                                                              *)
(***************************************************************************)
EXTENDS Integers, Sequences, Lists

CONSTANTS
    Callers,            \* threads that call slurm_send_recv_slurmdbd_msg()
    max_agent_queue,
    handle_agent_count, \* the size of a batch, less one; 1000 in the code
    MaxMsgs,            \* bound on the messages sent
    Kinds,              \* bound: the classes each of them may have
    MaxCalls,           \* bound on the calls of the callers
    MaxOpens            \* bound on the times the connection is opened

Kind == {"step", "start", "other", "register"}

ASSUME QueueAssumption ==
    /\ max_agent_queue \in Nat \ {0} /\ handle_agent_count \in Nat
    /\ Callers \cap {"free", "agent"} = {}
    /\ MaxMsgs \in Nat /\ MaxCalls \in Nat /\ MaxOpens \in Nat
    /\ Kinds \in [1..MaxMsgs -> SUBSET Kind]

Msg == [id : 1..MaxMsgs, kind : Kind]

VARIABLES
    mode,               \* "closed", "open" or "closing"
    agent_list,
    agent,              \* where _agent() is, see Agent
    batch,              \* the messages it has packed
    rc,                 \* how many of them slurmdbd answered with success
    need_to_register,
    fd,                 \* the connection is open
    slurmdbd_lock,      \* who holds it
    halt_agent,
    slurmdbd_shutdown,
    caller,             \* where each caller is: "idle", "lock" or "call"
    dbd_messages,       \* the file
    sent, calls, opens, \* counts of what the bounds limit
    acked,              \* ghost: the messages whose success reached the daemon
    excused,            \* ghost: purged, discarded, not to be saved, or lost with a thread
    raced,              \* ghost: a purge took a message that was being sent
    cut                 \* ghost: the daemon or the agent has ended without saving

vars == <<mode, agent_list, agent, batch, rc, need_to_register, fd,
          slurmdbd_lock, halt_agent, slurmdbd_shutdown, caller, dbd_messages, sent,
          calls, opens, acked, excused, raced, cut>>

\* "halted" waits for slurmdbd_cond, "wait" for agent_cond; "dead" was cancelled with
\* slurmdbd_lock in its hands and "dead_wait" with agent_lock.
Agent == {"none", "top", "halted", "relock", "opening", "wait", "send", "ret", "finish",
          "register", "save", "dead", "dead_wait"}

Ids(q) == {q[i].id : i \in DOMAIN q}
agent_lock_free == agent # "dead_wait"

Init ==
    /\ mode = "closed"
    /\ agent_list = <<>>
    /\ agent = "none"
    /\ batch = <<>>
    /\ rc = 0
    /\ need_to_register = FALSE
    /\ fd = FALSE
    /\ slurmdbd_lock = "free"
    /\ halt_agent = FALSE
    /\ slurmdbd_shutdown = FALSE
    /\ caller = [c \in Callers |-> "idle"]
    /\ dbd_messages = <<>>
    /\ sent = 0
    /\ calls = 0
    /\ opens = 0
    /\ acked = {}
    /\ excused = {}
    /\ raced = FALSE
    /\ cut = FALSE

counts == <<sent, calls, opens>>
ghosts == <<acked, excused, raced, cut>>
conn == <<fd, slurmdbd_lock, halt_agent, slurmdbd_shutdown>>
-----------------------------------------------------------------------------
(* The queue                                                                 *)

\* _purge_step_req and _purge_job_start_req
Purge(q, kind) == Kept(q, {i \in DOMAIN q : q[i].kind # kind})

\* The test for a queue one short of its limit, and the second one on what the first
\* purge left of it.
Purged(q) ==
    LET full(p) == Len(p) = max_agent_queue - 1
        steps == IF full(q) THEN Purge(q, "step") ELSE q
    IN  IF full(steps) THEN Purge(steps, "start") ELSE steps

Enqueued(q, m) ==
    IF Len(Purged(q)) < max_agent_queue THEN Append(Purged(q), m) ELSE Purged(q)

enqueue(kind) ==
    LET m == [id |-> sent + 1, kind |-> kind]
        gone == (Ids(agent_list) \cup {m.id}) \ Ids(Enqueued(agent_list, m))
    IN  /\ sent < MaxMsgs
        /\ sent' = m.id
        /\ agent_list' = Enqueued(agent_list, m)
        /\ excused' = excused \cup gone
        /\ raced' = (raced \/ gone \cap Ids(batch) # {})

slurm_send_slurmdbd_msg(kind) ==
    /\ mode # "closed" /\ agent \notin {"none", "dead", "dead_wait"}
    /\ enqueue(kind)
    /\ UNCHANGED <<mode, agent, batch, rc, need_to_register, conn, caller,
                   dbd_messages, calls, opens, acked, cut>>
-----------------------------------------------------------------------------
(* The connection                                                            *)

\* The outcome of _open_slurmdbd_conn(), which first takes a shutdown request back.
\* up: slurmdbd, or its backup, accepted the connection.
_open_slurmdbd_conn(up) ==
    /\ fd' = (fd \/ up)
    /\ need_to_register' = (need_to_register \/ (~fd /\ up))
    /\ slurmdbd_shutdown' = (slurmdbd_shutdown /\ fd)

\* _create_agent and _load_dbd_state are part of it.
slurm_open_slurmdbd_conn(up) ==
    /\ mode = "closed" /\ slurmdbd_lock = "free" /\ agent_lock_free
    /\ opens < MaxOpens
    /\ opens' = opens + 1
    /\ mode' = "open"
    /\ fd' = (fd \/ up)
    /\ need_to_register' = (need_to_register \/ (~fd /\ up))
    /\ slurmdbd_shutdown' = FALSE
    /\ agent_list' = dbd_messages
    /\ agent' = "top"
    /\ UNCHANGED <<batch, rc, slurmdbd_lock, halt_agent, caller, dbd_messages,
                   sent, calls, ghosts>>

\* slurm_send_recv_slurmdbd_msg: halt_agent is set without the lock
caller_halt(c) ==
    /\ mode = "open" /\ caller[c] = "idle"
    /\ calls < MaxCalls
    /\ calls' = calls + 1
    /\ halt_agent' = TRUE
    /\ caller' = [caller EXCEPT ![c] = "lock"]
    /\ UNCHANGED <<mode, agent_list, agent, batch, rc, need_to_register, fd,
                   slurmdbd_lock, slurmdbd_shutdown, dbd_messages, sent, opens, ghosts>>

caller_lock(c) ==
    /\ caller[c] = "lock" /\ slurmdbd_lock = "free"
    /\ slurmdbd_lock' = c
    /\ halt_agent' = FALSE
    /\ caller' = [caller EXCEPT ![c] = "call"]
    /\ UNCHANGED <<mode, agent_list, agent, batch, rc, need_to_register, fd,
                   slurmdbd_shutdown, dbd_messages, counts, ghosts>>

\* Mutants of caller_call: the agent is not woken, or slurmdbd_lock is kept after a
\* failure.
CallNoSignal(c, up) ==
    /\ caller[c] = "call"
    /\ IF fd
       THEN fd' = up /\ UNCHANGED <<need_to_register, slurmdbd_shutdown>>
       ELSE _open_slurmdbd_conn(up)
    /\ slurmdbd_lock' = "free"
    /\ caller' = [caller EXCEPT ![c] = "idle"]
    /\ UNCHANGED <<mode, agent_list, agent, batch, rc, halt_agent, dbd_messages,
                   counts, ghosts>>

CallKeepsLock(c, up) ==
    /\ caller[c] = "call"
    /\ IF fd
       THEN fd' = up /\ UNCHANGED <<need_to_register, slurmdbd_shutdown>>
       ELSE _open_slurmdbd_conn(up)
    /\ slurmdbd_lock' = IF up THEN "free" ELSE c
    /\ agent' = IF agent = "halted" THEN "relock" ELSE agent
    /\ caller' = [caller EXCEPT ![c] = "idle"]
    /\ UNCHANGED <<mode, agent_list, batch, rc, halt_agent, dbd_messages,
                   counts, ghosts>>

\* It opens the connection when there is none, has its answer or not, and signals.
caller_call(c, up) ==
    /\ caller[c] = "call"
    /\ IF fd
       THEN fd' = up /\ UNCHANGED <<need_to_register, slurmdbd_shutdown>>
       ELSE _open_slurmdbd_conn(up)
    /\ slurmdbd_lock' = "free"
    /\ agent' = IF agent = "halted" THEN "relock" ELSE agent
    /\ caller' = [caller EXCEPT ![c] = "idle"]
    /\ UNCHANGED <<mode, agent_list, batch, rc, halt_agent, dbd_messages,
                   counts, ghosts>>
-----------------------------------------------------------------------------
(* _agent                                                                    *)

\* A long queue goes in batches of handle_agent_count + 1, a shorter one as a whole, a
\* single message by itself.  Nothing is taken off yet.
Batch(q) ==
    SubSeq(q, 1, IF Len(q) > handle_agent_count THEN handle_agent_count + 1 ELSE Len(q))

\* With slurmdbd_lock in hand: the batch, or a wait for agent_cond without the lock.
pick(is_open) ==
    IF agent_list = <<>> \/ ~is_open
    THEN agent' = "wait" /\ slurmdbd_lock' = "free" /\ UNCHANGED batch
    ELSE agent' = "send" /\ slurmdbd_lock' = "agent" /\ batch' = Batch(agent_list)

\* The head of the loop, to the wait for slurmdbd_cond, which releases the lock, or the
\* opening of the connection.  The wait is an if: the thread that comes back from it does
\* not look at halt_agent again.  The wait for agent_cond may end at any time.
agent_loop ==
    /\ agent \in {"top", "wait", "relock"}
    /\ IF agent # "relock" /\ slurmdbd_shutdown
       THEN agent' = "save" /\ UNCHANGED <<slurmdbd_lock, batch>>
       ELSE /\ slurmdbd_lock = "free"
            /\ IF agent # "relock" /\ halt_agent
               THEN agent' = "halted" /\ UNCHANGED <<slurmdbd_lock, batch>>
               ELSE IF ~fd
               THEN agent' = "opening" /\ slurmdbd_lock' = "agent" /\ UNCHANGED batch
               ELSE pick(fd)
    /\ UNCHANGED <<mode, agent_list, rc, need_to_register, fd, halt_agent,
                   slurmdbd_shutdown, caller, dbd_messages, counts, ghosts>>

agent_opened(up) ==
    /\ agent = "opening"
    /\ _open_slurmdbd_conn(up)
    /\ pick(up)
    /\ UNCHANGED <<mode, agent_list, rc, halt_agent, caller, dbd_messages, counts, ghosts>>

\* The message cannot be sent, or there is no answer to it, recorded or not; the
\* connection is abandoned, or reopened.
agent_fails(up) ==
    /\ agent = "send"
    /\ fd' = up
    /\ rc' = 0
    /\ \/ agent' = "ret" /\ UNCHANGED <<slurmdbd_lock, batch>>
       \/ slurmdbd_shutdown /\ agent' = "save" /\ slurmdbd_lock' = "free" /\ batch' = <<>>
    /\ UNCHANGED <<mode, agent_list, need_to_register, halt_agent, slurmdbd_shutdown, caller,
                   dbd_messages, counts, ghosts>>

\* slurmdbd records the first k messages, stops at one it cannot record, and answers.
agent_answered(k) ==
    /\ agent = "send" /\ k <= Len(batch)
    /\ agent' = "ret"
    /\ rc' = k
    /\ acked' = acked \cup Ids(SubSeq(batch, 1, k))
    /\ UNCHANGED <<mode, agent_list, batch, need_to_register, conn, caller, dbd_messages,
                   counts, excused, raced, cut>>

Dequeued(q, n) == SubSeq(q, n + 1, Len(q))

\* Mutant of agent_ret: the whole batch is taken off.
RetTakesAll ==
    /\ agent = "ret"
    /\ agent' = "finish"
    /\ slurmdbd_lock' = "free"
    /\ agent_list' = IF Len(batch) > 1 THEN Dequeued(agent_list, Len(batch)) ELSE agent_list
    /\ UNCHANGED <<mode, batch, rc, need_to_register, fd, halt_agent,
                   slurmdbd_shutdown, caller, dbd_messages, counts, ghosts>>

\* _handle_mult_rc_ret takes one message off for each success; a single one stays.
agent_ret ==
    /\ agent = "ret"
    /\ agent' = "finish"
    /\ slurmdbd_lock' = "free"
    /\ agent_list' = IF Len(batch) > 1 THEN Dequeued(agent_list, rc) ELSE agent_list
    /\ UNCHANGED <<mode, batch, rc, need_to_register, fd, halt_agent,
                   slurmdbd_shutdown, caller, dbd_messages, counts, ghosts>>

agent_finish ==
    /\ agent = "finish"
    /\ agent' = IF need_to_register THEN "register" ELSE "top"
    /\ agent_list' = IF Len(batch) = 1 THEN Dequeued(agent_list, rc) ELSE agent_list
    /\ batch' = <<>>
    /\ rc' = 0
    /\ UNCHANGED <<mode, need_to_register, conn, caller, dbd_messages, counts, ghosts>>

\* clusteracct_storage_g_register_ctld queues a message; past the bound there is none.
agent_register ==
    /\ agent = "register"
    /\ agent' = "top"
    /\ need_to_register' = FALSE
    /\ IF sent < MaxMsgs THEN enqueue("register")
       ELSE UNCHANGED <<sent, agent_list, excused, raced>>
    /\ UNCHANGED <<mode, batch, rc, conn, caller, dbd_messages, calls, opens,
                   acked, cut>>

Unsaved == {i \in DOMAIN agent_list : agent_list[i].kind = "register"}

\* Mutant of _save_dbd_state: with nothing to save the file is left as it is.
SaveIfAny ==
    IF agent_list = <<>> THEN UNCHANGED <<dbd_messages, excused>>
    ELSE /\ dbd_messages' = Kept(agent_list, DOMAIN agent_list \ Unsaved)
         /\ excused' = excused \cup {agent_list[i].id : i \in Unsaved}

\* The end of the thread; _save_dbd_state starts the file anew, without registrations.
_save_dbd_state ==
    /\ dbd_messages' = Kept(agent_list, DOMAIN agent_list \ Unsaved)
    /\ excused' = excused \cup {agent_list[i].id : i \in Unsaved}

agent_save ==
    /\ agent = "save"
    /\ agent' = "none"
    /\ _save_dbd_state
    /\ agent_list' = <<>>
    /\ UNCHANGED <<mode, batch, rc, need_to_register, conn, caller, counts,
                   acked, raced, cut>>
-----------------------------------------------------------------------------
(* slurm_close_slurmdbd_conn and the end of the daemon                       *)

close_begin ==
    /\ mode = "open"
    /\ mode' = "closing"
    /\ slurmdbd_shutdown' = TRUE
    /\ UNCHANGED <<agent_list, agent, batch, rc, need_to_register, fd,
                   slurmdbd_lock, halt_agent, caller, dbd_messages, counts, ghosts>>

\* The agent has not ended in five seconds and is cancelled, at a wait or in its input and
\* output, with the lock that goes with it in its hands.
close_cancel ==
    /\ mode = "closing"
    /\ \/ agent \in {"halted", "opening", "send"} /\ slurmdbd_lock \in {"free", "agent"}
       \/ agent = "wait" /\ ~slurmdbd_shutdown
    /\ IF agent = "wait"
       THEN agent' = "dead_wait" /\ UNCHANGED slurmdbd_lock
       ELSE agent' = "dead" /\ slurmdbd_lock' = "agent"
    /\ excused' = excused \cup Ids(agent_list)
    /\ cut' = TRUE
    /\ UNCHANGED <<mode, agent_list, batch, rc, need_to_register, fd, halt_agent,
                   slurmdbd_shutdown, caller, dbd_messages, counts, acked, raced>>

close_end ==
    /\ mode = "closing" /\ agent \in {"none", "dead", "dead_wait"} /\ slurmdbd_lock = "free"
    /\ mode' = "closed"
    /\ fd' = FALSE
    /\ UNCHANGED <<agent_list, agent, batch, rc, need_to_register, slurmdbd_lock,
                   halt_agent, slurmdbd_shutdown, caller, dbd_messages, counts, ghosts>>

Crash ==
    /\ mode # "closed" \/ agent = "dead_wait"
    /\ mode' = "closed"
    /\ agent_list' = <<>>
    /\ agent' = "none"
    /\ batch' = <<>>
    /\ rc' = 0
    /\ need_to_register' = FALSE
    /\ fd' = FALSE
    /\ slurmdbd_lock' = "free"
    /\ halt_agent' = FALSE
    /\ slurmdbd_shutdown' = FALSE
    /\ caller' = [c \in Callers |-> "idle"]
    /\ excused' = excused \cup Ids(agent_list)
    /\ cut' = TRUE
    /\ UNCHANGED <<dbd_messages, counts, acked, raced>>
-----------------------------------------------------------------------------
AgentStep ==
    \/ agent_loop
    \/ \E up \in BOOLEAN : agent_opened(up)
    \/ \E up \in BOOLEAN : agent_fails(up)
    \/ \E k \in 0..(handle_agent_count + 1) : agent_answered(k)
    \/ agent_ret \/ agent_finish \/ agent_register \/ agent_save

CallerStep(c) == caller_lock(c) \/ \E up \in BOOLEAN : caller_call(c, up)

Next ==
    \/ \E n \in 1..MaxMsgs : \E kind \in Kinds[n] :
          sent = n - 1 /\ slurm_send_slurmdbd_msg(kind)
    \/ \E up \in BOOLEAN : slurm_open_slurmdbd_conn(up)
    \/ \E c \in Callers : caller_halt(c) \/ CallerStep(c)
    \/ AgentStep
    \/ close_begin \/ close_cancel \/ close_end
    \/ Crash

Spec == Init /\ [][Next]_vars

\* The threads run, a close comes to its five seconds' end (the cancellation stays pending
\* until the agent is where it takes effect), and slurmdbd can be reached and answers for
\* everything from time to time.
Fairness ==
    /\ WF_vars(AgentStep)
    /\ \A c \in Callers : WF_vars(CallerStep(c))
    /\ SF_vars(close_cancel)
    /\ WF_vars(close_end)
    /\ SF_vars(agent_opened(TRUE))
    /\ SF_vars(agent_answered(Len(batch)))

LiveSpec == Spec /\ Fairness
-----------------------------------------------------------------------------
\* Every variable stays in its type, and the queue within its limit.
TypeOK ==
    /\ mode \in {"closed", "open", "closing"}
    /\ agent_list \in Seq(Msg) /\ Len(agent_list) <= max_agent_queue
    /\ agent \in Agent
    /\ batch \in Seq(Msg) /\ rc \in 0..Len(batch)
    /\ need_to_register \in BOOLEAN /\ fd \in BOOLEAN
    /\ halt_agent \in BOOLEAN /\ slurmdbd_shutdown \in BOOLEAN
    /\ slurmdbd_lock \in {"free", "agent"} \cup Callers
    /\ caller \in [Callers -> {"idle", "lock", "call"}]
    /\ dbd_messages \in Seq(Msg)
    /\ sent \in 0..MaxMsgs /\ calls \in 0..MaxCalls /\ opens \in 0..MaxOpens
    /\ acked \subseteq 1..MaxMsgs /\ excused \subseteq 1..MaxMsgs
    /\ raced \in BOOLEAN /\ cut \in BOOLEAN

Pending == Ids(IF agent = "none" THEN dbd_messages ELSE agent_list)

\* _agent leaves a message on the queue until it has been processed, and a close saves the
\* queue: every message was recorded by slurmdbd, which said so, or is pending in memory or
\* in dbd.messages, unless it was purged, discarded, a registration, or lost with a daemon
\* or an agent that ended without saving.  The exception is a purge that takes a message
\* while it is being sent: its success then takes another one off the queue.
NothingDropped == ~raced => 1..sent \subseteq acked \cup excused \cup Pending

\* A message whose success was received is not sent again, over any number of closes and
\* opens of the connection: dbd.messages, never removed after it is read, is rewritten
\* by each close.
AckedOnce == (~cut /\ agent \notin {"ret", "finish"}) => acked \cap Pending = {}

\* The queue empties once no more is sent: neither a caller that halts the agent nor a
\* failure leaves the agent asleep for good.
Delivered ==
    (mode = "open" /\ agent_list # <<>>) ~> (mode # "open" \/ agent_list = <<>>)

\* slurm_close_slurmdbd_conn returns, unless it has cancelled an agent that held
\* slurmdbd_lock, which it needs next.
CloseReturns == mode = "closing" ~> (mode # "closing" \/ agent = "dead")
=============================================================================
