------------------------------ MODULE AgentRpc ------------------------------
(***************************************************************************)
(* One RPC agent of slurmctld (agent(), _wdog() and                        *)
(* _thread_per_group_rpc() in src/slurmctld/agent.c) from the moment it    *)
(* has its thread budget to the moment it frees its data: the agent thread *)
(* creates one thread per group of nodes, at most AGENT_THREAD_COUNT at a  *)
(* time; a watchdog interrupts threads whose communication hangs and, when *)
(* every thread has reported, hands the results to the job and node tables *)
(* and queues what is to be sent again.                                    *)
(*                                                                         *)
(* A hold of thread_mutex is one step, except that the watchdog keeps the  *)
(* mutex from its last poll to its end.                                    *)
(***************************************************************************)
EXTENDS Naturals, Sequences, FiniteSets

CONSTANTS
    Nodes,
    AGENT_THREAD_COUNT,
    MaxGroups,          \* bound on the groups of a request, for Fairness
    Requests            \* agent_arg_t: msg_type, retry and one set of nodes
                        \* per thread (what _make_agent_info builds)

\* One message type per combination of branches the code tells apart.
MsgType == {"REQUEST_PING", "REQUEST_TERMINATE_JOB", "REQUEST_SIGNAL_TASKS",
            "REQUEST_BATCH_JOB_LAUNCH", "REQUEST_RECONFIGURE", "SRUN_PING",
            "SRUN_TIMEOUT", "RESPONSE_RESOURCE_ALLOCATION"}

srun_agent(type) ==
    type \in {"SRUN_PING", "SRUN_TIMEOUT", "RESPONSE_RESOURCE_ALLOCATION"}

get_reply(type) == type \notin {"REQUEST_RECONFIGURE", "SRUN_TIMEOUT"}

is_kill_msg(type) == type = "REQUEST_TERMINATE_JOB"

is_ping_msg(type) == type = "REQUEST_PING"

Request == [msg_type : MsgType, retry : {0, 1}, nodelist : Seq((SUBSET Nodes) \ {{}})]

ASSUME CountAssumption == AGENT_THREAD_COUNT \in Nat \ {0}

ASSUME NodesAssumption == IsFiniteSet(Nodes)

\* _make_agent_info deals the names of a host list out: a node is in one group.
ASSUME RequestsAssumption ==
    \A r \in Requests :
        /\ r \in Request /\ Len(r.nodelist) > 0
        /\ \A g, h \in DOMAIN r.nodelist :
              g # h => r.nodelist[g] \cap r.nodelist[h] = {}

DSH == {"DSH_NEW", "DSH_ACTIVE", "DSH_DONE", "DSH_NO_RESP", "DSH_FAILED",
        "DSH_DUP_JOBID"}

\* Return code and type of one node's answer, as far as the code looks.
Reply == {"SUCCESS", "KILL_JOB_ALREADY_COMPLETE", "UNKNOWN_FORWARD_ADDR",
          "EPILOG_FAILED", "PROLOG_FAILED", "DUPLICATE_JOB_ID",
          "INVALID_JOB_ID", "ESRCH", "FORWARD_FAILED", "OTHER"}

VARIABLES
    req,             \* agent_arg_ptr
    pc,              \* the agent thread
    created,         \* loop index i: threads created so far
    waiting,         \* the agent is in pthread_cond_wait on thread_cond
    threads_active,
    state,           \* thread_ptr[i].state
    ret_list,        \* thread_ptr[i].ret_list: err of each node; << >> if NULL
    rpc,             \* the thread of each group
    result,          \* its thread_state and ret_list before it reports them
    signalled,       \* groups whose thread was sent SIGUSR1
    wdog,            \* the watchdog thread
    msg_args,        \* who owns the message: "agent", "queue" or "freed"
    retry,           \* the request handed to the retry queue, if any
    noted,           \* what the node table was told about each node
    job,             \* what the job table was told about the job
    sched,           \* run_scheduler, and whether schedule() was called
    pings            \* calls of ping_end

vars == <<req, pc, created, waiting, threads_active, state, ret_list, rpc,
          result, signalled, wdog, msg_args, retry, noted, job, sched,
          pings>>

Group == 1..Len(req.nodelist)

MutexFree == wdog \in {"poll", "gone"}

Alive(g) == rpc[g] \in {"start", "send", "report"}

NoRetry == [node_count |-> 0, hosts |-> {}]

NoResult == [state |-> "DSH_NO_RESP", list |-> << >>]

Init ==
    /\ req \in Requests
    /\ pc = "create" /\ created = 0 /\ waiting = "no"
    /\ threads_active = 0
    /\ state = [g \in Group |-> "DSH_NEW"]
    /\ ret_list = [g \in Group |-> << >>]
    /\ rpc = [g \in Group |-> "none"]
    /\ result = [g \in Group |-> NoResult]
    /\ signalled = {}
    /\ wdog = "poll"
    /\ msg_args = "agent"
    /\ retry = NoRetry
    /\ noted = [n \in Nodes |-> "nothing"]
    /\ job = "untouched"
    /\ sched = "idle"
    /\ pings = 0
-----------------------------------------------------------------------------
(* The agent thread.                                                         *)

tables == <<retry, noted, job, sched, pings>>

\* Room for another thread: create it.
agent_create ==
    /\ pc = "create" /\ waiting = "no" /\ MutexFree
    /\ created < Len(req.nodelist)
    /\ threads_active < AGENT_THREAD_COUNT
    /\ created' = created + 1
    /\ rpc' = [rpc EXCEPT ![created + 1] = "start"]
    /\ threads_active' = threads_active + 1
    /\ UNCHANGED <<req, pc, waiting, state, ret_list, result, signalled, wdog,
                   msg_args, tables>>

\* Wait for a thread to end, for want of room or because pthread_create
\* failed.  If it failed with no thread active the code sleeps and retries.
agent_wait ==
    /\ pc = "create" /\ waiting = "no" /\ MutexFree
    /\ created < Len(req.nodelist)
    /\ threads_active > 0
    /\ waiting' = "yes"
    /\ UNCHANGED <<req, pc, created, threads_active, state, ret_list, rpc,
                   result, signalled, wdog, msg_args, tables>>

\* pthread_join(thread_wdog), after the last thread is created.
agent_join ==
    /\ pc = "create" /\ created = Len(req.nodelist)
    /\ wdog = "gone"
    /\ pc' = "drain"
    /\ UNCHANGED <<req, created, waiting, threads_active, state, ret_list, rpc,
                   result, signalled, wdog, msg_args, tables>>

\* Wait for threads_active to reach zero, then _purge_agent_args and free the
\* thread table.
agent_cleanup ==
    /\ pc = "drain" /\ threads_active = 0
    /\ pc' = "done"
    /\ msg_args' = IF msg_args = "agent" THEN "freed" ELSE msg_args
    /\ UNCHANGED <<req, created, waiting, threads_active, state, ret_list, rpc,
                   result, signalled, wdog, tables>>
-----------------------------------------------------------------------------
(* _thread_per_group_rpc, one thread per group.                              *)

rpc_start(g) ==
    /\ rpc[g] = "start" /\ MutexFree
    /\ rpc' = [rpc EXCEPT ![g] = "send"]
    /\ state' = [state EXCEPT ![g] = "DSH_ACTIVE"]
    /\ UNCHANGED <<req, pc, created, waiting, threads_active, ret_list, result,
                   signalled, wdog, msg_args, tables>>

\* A batch launch that the node refused for good: the job is killed.
Refused(type, r) ==
    /\ type = "REQUEST_BATCH_JOB_LAUNCH"
    /\ r \in {"KILL_JOB_ALREADY_COMPLETE", "UNKNOWN_FORWARD_ADDR", "EPILOG_FAILED",
              "INVALID_JOB_ID", "ESRCH", "OTHER"}

\* srun is gone before it learnt of its allocation: the job is killed.
Stray(type, r) == type = "RESPONSE_RESOURCE_ALLOCATION" /\ r = "FORWARD_FAILED"

\* thread_state after one answer.  The OTHER case asks the node table whether
\* the node is known not to respond, which other threads change all the time.
Outcome(type, r) ==
    CASE Refused(type, r) -> {"DSH_DONE"}
      [] Stray(type, r) -> {"errno"}
      [] r \in {"SUCCESS", "INVALID_JOB_ID"} -> {"DSH_DONE"}
      [] r = "KILL_JOB_ALREADY_COMPLETE" /\ is_kill_msg(type) -> {"DSH_DONE"}
      [] r = "ESRCH" /\ type = "REQUEST_SIGNAL_TASKS" -> {"DSH_DONE"}
      [] r = "UNKNOWN_FORWARD_ADDR" -> {"DSH_NO_RESP"}
      [] r \in {"EPILOG_FAILED", "PROLOG_FAILED"} -> {"DSH_FAILED"}
      [] r = "DUPLICATE_JOB_ID" -> {"DSH_DUP_JOBID"}
      [] OTHER -> IF srun_agent(type) THEN {"DSH_FAILED"}
                  ELSE IF r = "FORWARD_FAILED" THEN {"DSH_NO_RESP"}
                  ELSE {"DSH_NO_RESP", "DSH_DONE"}

\* The answers of a group's nodes and what they do to the job table.
rpc_replies(g) ==
    \E reply \in [req.nodelist[g] -> Reply] :
    \E err \in [req.nodelist[g] -> DSH \cup {"errno"}] :
        /\ \A n \in req.nodelist[g] : err[n] \in Outcome(req.msg_type, reply[n])
        /\ \E last \in req.nodelist[g] :
               result' = [result EXCEPT ![g] =
                   [state |-> IF err[last] = "errno" THEN "DSH_FAILED" ELSE err[last],
                    list |-> err]]
        /\ job' = IF \E n \in DOMAIN reply :
                        Refused(req.msg_type, reply[n]) \/ Stray(req.msg_type, reply[n])
                    THEN "killed" ELSE job
        /\ sched' = IF /\ is_kill_msg(req.msg_type)
                       /\ \E n \in DOMAIN reply : reply[n] = "KILL_JOB_ALREADY_COMPLETE"
                      THEN "wanted" ELSE sched

\* Send, and receive what there is to receive.  Without a reply list, or if
\* the message could not be sent, the group counts as not responding.
rpc_send(g) ==
    /\ rpc[g] = "send"
    /\ rpc' = [rpc EXCEPT ![g] = "report"]
    /\ \/ get_reply(req.msg_type) /\ rpc_replies(g)
       \/ ~get_reply(req.msg_type)
          /\ result' = [result EXCEPT ![g] = [state |-> "DSH_DONE", list |-> << >>]]
          /\ UNCHANGED <<job, sched>>
       \/ UNCHANGED <<result, job, sched>>
    /\ UNCHANGED <<req, pc, created, waiting, threads_active, state, ret_list,
                   signalled, wdog, msg_args, retry, noted, pings>>

\* Altered form of rpc_report: end without signalling thread_cond.
ReportSilently(g) ==
    /\ rpc[g] = "report" /\ MutexFree
    /\ rpc' = [rpc EXCEPT ![g] = "gone"]
    /\ state' = [state EXCEPT ![g] = result[g].state]
    /\ ret_list' = [ret_list EXCEPT ![g] = result[g].list]
    /\ threads_active' = threads_active - 1
    /\ UNCHANGED <<req, pc, created, waiting, result, signalled, wdog, msg_args,
                   tables>>

\* cleanup: report, make room, signal the agent.
rpc_report(g) ==
    /\ rpc[g] = "report" /\ MutexFree
    /\ rpc' = [rpc EXCEPT ![g] = "gone"]
    /\ state' = [state EXCEPT ![g] = result[g].state]
    /\ ret_list' = [ret_list EXCEPT ![g] = result[g].list]
    /\ threads_active' = threads_active - 1
    /\ waiting' = "no"
    /\ UNCHANGED <<req, pc, created, result, signalled, wdog, msg_args, tables>>
-----------------------------------------------------------------------------
(* _wdog.                                                                    *)

\* What the watchdog finds for the nodes of group g: the err of every node
\* if there is a ret_list, else the state of the group.
Items(g) == IF ret_list[g] = << >> THEN {req.nodelist[g]}
            ELSE {{n} : n \in DOMAIN ret_list[g]}

\* Altered form of Found: the state of the group stands for all its nodes.
GroupState(g, item) == state[g]

Found(g, item) == IF ret_list[g] = << >> THEN state[g]
                  ELSE ret_list[g][CHOOSE n \in item : TRUE]

\* Altered form of work_done: a thread that has not started yet is overlooked.
NothingActive ==
    \A g \in Group : \A item \in Items(g) : Found(g, item) # "DSH_ACTIVE"

work_done ==
    \A g \in Group : \A item \in Items(g) :
        Found(g, item) \notin {"DSH_NEW", "DSH_ACTIVE"}

NoResp == UNION {{item \in Items(g) : Found(g, item) = "DSH_NO_RESP"} : g \in Group}

\* A poll that finds work in progress: interrupt the threads in late, whose
\* end_time has passed.  pthread_kill fails with ESRCH for a thread that ended.
wdog_poll(late) ==
    /\ wdog = "poll" /\ ~work_done
    /\ late \subseteq {g \in Group : ret_list[g] = << >> /\ state[g] = "DSH_ACTIVE"}
    /\ signalled' = signalled \cup {g \in late : Alive(g)}
    /\ state' = [g \in Group |-> IF g \in late /\ ~Alive(g)
                                   THEN "DSH_NO_RESP" ELSE state[g]]
    /\ UNCHANGED <<req, pc, created, waiting, threads_active, ret_list, rpc,
                   result, wdog, msg_args, tables>>

wdog_done ==
    /\ wdog = "poll" /\ work_done
    /\ wdog' = IF srun_agent(req.msg_type) THEN "jobs" ELSE "requeue"
    /\ UNCHANGED <<req, pc, created, waiting, threads_active, state, ret_list,
                   rpc, result, signalled, msg_args, tables>>

threads == <<req, pc, created, waiting, threads_active, state, rpc, result,
             signalled>>

\* _notify_slurmctld_jobs, then the lists are freed.
_notify_slurmctld_jobs ==
    /\ wdog = "jobs" /\ wdog' = "gone"
    /\ job' = IF state[1] = "DSH_DONE" THEN "answered" ELSE job
    /\ ret_list' = [g \in Group |-> << >>]
    /\ UNCHANGED <<threads, msg_args, retry, noted, sched, pings>>

\* _notify_slurmctld_nodes up to the release of the job and node locks.
notify_no_resp ==
    /\ wdog = "requeue" /\ wdog' = "retry"
    /\ job' = IF NoResp # {} /\ req.msg_type = "REQUEST_BATCH_JOB_LAUNCH"
                THEN "requeued" ELSE job
    /\ UNCHANGED <<threads, ret_list, msg_args, retry, noted, sched, pings>>

\* Mutant of _queue_agent_retry: every node with a record is asked again.
RetryAll(unusable) ==
    LET hosts == UNION {Items(g) : g \in Group} \ unusable
    IN  /\ wdog = "retry" /\ wdog' = "nodes"
        /\ unusable \subseteq {item \in NoResp : \E n \in Nodes : item = {n}}
        /\ IF NoResp = {} \/ req.retry = 0
             THEN UNCHANGED <<retry, msg_args>>
             ELSE /\ retry' = [node_count |-> Cardinality(hosts), hosts |-> hosts]
                  /\ msg_args' = "queue"
        /\ UNCHANGED <<threads, ret_list, noted, job, sched, pings>>

\* _queue_agent_retry.  The loop reads the state of one node after the other
\* without a lock: unusable is the set it finds DOWN or in POWER_SAVE.  The
\* name of a whole group is no node name and is never found there.
_queue_agent_retry(unusable) ==
    LET found == Cardinality(NoResp)
        hosts == NoResp \ unusable
        count == found - Cardinality(unusable)
        j     == Cardinality(hosts)
    IN  /\ wdog = "retry" /\ wdog' = "nodes"
        /\ unusable \subseteq {item \in NoResp : \E n \in Nodes : item = {n}}
        /\ IF NoResp = {} \/ req.retry = 0 \/ count = 0
             THEN UNCHANGED <<retry, msg_args>>
             ELSE /\ retry' = [node_count |-> IF count # j THEN j ELSE found,
                                hosts |-> hosts]
                  /\ msg_args' = "queue"
        /\ UNCHANGED <<threads, ret_list, noted, job, sched, pings>>

Verdict(found) ==
    CASE found = "DSH_NO_RESP" -> "not_resp"
      [] found \in {"DSH_FAILED", "DSH_DUP_JOBID"} -> "drained"
      [] found = "DSH_DONE" -> "did_resp"
      [] OTHER -> "unknown state"

\* The rest of _notify_slurmctld_nodes up to the second release of the locks.
\* A name that stands for several nodes is not found in the node table.
notify_nodes ==
    /\ wdog = "nodes" /\ wdog' = "finish"
    /\ noted' = [n \in Nodes |->
          IF \E g \in Group : {n} \in Items(g)
            THEN Verdict(Found(CHOOSE g \in Group : {n} \in Items(g), {n}))
            ELSE noted[n]]
    /\ UNCHANGED <<threads, ret_list, msg_args, retry, job, sched, pings>>

\* schedule() if an epilog freed nodes, ping_end, and the lists are freed.
wdog_finish ==
    /\ wdog = "finish" /\ wdog' = "gone"
    /\ sched' = IF sched = "wanted" THEN "called" ELSE sched
    /\ pings' = IF is_ping_msg(req.msg_type) THEN pings + 1 ELSE pings
    /\ ret_list' = [g \in Group |-> << >>]
    /\ UNCHANGED <<threads, msg_args, retry, noted, job>>
-----------------------------------------------------------------------------
Done == pc = "done" /\ UNCHANGED vars

Next ==
    \/ agent_create \/ agent_wait \/ agent_join \/ agent_cleanup
    \/ \E g \in Group : rpc_start(g) \/ rpc_send(g) \/ rpc_report(g)
    \/ \E late \in SUBSET Group : wdog_poll(late)
    \/ wdog_done \/ _notify_slurmctld_jobs \/ notify_no_resp
    \/ \E unusable \in SUBSET NoResp : _queue_agent_retry(unusable)
    \/ notify_nodes \/ wdog_finish
    \/ Done

Spec == Init /\ [][Next]_vars

\* Threads run; the address of a hung peer answers nothing, so a send is sure
\* to end only after SIGUSR1; and the end_time of an active thread passes.
Fairness ==
    /\ WF_vars(agent_create) /\ WF_vars(agent_join) /\ WF_vars(agent_cleanup)
    /\ \A g \in 1..MaxGroups :
          /\ WF_vars(g \in Group /\ rpc_start(g))
          /\ WF_vars(g \in Group /\ g \in signalled /\ rpc_send(g))
          /\ WF_vars(g \in Group /\ rpc_report(g))
          /\ WF_vars(g \notin signalled /\ \E late \in SUBSET Group :
                                               g \in late /\ wdog_poll(late))
    /\ WF_vars(wdog_done) /\ WF_vars(_notify_slurmctld_jobs)
    /\ WF_vars(notify_no_resp) /\ WF_vars(notify_nodes) /\ WF_vars(wdog_finish)
    /\ WF_vars(\E unusable \in SUBSET NoResp : _queue_agent_retry(unusable))

LiveSpec == Spec /\ Fairness
-----------------------------------------------------------------------------
\* Every variable stays in its type.
TypeOK ==
    /\ req \in Requests
    /\ pc \in {"create", "drain", "done"}
    /\ created \in 0..Len(req.nodelist)
    /\ waiting \in {"yes", "no"}
    /\ threads_active \in Nat
    /\ state \in [Group -> DSH]
    /\ rpc \in [Group -> {"none", "start", "send", "report", "gone"}]
    /\ signalled \subseteq Group
    /\ wdog \in {"poll", "jobs", "requeue", "retry", "nodes", "finish", "gone"}
    /\ msg_args \in {"agent", "queue", "freed"}
    /\ noted \in [Nodes -> {"nothing", "not_resp", "drained", "did_resp"}]
    /\ job \in {"untouched", "answered", "killed", "requeued"}
    /\ sched \in {"idle", "wanted", "called"}
    /\ pings \in 0..1

\* agent(): threads_active counts exactly the RPC threads that have been
\* created and have not reported, and never exceeds AGENT_THREAD_COUNT.
ActiveExact ==
    /\ threads_active = Cardinality({g \in Group : Alive(g)})
    /\ threads_active <= AGENT_THREAD_COUNT

\* agent(), cleanup: when the agent frees the thread table no RPC thread and no
\* watchdog that points into it is left.
FreedQuiet ==
    pc = "done" => wdog = "gone" /\ \A g \in Group : rpc[g] = "gone"

\* agent(): the agent never sleeps on thread_cond with no thread left to
\* signal it.
AgentWakes == waiting = "yes" => threads_active > 0

\* _update_wdog_state: a thread found DSH_ACTIVE is alive, so pthread_kill is
\* never called for a detached thread that has ended.
SignalsLive ==
    \A g \in Group : state[g] = "DSH_ACTIVE" => Alive(g)

\* _wdog: results are handed to the job and node tables only after every
\* group's thread has been created and has reported.
NotifiesAll ==
    wdog # "poll" => created = Len(req.nodelist)
                     /\ \A g \in Group : rpc[g] = "gone"

\* _make_task_data hands each thread the message pointer: nobody has given the
\* message to the retry queue or freed it while a thread may still send it.
MsgLive ==
    (\E g \in Group : rpc[g] \in {"none", "start", "send"}) => msg_args = "agent"

\* _notify_slurmctld_nodes: when the agent ends, every node that has a result
\* of its own was reported with that result, a ping round was ended exactly
\* once, scheduling wanted by a finished epilog was done, and the message is
\* either in the retry queue or freed.
Reported ==
    pc = "done" =>
        /\ ~srun_agent(req.msg_type) =>
              \A g \in Group : \A n \in DOMAIN result[g].list :
                  noted[n] = Verdict(result[g].list[n])
        /\ pings = IF is_ping_msg(req.msg_type) THEN 1 ELSE 0
        /\ sched # "wanted"
        /\ msg_args = IF retry = NoRetry THEN "freed" ELSE "queue"

\* _queue_agent_retry, "Queue any failed RPCs for later replay": the queued
\* request passes _valid_agent_arg, which discards a request whose node_count
\* is not the number of hosts listed.  It does not hold: node_count is set
\* before the nodes found DOWN are left out, and is corrected only if count
\* and j differ, which they never do.
RetryValid == retry.node_count = Cardinality(retry.hosts)

\* _queue_agent_retry: whatever the order of answers, silence and nodes going
\* DOWN, no node that was told it answered is sent the message again, and
\* _valid_agent_arg accepts the queued request unless a silent node that was
\* found DOWN is left out of it.
RetryExact ==
    pc = "done" /\ retry # NoRetry =>
        /\ \A n \in Nodes : {n} \in retry.hosts => noted[n] = "not_resp"
        /\ \/ RetryValid
           \/ \E n \in Nodes : noted[n] = "not_resp" /\ {n} \notin retry.hosts

\* agent(): every agent ends, however long its peers hang.
Terminates == <>(pc = "done")
=============================================================================
