----------------------------- MODULE PeerProofs -----------------------------
(***************************************************************************)
(* Proofs about slurmctld and those it calls: an agent that asks the nodes *)
(* (module AgentRpc), for any set of requests, any number of groups and any *)
(* bound on the active threads, and the primary and the backup, which ask  *)
(* each other (module Backup), for any jobs and any bounds.                *)
(***************************************************************************)
EXTENDS AgentRpc, Backup, FiniteSetTheorems, TLAPS

\* Zenon proves most leaves; a leaf that needs arithmetic names SMT.
USE Zenon

(* An agent                                                                  *)

\* States a thread may report.
Final == {"DSH_DONE", "DSH_NO_RESP", "DSH_FAILED", "DSH_DUP_JOBID"}

\* What a thread or the thread table may hold as a list of answers.
GoodList(list) ==
    \A n \in DOMAIN list :
        list[n] \in Final \/ (list[n] = "errno" /\ srun_agent(req.msg_type))

\* The thread table follows the threads.
Table ==
    /\ result = [g \in Group |-> result[g]]
    /\ ret_list = [g \in Group |-> ret_list[g]]
    /\ \A g \in Group :
        /\ result[g].state \in Final
        /\ GoodList(result[g].list)
        /\ GoodList(ret_list[g])
        /\ rpc[g] \in {"none", "start"} => state[g] = "DSH_NEW"
        /\ rpc[g] \in {"send", "report"} => state[g] = "DSH_ACTIVE"
        /\ rpc[g] = "gone" => state[g] \in Final
        /\ rpc[g] # "gone" => ret_list[g] = << >>
        /\ rpc[g] = "none" <=> g > created

\* Where the agent and the watchdog are.
Progress ==
    /\ wdog # "poll" => \A g \in Group : rpc[g] = "gone"
    /\ pc # "create" => wdog = "gone"
    /\ waiting = "yes" => threads_active > 0
    /\ msg_args # "agent" => wdog \in {"nodes", "finish", "gone"}
    /\ wdog \in {"requeue", "retry", "nodes", "finish"} => ~srun_agent(req.msg_type)
    /\ wdog # "gone" => pings = 0

\* The inductive invariant of an agent.
AgentInv == TypeOK /\ Table /\ ActiveExact /\ Progress

\* The lists of answers: one answer per node of the group or none at all, and
\* in the thread table from the thread's report to the end of the watchdog.
Answers ==
    \A g \in Group :
        /\ result[g].list = << >> \/ DOMAIN result[g].list = req.nodelist[g]
        /\ rpc[g] = "gone" /\ wdog # "gone" => ret_list[g] = result[g].list

\* What the node table must have been told when the watchdog is through.
AllNoted ==
    \A g \in Group : \A n \in DOMAIN result[g].list :
        noted[n] = Verdict(result[g].list[n])

\* The queued request was made from the items without a response.
RetryMade ==
    /\ retry.hosts \subseteq NoResp
    /\ retry.node_count = Cardinality(NoResp)
    /\ \A item \in NoResp \ retry.hosts : \E n \in Nodes : item = {n}

RetryNoted ==
    /\ \A n \in Nodes : {n} \in retry.hosts => noted[n] = "not_resp"
    /\ \/ RetryValid
       \/ \E n \in Nodes : noted[n] = "not_resp" /\ {n} \notin retry.hosts

\* How far the watchdog is with its duties.
Duties ==
    /\ msg_args = IF retry # NoRetry THEN "queue"
                  ELSE IF pc = "done" THEN "freed" ELSE "agent"
    /\ sched = "wanted" => is_kill_msg(req.msg_type) /\ wdog # "gone"
    /\ wdog = "jobs" => srun_agent(req.msg_type)
    /\ wdog = "gone" => pings = IF is_ping_msg(req.msg_type) THEN 1 ELSE 0
    /\ wdog \in {"finish", "gone"} /\ ~srun_agent(req.msg_type) => AllNoted
    /\ retry # NoRetry => wdog \in {"nodes", "finish", "gone"}
    /\ retry # NoRetry /\ wdog = "nodes" => RetryMade
    /\ retry # NoRetry /\ wdog \in {"finish", "gone"} => RetryNoted

\* The inductive invariant of what an agent hands over.
HandoverInv == AgentInv /\ Answers /\ Duties

-----------------------------------------------------------------------------
LEMMA RequestShape ==
  ASSUME req \in Requests
  PROVE  /\ req.msg_type \in MsgType
         /\ Len(req.nodelist) \in Nat \ {0}
         /\ Group = 1..Len(req.nodelist)
         /\ \A g \in Group : req.nodelist[g] \in SUBSET Nodes
  <1>1. req \in Request /\ Len(req.nodelist) > 0
    BY RequestsAssumption
  <1>2. req.nodelist \in Seq((SUBSET Nodes) \ {{}})
    BY <1>1 DEF Request
  <1> QED
    BY SMT, <1>1, <1>2 DEF Request, Group

\* The groups of a request are not empty and have no node in common.
LEMMA GroupsApart ==
  ASSUME req \in Requests, NEW g \in Group
  PROVE  /\ req.nodelist[g] # {}
         /\ \A h \in Group : req.nodelist[g] \cap req.nodelist[h] # {} => g = h
  <1>1. /\ req.nodelist \in Seq((SUBSET Nodes) \ {{}})
        /\ \A i, h \in DOMAIN req.nodelist :
              i # h => req.nodelist[i] \cap req.nodelist[h] = {}
    BY RequestsAssumption DEF Request
  <1>2. DOMAIN req.nodelist = Group
    BY SMT, <1>1 DEF Group
  <1>3. req.nodelist[g] \in (SUBSET Nodes) \ {{}}
    BY SMT, <1>1 DEF Group
  <1> QED
    BY <1>1, <1>2, <1>3

LEMMA GroupFinite ==
  ASSUME req \in Requests
  PROVE  IsFiniteSet(Group)
  BY SMT, RequestShape, FS_Interval DEF Group

\* The counter of active threads moves with the set of live threads.
LEMMA CountOne ==
  ASSUME req \in Requests, NEW S \in SUBSET Group, NEW g \in Group
  PROVE  /\ Cardinality(S) \in Nat
         /\ g \notin S => Cardinality(S \cup {g}) = Cardinality(S) + 1
         /\ g \in S => /\ Cardinality(S \ {g}) = Cardinality(S) - 1
                       /\ Cardinality(S) > 0
  <1>1. IsFiniteSet(S)
    BY GroupFinite, FS_Subset
  <1>2. Cardinality(S) \in Nat
    BY <1>1, FS_CardinalityType
  <1>3. g \notin S => Cardinality(S \cup {g}) = Cardinality(S) + 1
    BY <1>1, FS_AddElement
  <1>4. g \in S => Cardinality(S \ {g}) = Cardinality(S) - 1
    BY <1>1, FS_RemoveElement
  <1>5. g \in S => Cardinality(S) > 0
    BY SMT, <1>1, <1>2, FS_EmptySet
  <1> QED
    BY <1>2, <1>3, <1>4, <1>5

\* While a thread has not reported the watchdog finds work in progress.
LEMMA WorkInProgress ==
  ASSUME TypeOK, Table, work_done
  PROVE  \A g \in Group : rpc[g] = "gone"
  <1> SUFFICES ASSUME NEW g \in Group, rpc[g] # "gone" PROVE FALSE
    OBVIOUS
  <1>1. ret_list[g] = << >> /\ state[g] \in {"DSH_NEW", "DSH_ACTIVE"}
    BY DEF Table, TypeOK
  <1>2. req.nodelist[g] \in Items(g)
    BY <1>1 DEF Items
  <1>3. Found(g, req.nodelist[g]) \in {"DSH_NEW", "DSH_ACTIVE"}
    BY <1>1 DEF Found
  <1> QED
    BY <1>2, <1>3 DEF work_done

LEMMA InitAgentInv == Init => AgentInv
  <1> SUFFICES ASSUME Init PROVE AgentInv
    OBVIOUS
  <1>0. req \in Requests /\ Len(req.nodelist) \in Nat \ {0} /\ Group = 1..Len(req.nodelist)
    BY RequestShape DEF Init
  <1>1. TypeOK
    BY SMT, <1>0 DEF Init, TypeOK, DSH
  <1>2. Table
    BY SMT, <1>0 DEF Init, Table, NoResult, Final, GoodList
  <1>3. ActiveExact
    <2>1. {g \in Group : Alive(g)} = {}
      BY DEF Init, Alive
    <2> QED
      BY SMT, <2>1, FS_EmptySet, CountAssumption DEF Init, ActiveExact
  <1>4. Progress
    BY DEF Init, Progress
  <1> QED
    BY <1>1, <1>2, <1>3, <1>4 DEF AgentInv

-----------------------------------------------------------------------------
(* One lemma per action.                                                     *)

\* thread_state is final, and errno is left only for an answer to srun.
LEMMA OutcomeShape ==
  ASSUME NEW type \in MsgType, NEW r \in Reply, NEW e \in Outcome(type, r)
  PROVE  e \in Final \/ (e = "errno" /\ srun_agent(type))
  BY DEF Outcome, Final, Stray, srun_agent, MsgType, Reply

LEMMA CreateInv == AgentInv /\ agent_create => AgentInv'
  <1> SUFFICES ASSUME AgentInv, agent_create PROVE AgentInv'
    OBVIOUS
  <1> DEFINE g == created + 1
  <1>0. /\ req' = req /\ Group' = Group /\ req \in Requests
        /\ Group = 1..Len(req.nodelist) /\ Len(req.nodelist) \in Nat
        /\ created \in 0..Len(req.nodelist) /\ created < Len(req.nodelist)
    BY RequestShape DEF AgentInv, TypeOK, agent_create, Group
  <1>1. g \in Group /\ rpc[g] = "none"
    <2>1. g \in Group /\ g > created
      BY SMT, <1>0
    <2> QED
      BY <2>1 DEF AgentInv, Table
  <1>2. wdog = "poll"
    BY <1>1 DEF AgentInv, Progress
  <1>3. TypeOK'
    BY SMT, <1>0, <1>1 DEF AgentInv, TypeOK, agent_create, tables
  <1>4. Table'
    <2>1. \A h \in Group : rpc'[h] = IF h = g THEN "start" ELSE rpc[h]
      BY <1>0, <1>1 DEF AgentInv, TypeOK, agent_create
    <2>2. \A h \in Group : rpc'[h] = "none" <=> h > created'
      <3> SUFFICES ASSUME NEW h \in Group
                   PROVE  rpc'[h] = "none" <=> h > created'
        OBVIOUS
      <3>0. h \in Nat /\ created \in Nat /\ created' = created + 1
        BY SMT, <1>0 DEF agent_create
      <3>1. rpc[h] = "none" <=> h > created
        BY DEF AgentInv, Table
      <3>2. CASE h = g
        BY SMT, <2>1, <3>0, <3>1, <3>2
      <3>3. CASE h # g
        BY SMT, <2>1, <3>0, <3>1, <3>3
      <3> QED
        BY <3>2, <3>3
    <2>3. /\ state' = state /\ result' = result /\ ret_list' = ret_list
      BY DEF agent_create
    <2>4. \A h \in Group :
             /\ result[h].state \in Final
             /\ GoodList(result[h].list)' /\ GoodList(ret_list[h])'
      <3>1. /\ \A h \in Group : GoodList(result[h].list)' <=> GoodList(result[h].list)
            /\ \A h \in Group : GoodList(ret_list[h])' <=> GoodList(ret_list[h])
        BY <1>0, <2>3 DEF GoodList
      <3> QED
        BY <3>1 DEF AgentInv, Table
    <2>5. \A h \in Group :
             /\ rpc'[h] \in {"none", "start"} => state[h] = "DSH_NEW"
             /\ rpc'[h] \in {"send", "report"} => state[h] = "DSH_ACTIVE"
             /\ rpc'[h] = "gone" => state[h] \in Final
             /\ rpc'[h] # "gone" => ret_list[h] = << >>
      BY <1>1, <2>1 DEF AgentInv, Table
    <2>6. result = [h \in Group |-> result[h]] /\ ret_list = [h \in Group |-> ret_list[h]]
      BY DEF AgentInv, Table
    <2> QED
      BY <1>0, <2>2, <2>3, <2>4, <2>5, <2>6 DEF Table
  <1>5. ActiveExact'
    <2>1. {h \in Group : Alive(h)}' = {h \in Group : Alive(h)} \cup {g}
      BY <1>0, <1>1 DEF AgentInv, TypeOK, agent_create, Alive
    <2>2. g \notin {h \in Group : Alive(h)}
      BY <1>1 DEF Alive
    <2>3. Cardinality({h \in Group : Alive(h)} \cup {g})
             = Cardinality({h \in Group : Alive(h)}) + 1
      BY <1>0, <1>1, <2>2, CountOne
    <2>4. /\ threads_active = Cardinality({h \in Group : Alive(h)})
          /\ threads_active \in Nat /\ threads_active < AGENT_THREAD_COUNT
          /\ threads_active' = threads_active + 1
      BY DEF AgentInv, TypeOK, ActiveExact, agent_create
    <2> QED
      BY SMT, <2>1, <2>3, <2>4, CountAssumption DEF ActiveExact
  <1>6. Progress'
    BY <1>0, <1>2 DEF AgentInv, TypeOK, Progress, agent_create, tables
  <1> QED
    BY <1>3, <1>4, <1>5, <1>6 DEF AgentInv

LEMMA AgentStepsInv ==
  AgentInv /\ (agent_wait \/ agent_join \/ agent_cleanup) => AgentInv'
  <1> SUFFICES ASSUME AgentInv, agent_wait \/ agent_join \/ agent_cleanup
               PROVE  AgentInv'
    OBVIOUS
  <1>0. /\ req' = req /\ Group' = Group /\ rpc' = rpc /\ state' = state
        /\ ret_list' = ret_list /\ result' = result /\ created' = created
        /\ threads_active' = threads_active
    BY DEF agent_wait, agent_join, agent_cleanup, Group
  <1>1. TypeOK'
    BY SMT, <1>0 DEF AgentInv, TypeOK, agent_wait, agent_join, agent_cleanup, tables
  <1>2. Table'
    BY SMT, <1>0 DEF AgentInv, Table, GoodList
  <1>3. ActiveExact'
    BY <1>0 DEF AgentInv, ActiveExact, Alive
  <1>4. Progress'
    BY <1>0 DEF AgentInv, TypeOK, Progress, agent_wait, agent_join,
                agent_cleanup, tables
  <1> QED
    BY <1>1, <1>2, <1>3, <1>4 DEF AgentInv

LEMMA StartInv ==
  ASSUME AgentInv, NEW g \in Group, rpc_start(g)
  PROVE  AgentInv'
  <1>0. /\ req' = req /\ Group' = Group /\ req \in Requests
        /\ created' = created /\ threads_active' = threads_active
    BY DEF AgentInv, TypeOK, rpc_start, Group
  <1>1. TypeOK'
    BY SMT, <1>0 DEF AgentInv, TypeOK, rpc_start, tables, DSH
  <1>2. Table'
    BY SMT, <1>0 DEF AgentInv, TypeOK, Table, rpc_start, GoodList
  <1>3. ActiveExact'
    <2>1. {h \in Group : Alive(h)}' = {h \in Group : Alive(h)}
      BY <1>0 DEF AgentInv, TypeOK, rpc_start, Alive
    <2> QED
      BY <1>0, <2>1 DEF AgentInv, ActiveExact
  <1>4. Progress'
    BY <1>0 DEF AgentInv, TypeOK, Progress, rpc_start, tables
  <1> QED
    BY <1>1, <1>2, <1>3, <1>4 DEF AgentInv

LEMMA SendInv ==
  ASSUME AgentInv, NEW g \in Group, rpc_send(g)
  PROVE  AgentInv'
  <1>0. /\ req' = req /\ Group' = Group /\ req \in Requests
        /\ created' = created /\ threads_active' = threads_active
    BY DEF AgentInv, TypeOK, rpc_send, Group
  <1>1. /\ job' \in {job, "killed"} /\ sched' \in {sched, "wanted"}
        /\ \/ result' = result
           \/ \E r : /\ result' = [result EXCEPT ![g] = r]
                     /\ r.state \in Final /\ GoodList(r.list)
    <2>1. CASE get_reply(req.msg_type) /\ rpc_replies(g)
      <3>1. PICK reply \in [req.nodelist[g] -> Reply],
                 err \in [req.nodelist[g] -> DSH \cup {"errno"}],
                 last \in req.nodelist[g] :
               /\ \A n \in req.nodelist[g] : err[n] \in Outcome(req.msg_type, reply[n])
               /\ result' = [result EXCEPT ![g] =
                    [state |-> IF err[last] = "errno" THEN "DSH_FAILED" ELSE err[last],
                     list |-> err]]
        BY <2>1 DEF rpc_replies
      <3>2. \A n \in req.nodelist[g] :
               err[n] \in Final \/ (err[n] = "errno" /\ srun_agent(req.msg_type))
        BY <1>0, <3>1, RequestShape, OutcomeShape
      <3> DEFINE r == [state |-> IF err[last] = "errno" THEN "DSH_FAILED" ELSE err[last],
                       list |-> err]
      <3>3. r.state \in Final /\ GoodList(r.list)
        BY <3>2 DEF Final, GoodList
      <3>4. job' \in {job, "killed"} /\ sched' \in {sched, "wanted"}
        BY <2>1 DEF rpc_replies
      <3> QED
        BY <3>1, <3>3, <3>4
    <2>2. CASE /\ result' = [result EXCEPT ![g] = [state |-> "DSH_DONE", list |-> << >>]]
               /\ UNCHANGED <<job, sched>>
      <3> DEFINE r == [state |-> "DSH_DONE", list |-> << >>]
      <3>1. r.state \in Final /\ GoodList(r.list)
        BY SMT DEF Final, GoodList
      <3> QED
        BY <2>2, <3>1
    <2>3. CASE UNCHANGED <<result, job, sched>>
      BY <2>3
    <2> QED
      BY <2>1, <2>2, <2>3 DEF rpc_send
  <1>2. TypeOK'
    BY SMTT(20), <1>0, <1>1 DEF AgentInv, TypeOK, rpc_send
  <1>3. Table'
    BY SMT, <1>0, <1>1 DEF AgentInv, TypeOK, Table, rpc_send, GoodList
  <1>4. ActiveExact'
    <2>1. {h \in Group : Alive(h)}' = {h \in Group : Alive(h)}
      BY <1>0 DEF AgentInv, TypeOK, rpc_send, Alive
    <2> QED
      BY <1>0, <2>1 DEF AgentInv, ActiveExact
  <1>5. Progress'
    BY <1>0 DEF AgentInv, TypeOK, Progress, rpc_send
  <1> QED
    BY <1>2, <1>3, <1>4, <1>5 DEF AgentInv

LEMMA ReportInv ==
  ASSUME AgentInv, NEW g \in Group, rpc_report(g)
  PROVE  AgentInv'
  <1>0. /\ req' = req /\ Group' = Group /\ req \in Requests /\ created' = created
    BY DEF AgentInv, TypeOK, rpc_report, Group
  <1>1. /\ threads_active \in Nat /\ threads_active > 0
        /\ {h \in Group : Alive(h)}' = {h \in Group : Alive(h)} \ {g}
        /\ Cardinality({h \in Group : Alive(h)} \ {g}) = threads_active - 1
    <2>1. g \in {h \in Group : Alive(h)}
      BY DEF rpc_report, Alive
    <2>2. {h \in Group : Alive(h)}' = {h \in Group : Alive(h)} \ {g}
      BY <1>0 DEF AgentInv, TypeOK, rpc_report, Alive
    <2> QED
      BY <1>0, <2>1, <2>2, CountOne DEF AgentInv, TypeOK, ActiveExact
  <1>2. TypeOK'
    BY SMTT(20), <1>0, <1>1 DEF AgentInv, TypeOK, Table, Final, DSH, rpc_report, tables
  <1>3. Table'
    BY SMTT(20), <1>0 DEF AgentInv, TypeOK, Table, rpc_report, GoodList
  <1>4. ActiveExact'
    BY SMTT(20), <1>0, <1>1, CountAssumption DEF AgentInv, ActiveExact, rpc_report
  <1>5. Progress'
    BY <1>0 DEF AgentInv, TypeOK, Progress, rpc_report, tables
  <1> QED
    BY <1>2, <1>3, <1>4, <1>5 DEF AgentInv

LEMMA PollInv ==
  ASSUME AgentInv, NEW late \in SUBSET Group, wdog_poll(late)
  PROVE  AgentInv'
  <1>0. /\ req' = req /\ Group' = Group /\ rpc' = rpc /\ ret_list' = ret_list
        /\ result' = result /\ created' = created
        /\ threads_active' = threads_active
    BY DEF wdog_poll, Group
  <1>1. state' = state
    <2>1. \A g \in late : Alive(g)
      BY DEF AgentInv, TypeOK, Table, Final, wdog_poll, Alive
    <2> QED
      BY <2>1 DEF AgentInv, TypeOK, wdog_poll
  <1>2. TypeOK'
    BY <1>0, <1>1 DEF AgentInv, TypeOK, wdog_poll, tables
  <1>3. Table'
    BY SMT, <1>0, <1>1 DEF AgentInv, Table, GoodList
  <1>4. ActiveExact'
    BY <1>0 DEF AgentInv, ActiveExact, Alive
  <1>5. Progress'
    BY <1>0 DEF AgentInv, Progress, wdog_poll, tables
  <1> QED
    BY <1>2, <1>3, <1>4, <1>5 DEF AgentInv

\* What the watchdog reports of a node is a final state.
LEMMA FoundFinal ==
  ASSUME AgentInv, wdog # "poll", NEW g \in Group, NEW item \in Items(g),
         ~srun_agent(req.msg_type)
  PROVE  Found(g, item) \in Final
  <1>1. rpc[g] = "gone" /\ state[g] \in Final /\ GoodList(ret_list[g])
    BY DEF AgentInv, Progress, Table
  <1>2. CASE ret_list[g] = << >>
    BY <1>1, <1>2 DEF Found
  <1>3. CASE ret_list[g] # << >>
    <2>1. PICK n \in DOMAIN ret_list[g] : item = {n}
      BY <1>3 DEF Items
    <2>2. (CHOOSE m \in item : TRUE) = n
      BY <2>1
    <2> QED
      BY <1>1, <1>3, <2>1, <2>2 DEF Found, GoodList
  <1> QED
    BY <1>2, <1>3

LEMMA WatchdogInv ==
  ASSUME AgentInv,
         \/ wdog_done \/ _notify_slurmctld_jobs \/ notify_no_resp
         \/ \E unusable \in SUBSET NoResp : _queue_agent_retry(unusable)
         \/ notify_nodes \/ wdog_finish
  PROVE  AgentInv'
  <1>0. /\ req' = req /\ Group' = Group /\ rpc' = rpc /\ state' = state
        /\ result' = result /\ created' = created /\ pc' = pc
        /\ waiting' = waiting /\ signalled' = signalled
        /\ threads_active' = threads_active
    BY DEF wdog_done, _notify_slurmctld_jobs, notify_no_resp, notify_nodes,
           _queue_agent_retry, wdog_finish, threads, Group
  <1>1. \A g \in Group : rpc[g] = "gone"
    <2>1. CASE wdog = "poll"
      BY <2>1, WorkInProgress
      DEF wdog_done, _notify_slurmctld_jobs, notify_no_resp, notify_nodes,
          _queue_agent_retry, wdog_finish, AgentInv
    <2> QED
      BY <2>1 DEF AgentInv, Progress
  <1>2. ret_list' = ret_list \/ ret_list' = [g \in Group |-> << >>]
    BY DEF wdog_done, _notify_slurmctld_jobs, notify_no_resp, notify_nodes,
           _queue_agent_retry, wdog_finish
  <1>3. Table'
    BY SMT, <1>0, <1>2 DEF AgentInv, Table, GoodList
  <1>4. ActiveExact'
    BY <1>0 DEF AgentInv, ActiveExact, Alive
  <1>5. noted' \in [Nodes -> {"nothing", "not_resp", "drained", "did_resp"}]
    <2>1. CASE notify_nodes
      <3>1. ~srun_agent(req.msg_type) /\ wdog # "poll"
        BY <2>1 DEF notify_nodes, AgentInv, Progress
      <3> SUFFICES ASSUME NEW n \in Nodes
                   PROVE  noted'[n] \in {"nothing", "not_resp", "drained", "did_resp"}
        BY <2>1 DEF notify_nodes
      <3>2. CASE \E g \in Group : {n} \in Items(g)
        <4> DEFINE h == CHOOSE g \in Group : {n} \in Items(g)
        <4>1. h \in Group /\ {n} \in Items(h)
          BY <3>2
        <4>2. Found(h, {n}) \in Final
          BY <3>1, <4>1, FoundFinal
        <4>3. noted'[n] = Verdict(Found(h, {n}))
          BY <2>1, <3>2 DEF notify_nodes
        <4> QED
          BY <4>2, <4>3 DEF Verdict, Final
      <3>3. CASE ~ \E g \in Group : {n} \in Items(g)
        BY <2>1, <3>3 DEF notify_nodes, AgentInv, TypeOK
      <3> QED
        BY <3>2, <3>3
    <2>2. CASE ~notify_nodes
      BY <2>2 DEF wdog_done, _notify_slurmctld_jobs, notify_no_resp, tables,
                  _queue_agent_retry, wdog_finish, AgentInv, TypeOK
    <2> QED
      BY <2>1, <2>2
  <1>6. /\ wdog' \in {"jobs", "requeue", "retry", "nodes", "finish", "gone"}
        /\ msg_args' \in {"agent", "queue", "freed"}
        /\ job' \in {"untouched", "answered", "killed", "requeued"}
        /\ sched' \in {"idle", "wanted", "called"}
        /\ pings' \in 0..1
    <2>1. CASE wdog_done \/ notify_nodes
      BY <2>1 DEF wdog_done, notify_nodes, tables, AgentInv, TypeOK
    <2>2. CASE _notify_slurmctld_jobs \/ notify_no_resp
      BY <2>2 DEF _notify_slurmctld_jobs, notify_no_resp, AgentInv, TypeOK
    <2>3. CASE \E unusable \in SUBSET NoResp : _queue_agent_retry(unusable)
      BY <2>3 DEF _queue_agent_retry, AgentInv, TypeOK
    <2>4. CASE wdog_finish
      BY SMT, <2>4 DEF wdog_finish, AgentInv, TypeOK, Progress
    <2> QED
      BY <2>1, <2>2, <2>3, <2>4
  <1>7. TypeOK'
    BY <1>0, <1>5, <1>6 DEF AgentInv, TypeOK
  <1>8. Progress'
    BY <1>0, <1>1 DEF wdog_done, _notify_slurmctld_jobs, notify_no_resp,
       notify_nodes, _queue_agent_retry, wdog_finish, tables, AgentInv, TypeOK,
       Progress
  <1> QED
    BY <1>3, <1>4, <1>7, <1>8 DEF AgentInv
\* Every step of an agent preserves the invariant, whatever the number of
\* groups, nodes and threads.
LEMMA NextAgentInv ==
  ASSUME AgentInv, [Next]_vars
  PROVE  AgentInv'
  <1>1. CASE agent_create
    BY <1>1, CreateInv
  <1>2. CASE agent_wait \/ agent_join \/ agent_cleanup
    BY <1>2, AgentStepsInv
  <1>3. CASE \E g \in Group : rpc_start(g)
    BY <1>3, StartInv
  <1>4. CASE \E g \in Group : rpc_send(g)
    BY <1>4, SendInv
  <1>5. CASE \E g \in Group : rpc_report(g)
    BY <1>5, ReportInv
  <1>6. CASE \E late \in SUBSET Group : wdog_poll(late)
    BY <1>6, PollInv
  <1>7. CASE \/ wdog_done \/ _notify_slurmctld_jobs \/ notify_no_resp
             \/ \E unusable \in SUBSET NoResp : _queue_agent_retry(unusable)
             \/ notify_nodes \/ wdog_finish
    BY <1>7, WatchdogInv
  <1>8. CASE UNCHANGED vars
    <2>1. TypeOK'
      BY SMT, <1>8 DEF vars, AgentInv, TypeOK, Group
    <2>2. Table'
      <3>1. /\ Group' = Group /\ req' = req /\ rpc' = rpc /\ state' = state
            /\ result' = result /\ ret_list' = ret_list /\ created' = created
        BY <1>8 DEF vars, Group
      <3> QED
        BY SMT, <3>1 DEF AgentInv, Table, GoodList
    <2>3. ActiveExact' /\ Progress'
      BY <1>8 DEF vars, AgentInv, ActiveExact, Progress, Group, Alive
    <2> QED
      BY <2>1, <2>2, <2>3 DEF AgentInv
  <1> QED
    BY <1>1, <1>2, <1>3, <1>4, <1>5, <1>6, <1>7, <1>8 DEF Next, Done

-----------------------------------------------------------------------------
(* What the agent hands over at its end.                                     *)

\* A name the watchdog looks up stands for nodes of its group.
LEMMA ItemInGroup ==
  ASSUME AgentInv, Answers, wdog \notin {"poll", "gone"}, NEW g \in Group,
         NEW item \in Items(g)
  PROVE  item \subseteq req.nodelist[g] /\ item # {}
  <1>1. /\ ret_list[g] = result[g].list
        /\ result[g].list = << >> \/ DOMAIN result[g].list = req.nodelist[g]
    BY DEF AgentInv, Progress, Answers
  <1>2. req.nodelist[g] # {}
    BY GroupsApart DEF AgentInv, TypeOK
  <1> QED
    BY <1>1, <1>2 DEF Items

\* The node table is told what was found of a node, whichever group it is in.
LEMMA NotedOwn ==
  ASSUME AgentInv, Answers, notify_nodes, NEW g \in Group, NEW n, {n} \in Items(g)
  PROVE  n \in Nodes /\ noted'[n] = Verdict(Found(g, {n}))
  <1>0. wdog = "nodes" /\ req \in Requests
    BY DEF notify_nodes, AgentInv, TypeOK
  <1>1. n \in req.nodelist[g]
    BY <1>0, ItemInGroup
  <1>2. n \in Nodes
    BY <1>0, <1>1, RequestShape
  <1> DEFINE h == CHOOSE k \in Group : {n} \in Items(k)
  <1>3. h \in Group /\ {n} \in Items(h)
    OBVIOUS
  <1>4. n \in req.nodelist[h]
    BY <1>0, <1>3, ItemInGroup
  <1>5. h = g
    BY <1>0, <1>1, <1>3, <1>4, GroupsApart
  <1>6. noted'[n] = Verdict(Found(h, {n}))
    BY <1>2, <1>3 DEF notify_nodes
  <1> QED
    BY <1>2, <1>5, <1>6

\* The items without a response can be counted.
LEMMA NoRespFinite ==
  ASSUME AgentInv, Answers, wdog \notin {"poll", "gone"}
  PROVE  IsFiniteSet(NoResp) /\ Cardinality(NoResp) \in Nat
  <1>1. IsFiniteSet(SUBSET Nodes)
    BY NodesAssumption, FS_SUBSET
  <1>2. NoResp \subseteq SUBSET Nodes
    BY SMT, ItemInGroup, RequestShape DEF NoResp, AgentInv, TypeOK
  <1> QED
    BY <1>1, <1>2, FS_Subset, FS_CardinalityType

LEMMA InitHandover == Init => HandoverInv
  <1> SUFFICES ASSUME Init PROVE HandoverInv
    OBVIOUS
  <1>1. Answers
    BY DEF Init, Answers, NoResult
  <1>2. Duties
    BY DEF Init, Duties
  <1> QED
    BY <1>1, <1>2, InitAgentInv DEF HandoverInv

LEMMA AnswersStep ==
  ASSUME HandoverInv, [Next]_vars
  PROVE  Answers'
  <1>0. /\ req' = req /\ Group' = Group
        /\ req \in Requests
    BY DEF HandoverInv, AgentInv, TypeOK, Next, vars, agent_create, agent_wait,
           agent_join, agent_cleanup, rpc_start, rpc_send, rpc_report, wdog_poll,
           wdog_done, _notify_slurmctld_jobs, notify_no_resp, _queue_agent_retry,
           notify_nodes, wdog_finish, Done, threads, Group
  <1>1. CASE agent_create \/ \E g \in Group : rpc_start(g)
    BY SMT, <1>0, <1>1 DEF HandoverInv, AgentInv, TypeOK, Answers, agent_create, rpc_start
  <1>2. ASSUME NEW g \in Group, rpc_send(g)
        PROVE  Answers'
    <2>1. \A h \in Group : h # g => result'[h] = result[h]
      BY <1>2 DEF HandoverInv, AgentInv, Table, rpc_send, rpc_replies
    <2>2. result'[g].list = << >> \/ DOMAIN result'[g].list = req.nodelist[g]
      BY SMT, <1>2 DEF HandoverInv, AgentInv, Table, Answers, rpc_send, rpc_replies
    <2>3. \A h \in Group : rpc'[h] = "gone" => h # g /\ rpc[h] = "gone"
      BY <1>2 DEF HandoverInv, AgentInv, TypeOK, rpc_send
    <2> QED
      BY <1>0, <1>2, <2>1, <2>2, <2>3 DEF HandoverInv, Answers, rpc_send
  <1>3. ASSUME NEW g \in Group, rpc_report(g)
        PROVE  Answers'
    <2>1. \A h \in Group : /\ ret_list'[h] = IF h = g THEN result[g].list ELSE ret_list[h]
                           /\ h # g => rpc'[h] = rpc[h]
      BY <1>3 DEF HandoverInv, AgentInv, TypeOK, Table, rpc_report
    <2> QED
      BY SMT, <1>0, <1>3, <2>1 DEF HandoverInv, Answers, rpc_report
  <1>4. CASE \E late \in SUBSET Group : wdog_poll(late)
    BY <1>0, <1>4 DEF HandoverInv, Answers, wdog_poll
  <1>5. CASE agent_wait \/ agent_join \/ agent_cleanup
    BY <1>0, <1>5 DEF HandoverInv, Answers, agent_wait, agent_join, agent_cleanup
  <1>6. CASE _notify_slurmctld_jobs \/ wdog_finish
    BY <1>0, <1>6 DEF HandoverInv, Answers, _notify_slurmctld_jobs, wdog_finish, threads
  <1>7. CASE \/ wdog_done \/ notify_no_resp \/ notify_nodes
             \/ \E unusable \in SUBSET NoResp : _queue_agent_retry(unusable)
    <2>1. result' = result /\ ret_list' = ret_list /\ rpc' = rpc /\ wdog # "gone"
      BY <1>7 DEF wdog_done, notify_no_resp, notify_nodes, _queue_agent_retry, threads
    <2> QED
      BY <1>0, <2>1 DEF HandoverInv, Answers
  <1>8. CASE UNCHANGED vars
    BY <1>0, <1>8 DEF HandoverInv, Answers, vars
  <1> QED
    BY <1>1, <1>2, <1>3, <1>4, <1>5, <1>6, <1>7, <1>8 DEF Next, Done

\* Before the watchdog is through with the threads it has done none of its duties.
LEMMA ThreadsDuties ==
  ASSUME HandoverInv,
         \/ agent_create
         \/ \E g \in Group : rpc_start(g) \/ rpc_send(g) \/ rpc_report(g)
         \/ \E late \in SUBSET Group : wdog_poll(late)
  PROVE  Duties'
  <1>1. wdog = "poll"
    <2>1. CASE agent_create
      <3>1. created + 1 \in Group /\ rpc[created + 1] = "none"
        <4>1. /\ Group = 1..Len(req.nodelist) /\ Len(req.nodelist) \in Nat
              /\ created \in 0..Len(req.nodelist) /\ created < Len(req.nodelist)
          BY <2>1, RequestShape DEF agent_create, HandoverInv, AgentInv, TypeOK
        <4>2. created + 1 \in Group /\ created + 1 > created
          BY SMT, <4>1
        <4> QED
          BY <4>2 DEF HandoverInv, AgentInv, Table
      <3> QED
        BY <3>1 DEF HandoverInv, AgentInv, Progress
    <2>2. CASE \E g \in Group : rpc_start(g) \/ rpc_send(g) \/ rpc_report(g)
      BY <2>2 DEF HandoverInv, AgentInv, Progress, rpc_start, rpc_send, rpc_report
    <2>3. CASE \E late \in SUBSET Group : wdog_poll(late)
      BY <2>3 DEF wdog_poll
    <2> QED
      BY <2>1, <2>2, <2>3
  <1>2. /\ wdog' = wdog /\ msg_args' = msg_args /\ retry' = retry /\ pc' = pc
        /\ req' = req
    BY DEF agent_create, rpc_start, rpc_send, rpc_report, wdog_poll, tables
  <1>3. retry = NoRetry
    BY <1>1 DEF HandoverInv, Duties
  <1>4. sched' = "wanted" => is_kill_msg(req.msg_type)
    <2>1. CASE \E g \in Group : rpc_send(g)
      BY <2>1 DEF rpc_send, rpc_replies, HandoverInv, Duties
    <2>2. CASE ~ \E g \in Group : rpc_send(g)
      BY <2>2 DEF agent_create, rpc_start, rpc_report, wdog_poll, tables,
                  HandoverInv, Duties
    <2> QED
      BY <2>1, <2>2
  <1> QED
    BY <1>1, <1>2, <1>3, <1>4 DEF HandoverInv, Duties

LEMMA AgentDuties ==
  ASSUME HandoverInv,
         agent_wait \/ agent_join \/ agent_cleanup \/ UNCHANGED vars
  PROVE  Duties'
  <1>1. /\ req' = req /\ wdog' = wdog /\ retry' = retry /\ pings' = pings
        /\ sched' = sched /\ noted' = noted /\ result' = result /\ state' = state
        /\ ret_list' = ret_list /\ Group' = Group
    BY DEF agent_wait, agent_join, agent_cleanup, tables, vars, Group
  <1>2. AllNoted' <=> AllNoted
    BY <1>1 DEF AllNoted
  <1>3. (RetryMade' <=> RetryMade) /\ (RetryNoted' <=> RetryNoted)
    BY SMT, <1>1 DEF RetryMade, RetryNoted, RetryValid, NoResp, Items, Found
  <1>4. msg_args' = IF retry # NoRetry THEN "queue"
                    ELSE IF pc' = "done" THEN "freed" ELSE "agent"
    BY DEF HandoverInv, Duties, agent_wait, agent_join, agent_cleanup, vars
  <1> QED
    BY <1>1, <1>2, <1>3, <1>4 DEF HandoverInv, Duties

\* The request handed to the retry queue.
LEMMA RetryDuties ==
  ASSUME HandoverInv, NEW unusable \in SUBSET NoResp, _queue_agent_retry(unusable)
  PROVE  Duties'
  <1>0. /\ wdog = "retry" /\ wdog' = "nodes" /\ retry = NoRetry
        /\ req' = req /\ pc' = pc /\ pings' = pings /\ sched' = sched
        /\ state' = state /\ ret_list' = ret_list /\ Group' = Group
    BY DEF _queue_agent_retry, threads, Group, HandoverInv, Duties
  <1>1. NoResp' = NoResp
    BY SMT, <1>0 DEF NoResp, Items, Found
  <1>2. msg_args = "agent" /\ pc # "done"
    BY <1>0 DEF HandoverInv, AgentInv, Progress, Duties
  <1>3. CASE UNCHANGED <<retry, msg_args>>
    BY <1>0, <1>2, <1>3 DEF HandoverInv, Duties
  <1>4. CASE ~ UNCHANGED <<retry, msg_args>>
    <2> DEFINE found == Cardinality(NoResp)
               hosts == NoResp \ unusable
    <2>1. IsFiniteSet(NoResp) /\ found \in Nat
      BY <1>0, NoRespFinite DEF HandoverInv
    <2>2. /\ IsFiniteSet(unusable) /\ Cardinality(unusable) \in Nat
          /\ Cardinality(hosts) = found - Cardinality(unusable)
      <3>1. IsFiniteSet(unusable)
        BY <2>1, FS_Subset
      <3>2. Cardinality(NoResp \ unusable) = found - Cardinality(NoResp \cap unusable)
        BY <2>1, FS_Difference
      <3>3. NoResp \cap unusable = unusable
        OBVIOUS
      <3> QED
        BY <3>1, <3>2, <3>3, FS_CardinalityType
    <2>3. /\ msg_args' = "queue" /\ retry' = [node_count |-> found, hosts |-> hosts]
          /\ Cardinality(hosts) # 0
          /\ unusable \subseteq {item \in NoResp : \E n \in Nodes : item = {n}}
      BY <1>4, <2>1, <2>2 DEF _queue_agent_retry
    <2>4. hosts # {}
      BY <2>3, FS_EmptySet
    <2>5. retry' # NoRetry
      BY <2>3, <2>4 DEF NoRetry
    <2>6. RetryMade'
      BY <1>1, <2>3 DEF RetryMade
    <2> QED
      BY <1>0, <2>3, <2>5, <2>6 DEF HandoverInv, Duties
  <1> QED
    BY <1>3, <1>4

\* The reports to the node table.
LEMMA NodesDuties ==
  ASSUME HandoverInv, notify_nodes
  PROVE  Duties'
  <1>0. /\ wdog = "nodes" /\ wdog' = "finish" /\ retry' = retry /\ result' = result
        /\ req' = req /\ pc' = pc /\ pings' = pings /\ sched' = sched
        /\ Group' = Group /\ msg_args' = msg_args
    BY DEF notify_nodes, threads, Group
  <1>1. AllNoted'
    <2> SUFFICES ASSUME NEW g \in Group, NEW n \in DOMAIN result[g].list
                 PROVE  noted'[n] = Verdict(result[g].list[n])
      BY <1>0 DEF AllNoted
    <2>1. ret_list[g] = result[g].list
      BY <1>0 DEF HandoverInv, AgentInv, Progress, Answers
    <2>2. ret_list[g] # << >>
      BY SMT, <2>1
    <2>3. {n} \in Items(g)
      BY <2>1, <2>2 DEF Items
    <2>4. Found(g, {n}) = result[g].list[n]
      <3>1. (CHOOSE m \in {n} : TRUE) = n
        OBVIOUS
      <3> QED
        BY <2>1, <2>2, <3>1 DEF Found
    <2> QED
      BY <2>3, <2>4, NotedOwn DEF HandoverInv
  <1>2. retry # NoRetry => RetryNoted'
    <2> SUFFICES ASSUME retry # NoRetry PROVE RetryNoted'
      OBVIOUS
    <2>1. RetryMade
      BY <1>0 DEF HandoverInv, Duties
    <2>2. ASSUME NEW n, {n} \in NoResp
          PROVE  n \in Nodes /\ noted'[n] = "not_resp"
      <3>1. PICK g \in Group : {n} \in Items(g) /\ Found(g, {n}) = "DSH_NO_RESP"
        BY <2>2 DEF NoResp
      <3>2. n \in Nodes /\ noted'[n] = Verdict(Found(g, {n}))
        BY <3>1, NotedOwn DEF HandoverInv
      <3> QED
        BY <3>1, <3>2 DEF Verdict
    <2>3. CASE retry.hosts = NoResp
      BY <1>0, <2>1, <2>2, <2>3 DEF RetryMade, RetryNoted, RetryValid
    <2>4. CASE retry.hosts # NoResp
      <3>1. PICK n \in Nodes : {n} \in NoResp /\ {n} \notin retry.hosts
        <4>1. PICK item \in NoResp : item \notin retry.hosts
          BY <2>1, <2>4 DEF RetryMade
        <4>2. PICK n \in Nodes : item = {n}
          BY <2>1, <4>1 DEF RetryMade
        <4> QED
          BY <4>1, <4>2
      <3> QED
        BY <1>0, <2>1, <2>2, <3>1 DEF RetryMade, RetryNoted
    <2> QED
      BY <2>3, <2>4
  <1> QED
    BY <1>0, <1>1, <1>2 DEF HandoverInv, Duties

LEMMA FinishDuties ==
  ASSUME HandoverInv,
         wdog_done \/ _notify_slurmctld_jobs \/ notify_no_resp \/ wdog_finish
  PROVE  Duties'
  <1>0. /\ retry' = retry /\ result' = result /\ noted' = noted
        /\ req' = req /\ pc' = pc /\ Group' = Group /\ msg_args' = msg_args
    BY DEF wdog_done, _notify_slurmctld_jobs, notify_no_resp, wdog_finish, threads,
           tables, Group
  <1>1. (AllNoted' <=> AllNoted) /\ (RetryNoted' <=> RetryNoted)
    BY <1>0 DEF AllNoted, RetryNoted, RetryValid
  <1>2. CASE wdog_done
    BY <1>0, <1>2 DEF wdog_done, tables, HandoverInv, Duties
  <1>3. CASE _notify_slurmctld_jobs
    <2>1. /\ wdog = "jobs" /\ wdog' = "gone" /\ pings' = pings /\ sched' = sched
          /\ srun_agent(req.msg_type) /\ retry = NoRetry /\ pings = 0
      BY <1>3 DEF _notify_slurmctld_jobs, HandoverInv, AgentInv, Progress, Duties
    <2>2. ~is_kill_msg(req.msg_type) /\ ~is_ping_msg(req.msg_type)
      BY <2>1 DEF srun_agent, is_kill_msg, is_ping_msg
    <2> QED
      BY <1>0, <2>1, <2>2 DEF HandoverInv, Duties
  <1>4. CASE notify_no_resp
    BY <1>0, <1>4 DEF notify_no_resp, HandoverInv, Duties
  <1>5. CASE wdog_finish
    <2>1. /\ wdog = "finish" /\ wdog' = "gone" /\ pings = 0
          /\ pings' = IF is_ping_msg(req.msg_type) THEN pings + 1 ELSE pings
          /\ sched' # "wanted"
      BY <1>5 DEF wdog_finish, HandoverInv, AgentInv, Progress
    <2> QED
      BY SMT, <1>0, <1>1, <2>1 DEF HandoverInv, Duties
  <1> QED
    BY <1>2, <1>3, <1>4, <1>5

LEMMA NextHandover ==
  ASSUME HandoverInv, [Next]_vars
  PROVE  HandoverInv'
  <1>1. AgentInv'
    BY NextAgentInv DEF HandoverInv
  <1>2. Duties'
    BY ThreadsDuties, AgentDuties, RetryDuties, NodesDuties, FinishDuties DEF Next, Done
  <1> QED
    BY <1>1, <1>2, AnswersStep DEF HandoverInv

-----------------------------------------------------------------------------
(* The theorems.                                                             *)

\* Every step of an agent preserves the invariant, whatever the number of
\* groups, nodes and threads.
THEOREM AgentInvariant == Spec => []AgentInv
  <1>1. AgentInv /\ [Next]_vars => AgentInv'
    BY NextAgentInv
  <1> QED
    BY InitAgentInv, <1>1, PTL DEF Spec

\* The agent, its threads and its watchdog keep every variable in its type.
THEOREM AgentTypes == Spec => []TypeOK
  BY AgentInvariant, PTL DEF AgentInv

\* threads_active counts the live threads and respects AGENT_THREAD_COUNT.
THEOREM AgentCounts == Spec => []ActiveExact
  BY AgentInvariant, PTL DEF AgentInv

\* The agent never sleeps on thread_cond with nobody left to signal it.
THEOREM AgentNoLostWakeup == Spec => []AgentWakes
  <1>1. AgentInv => AgentWakes
    BY DEF AgentInv, Progress, AgentWakes
  <1> QED
    BY AgentInvariant, <1>1, PTL

\* The watchdog interrupts live threads only.
THEOREM AgentSignals == Spec => []SignalsLive
  <1>1. AgentInv => SignalsLive
    BY DEF AgentInv, TypeOK, Table, Final, SignalsLive, Alive
  <1> QED
    BY AgentInvariant, <1>1, PTL

\* The watchdog reports only when all threads have been created and are gone.
THEOREM AgentNotifies == Spec => []NotifiesAll
  <1>1. AgentInv => NotifiesAll
    <2> SUFFICES ASSUME AgentInv, wdog # "poll"
                 PROVE  created = Len(req.nodelist) /\ \A g \in Group : rpc[g] = "gone"
      BY DEF NotifiesAll
    <2>1. \A g \in Group : rpc[g] = "gone"
      BY DEF AgentInv, Progress
    <2>2. /\ Group = 1..Len(req.nodelist) /\ Len(req.nodelist) \in Nat \ {0}
          /\ created \in 0..Len(req.nodelist)
      BY RequestShape DEF AgentInv, TypeOK
    <2>3. Len(req.nodelist) \in Group
      BY SMT, <2>2
    <2>4. ~(Len(req.nodelist) > created)
      BY <2>1, <2>3 DEF AgentInv, Table
    <2> QED
      BY SMT, <2>1, <2>2, <2>4
  <1> QED
    BY AgentInvariant, <1>1, PTL

\* The agent frees the thread table only when nobody points into it.
THEOREM AgentFreesLast == Spec => []FreedQuiet
  <1>1. AgentInv => FreedQuiet
    BY DEF AgentInv, Progress, FreedQuiet
  <1> QED
    BY AgentInvariant, <1>1, PTL

\* The message outlives every thread that may send it.
THEOREM AgentMessage == Spec => []MsgLive
  <1>1. AgentInv => MsgLive
    BY DEF AgentInv, Progress, MsgLive
  <1> QED
    BY AgentInvariant, <1>1, PTL

\* What the agent reports and hands over at its end follows from an invariant
\* about the lists of answers and the duties of the watchdog.
THEOREM AgentHandover == Spec => []HandoverInv
  <1>1. HandoverInv /\ [Next]_vars => HandoverInv'
    BY NextHandover
  <1> QED
    BY InitHandover, <1>1, PTL DEF Spec

\* _notify_slurmctld_nodes: every answer of every node has reached the node
\* table, the ping round is over, the wanted scheduling was done and the message
\* is in the retry queue or freed when the agent ends.
THEOREM AgentReports == Spec => []Reported
  <1>1. HandoverInv => Reported
    BY DEF HandoverInv, AgentInv, Progress, Duties, AllNoted, Reported
  <1> QED
    BY AgentHandover, <1>1, PTL

\* _queue_agent_retry: only silent nodes are asked again, and the number of them
\* is wrong only when a silent node that was found DOWN is left out.
THEOREM AgentRetries == Spec => []RetryExact
  <1>1. HandoverInv => RetryExact
    BY DEF HandoverInv, AgentInv, Progress, Duties, RetryNoted, RetryExact
  <1> QED
    BY AgentHandover, <1>1, PTL
-----------------------------------------------------------------------------
(* The primary and the backup                                                *)

\* Only a daemon in control saves.
Saving == \A c \in Ctld : save_jobs[c] \/ dump[c] # NoDump => InControl(c)

\* c has the confirmed jobs, and each one is in the file or on its way there.
Keeps(c) ==
    /\ acked \subseteq job_list[c]
    /\ \A j \in acked : \/ save_jobs[c]
                        \/ j \in dump[c].jobs
                        \/ dump[c] = NoDump /\ j \in job_state.jobs

\* At most one daemon is in control, and it keeps the jobs; else the file does.
Handed ==
    ~hasty =>
      /\ \A c, d \in Ctld : InControl(c) /\ InControl(d) => c = d
      /\ \A c \in Ctld : InControl(c) => Keeps(c)
      /\ (\A c \in Ctld : ~InControl(c)) => acked \subseteq job_state.jobs

\* The inductive invariant of the two daemons.
BackupInv == BackupTypeOK /\ Saving /\ Handed
-----------------------------------------------------------------------------
LEMMA InitBackupInv == BackupInit => BackupInv
  <1> SUFFICES ASSUME BackupInit PROVE BackupInv
    OBVIOUS
  <1>1. mode \in [Ctld -> Mode] /\ job_list \in [Ctld -> SUBSET Jobs]
    BY DEF BackupInit, Mode
  <1>2. save_jobs \in [Ctld -> BOOLEAN] /\ resume_backup \in [Ctld -> BOOLEAN]
    BY DEF BackupInit
  <1>3. /\ dump \in [Ctld -> [jobs : SUBSET Jobs, time : 0..MaxTime]]
        /\ job_state \in [jobs : SUBSET Jobs, time : 0..MaxTime]
    BY SMT, BackupAssumption DEF BackupInit, NoDump
  <1>4. last_file_write_time \in [Ctld -> 0..MaxTime] /\ silent \in 0..SlurmctldTimeout
    BY SMT, BackupAssumption DEF BackupInit
  <1>5. takeover \in BOOLEAN /\ net \in BOOLEAN /\ hasty \in BOOLEAN
    BY DEF BackupInit
  <1>6. clock \in 0..MaxTime /\ cuts \in 0..MaxCut /\ acked \in SUBSET Jobs
    BY SMT, BackupAssumption DEF BackupInit
  <1>7. BackupTypeOK
    BY <1>1, <1>2, <1>3, <1>4, <1>5, <1>6 DEF BackupTypeOK
  <1>8. Saving /\ Handed
    BY DEF BackupInit, Saving, Handed, InControl, NoDump
  <1> QED
    BY <1>7, <1>8 DEF BackupInv

\* A step that moves neither jobs nor control.
LEMMA QuietInv ==
  ASSUME BackupInv, BackupTypeOK', UNCHANGED <<job_list, save_jobs, dump, job_state, acked, hasty>>,
         \A c \in Ctld : InControl(c)' <=> InControl(c)
  PROVE  BackupInv'
  BY DEF BackupInv, Saving, Handed, Keeps, NoDump

LEMMA DaemonStartInv ==
  ASSUME BackupInv, primary_start \/ backup_start
  PROVE  BackupInv'
  <1> USE DEF BackupInv
  <1>1. silent' \in 0..SlurmctldTimeout
    <2>1. silent' = 0 \/ silent' = silent
      BY DEF primary_start, backup_start, Standby
    <2> QED
      BY SMT, <2>1, BackupAssumption DEF BackupTypeOK
  <1>2. mode' \in [Ctld -> Mode]
    BY DEF primary_start, backup_start, BackupTypeOK, Mode, Set
  <1>3. resume_backup' \in [Ctld -> BOOLEAN]
    BY DEF primary_start, backup_start, Standby, BackupTypeOK, Set
  <1>4. BackupTypeOK'
    BY <1>1, <1>2, <1>3 DEF primary_start, backup_start, Standby, BackupTypeOK
  <1>5. \A c \in Ctld : InControl(c)' <=> InControl(c)
    BY DEF primary_start, backup_start, BackupTypeOK, Set, Ctld, P, B, InControl
  <1> QED
    BY <1>4, <1>5, QuietInv DEF primary_start, backup_start

\* REQUEST_CONTROL: a daemon that is stopping is still in control.
LEMMA AskInv ==
  ASSUME BackupInv, ask_backup \/ assert_primary \/ request_takeover
  PROVE  BackupInv'
  <1> USE DEF BackupInv
  <1>1. silent' \in 0..SlurmctldTimeout
    <2>1. silent' = 0 \/ silent' = silent
      BY DEF ask_backup, assert_primary, request_takeover, Asked
    <2> QED
      BY SMT, <2>1, BackupAssumption DEF BackupTypeOK
  <1>2. mode' \in [Ctld -> Mode]
    BY SMT DEF ask_backup, assert_primary, request_takeover, Asked, BackupTypeOK, Mode, Set, Ctld, P, B
  <1>3. resume_backup' \in [Ctld -> BOOLEAN]
    BY DEF ask_backup, assert_primary, request_takeover, Asked, BackupTypeOK, Set
  <1>4. BackupTypeOK'
    BY <1>1, <1>2, <1>3 DEF ask_backup, assert_primary, request_takeover, BackupTypeOK
  <1>5. \A c \in Ctld : InControl(c)' <=> InControl(c)
    BY SMT DEF ask_backup, assert_primary, request_takeover, Asked, BackupTypeOK, Set, Ctld, P, B,
           InControl
  <1> QED
    BY <1>4, <1>5, QuietInv DEF ask_backup, assert_primary, request_takeover

LEMMA PingInv ==
  ASSUME BackupInv, ping_answered \/ ping_failed
  PROVE  BackupInv'
  <1> USE DEF BackupInv
  <1>1. BackupTypeOK'
    BY SMT, BackupAssumption DEF ping_answered, ping_failed, BackupTypeOK, Set, Mode, Ctld, P, B
  <1>2. \A c \in Ctld : InControl(c)' <=> InControl(c)
    BY DEF ping_answered, ping_failed, BackupTypeOK, Set, Ctld, P, B, InControl
  <1> QED
    BY <1>1, <1>2, QuietInv DEF ping_answered, ping_failed

LEMMA NetInv ==
  ASSUME BackupInv, cut \/ heal \/ \E c \in Ctld : shutdown(c)
  PROVE  BackupInv'
  <1> USE DEF BackupInv
  <1>1. cuts' \in 0..MaxCut
    BY SMT, BackupAssumption DEF cut, heal, shutdown, BackupTypeOK
  <1>2. mode' \in [Ctld -> Mode]
    BY SMT DEF cut, heal, shutdown, BackupTypeOK, Mode, Set
  <1>3. BackupTypeOK'
    BY <1>1, <1>2 DEF cut, heal, shutdown, BackupTypeOK
  <1>4. \A c \in Ctld : InControl(c)' <=> InControl(c)
    BY DEF cut, heal, shutdown, BackupTypeOK, Set, InControl
  <1> QED
    BY <1>3, <1>4, QuietInv DEF cut, heal, shutdown
-----------------------------------------------------------------------------
(* The daemon in control                                                     *)

LEMMA TakeInv ==
  ASSUME BackupInv, NEW c \in Ctld, take_control(c)
  PROVE  BackupInv'
  <1> USE DEF BackupInv
  <1>1. BackupTypeOK'
    BY SMT, BackupAssumption DEF take_control, BackupTypeOK, Set, Mode
  <1>2. Saving'
    BY DEF take_control, Saving, BackupTypeOK, Set, InControl
  <1>3. Handed'
    <2> SUFFICES ASSUME ~hasty' PROVE Handed'
      BY DEF Handed
    <2>1. ~hasty /\ \A d \in Ctld : ~InControl(d)
      BY DEF take_control, InControl
    <2>2. acked \subseteq job_state.jobs /\ ~save_jobs[c] /\ dump[c] = NoDump
      BY <2>1 DEF Handed, Saving
    <2>3. \A d \in Ctld : InControl(d)' <=> d = c
      BY <2>1 DEF take_control, InControl, Set, BackupTypeOK
    <2>4. Keeps(c)'
      BY <2>2 DEF take_control, Keeps, Set, BackupTypeOK
    <2> QED
      BY <2>3, <2>4 DEF Handed
  <1> QED
    BY <1>1, <1>2, <1>3

LEMMA SubmitInv ==
  ASSUME BackupInv, NEW c \in Ctld, NEW j \in Jobs, submit(c, j)
  PROVE  BackupInv'
  <1> USE DEF BackupInv
  <1>1. BackupTypeOK'
    BY BackupAssumption DEF submit, BackupTypeOK, Set
  <1>2. Saving'
    BY DEF submit, Saving, BackupTypeOK, Set, InControl
  <1>3. Handed'
    <2> SUFFICES ASSUME ~hasty PROVE Handed'
      BY DEF Handed, submit
    <2>1. InControl(c) /\ \A d \in Ctld : InControl(d)' <=> d = c
      BY DEF submit, InControl, Handed
    <2>2. Keeps(c)'
      BY SMT, <2>1 DEF submit, Keeps, Set, BackupTypeOK, Handed
    <2> QED
      BY <2>1, <2>2 DEF Handed
  <1> QED
    BY <1>1, <1>2, <1>3

LEMMA BackgroundInv ==
  ASSUME BackupInv, NEW c \in Ctld, background_ends(c)
  PROVE  BackupInv'
  <1> USE DEF BackupInv
  <1>1. save_jobs' \in [Ctld -> BOOLEAN] /\ \A d \in Ctld : save_jobs[d] => save_jobs'[d]
    BY DEF background_ends, BackupTypeOK
  <1>2. mode' \in [Ctld -> Mode]
    BY DEF background_ends, BackupTypeOK, Set, Mode
  <1>3. BackupTypeOK'
    BY <1>1, <1>2 DEF background_ends, BackupTypeOK
  <1>4. /\ \A d \in Ctld : InControl(d)' <=> InControl(d)
        /\ \A d \in Ctld \ {c} : save_jobs'[d] = save_jobs[d]
        /\ InControl(c)
    BY DEF background_ends, BackupTypeOK, Set, InControl
  <1>5. Saving'
    BY <1>4 DEF background_ends, Saving
  <1>6. Handed'
    BY <1>1, <1>4 DEF background_ends, Handed, Keeps
  <1> QED
    BY <1>3, <1>5, <1>6

\* A daemon that leaves with no save due leaves all jobs in the file.
LEMMA LeaveInv ==
  ASSUME BackupInv, NEW c \in Ctld, UNCHANGED <<job_state, acked>>,
         \A d \in Ctld : InControl(d)' <=> InControl(d) /\ d # c,
         save_jobs' = Set(save_jobs, c, FALSE), dump' = Set(dump, c, NoDump),
         job_list' = Set(job_list, c, {}),
         hasty' = (hasty \/ save_jobs[c] \/ dump[c] # NoDump)
  PROVE  Saving' /\ Handed'
  <1> USE DEF BackupInv
  <1>1. Saving'
    BY DEF Saving, Set, BackupTypeOK
  <1>2. Handed'
    <2> SUFFICES ASSUME ~hasty' PROVE Handed'
      BY DEF Handed
    <2>1. ~hasty /\ ~save_jobs[c] /\ dump[c] = NoDump
      OBVIOUS
    <2>2. \A d \in Ctld \ {c} : Keeps(d)' <=> Keeps(d)
      BY DEF Keeps, Set, BackupTypeOK
    <2>3. (\A d \in Ctld : ~InControl(d)') => acked \subseteq job_state.jobs
      <3>1. CASE InControl(c)
        BY SMT, <2>1, <3>1 DEF Handed, Keeps, NoDump
      <3>2. CASE ~InControl(c)
        BY <2>1, <3>2 DEF Handed
      <3> QED
        BY <3>1, <3>2
    <2> QED
      BY <2>1, <2>2, <2>3 DEF Handed
  <1> QED
    BY <1>1, <1>2

LEMMA EndsInv ==
  ASSUME BackupInv, NEW c \in Ctld, main_ends(c)
  PROVE  BackupInv'
  <1> USE DEF BackupInv
  <1>1. /\ save_jobs' = Set(save_jobs, c, FALSE) /\ dump' = Set(dump, c, NoDump)
        /\ hasty' = (hasty \/ save_jobs[c] \/ dump[c] # NoDump)
    BY DEF main_ends, Set, BackupTypeOK
  <1>2. mode' \in [Ctld -> Mode] /\ \A d \in Ctld : InControl(d)' <=> InControl(d) /\ d # c
    BY DEF main_ends, Set, BackupTypeOK, Mode, InControl
  <1>3. silent' \in 0..SlurmctldTimeout
    <2>1. silent' = 0 \/ silent' = silent
      BY DEF main_ends, Standby
    <2> QED
      BY SMT, <2>1, BackupAssumption DEF BackupTypeOK
  <1>4. resume_backup' \in [Ctld -> BOOLEAN] /\ takeover' \in BOOLEAN
    BY DEF main_ends, Standby, BackupTypeOK, Set
  <1>5. last_file_write_time' \in [Ctld -> 0..MaxTime]
    BY SMT, BackupAssumption DEF main_ends, BackupTypeOK, Set
  <1>6. BackupTypeOK'
    BY <1>2, <1>3, <1>4, <1>5 DEF main_ends, BackupTypeOK, Set
  <1> QED
    BY <1>1, <1>2, <1>6, LeaveInv DEF main_ends

LEMMA GoneInv ==
  ASSUME BackupInv, NEW c \in Ctld, Gone(c),
         UNCHANGED <<job_state, acked, silent, takeover, net, cuts>>,
         clock' \in 0..MaxTime
  PROVE  BackupInv'
  <1> USE DEF BackupInv
  <1>1. mode' \in [Ctld -> Mode] /\ \A d \in Ctld : InControl(d)' <=> InControl(d) /\ d # c
    BY DEF Gone, Set, BackupTypeOK, Mode, InControl
  <1>2. /\ last_file_write_time' \in [Ctld -> 0..MaxTime]
        /\ dump' \in [Ctld -> [jobs : SUBSET Jobs, time : 0..MaxTime]]
    BY SMT, BackupAssumption DEF Gone, BackupTypeOK, Set, NoDump
  <1>3. save_jobs' \in [Ctld -> BOOLEAN] /\ resume_backup' \in [Ctld -> BOOLEAN]
    BY DEF Gone, BackupTypeOK, Set
  <1>4. hasty' \in BOOLEAN /\ job_list' \in [Ctld -> SUBSET Jobs]
    BY DEF Gone, BackupTypeOK, Set
  <1>5. BackupTypeOK'
    BY <1>1, <1>2, <1>3, <1>4 DEF BackupTypeOK
  <1> QED
    BY <1>1, <1>5, LeaveInv DEF Gone

LEMMA CheckInv ==
  ASSUME BackupInv, NEW c \in Ctld, dump_check(c)
  PROVE  BackupInv'
  <1> USE DEF BackupInv
  <1>1. PICK t \in {clock, clock + 1} \cap (1..MaxTime) :
          /\ clock' = t
          /\ \/ Gone(c)
             \/ /\ save_jobs' = Set(save_jobs, c, FALSE)
                /\ dump' = Set(dump, c, [jobs |-> job_list[c], time |-> t])
                /\ UNCHANGED <<mode, job_list, last_file_write_time, resume_backup, hasty>>
    BY DEF dump_check
  <1>2. t \in 1..MaxTime /\ t \in 0..MaxTime /\ t # 0
    BY SMT, BackupAssumption
  <1>3. CASE Gone(c)
    BY <1>1, <1>2, <1>3, GoneInv DEF dump_check
  <1>4. CASE /\ save_jobs' = Set(save_jobs, c, FALSE)
             /\ dump' = Set(dump, c, [jobs |-> job_list[c], time |-> t])
             /\ UNCHANGED <<mode, job_list, last_file_write_time, resume_backup, hasty>>
    <2>0. UNCHANGED <<silent, takeover, job_state, net, cuts, acked>> /\ InControl(c)
      BY DEF dump_check
    <2>1. /\ dump' \in [Ctld -> [jobs : SUBSET Jobs, time : 0..MaxTime]]
          /\ \A d \in Ctld \ {c} : dump'[d] = dump[d]
          /\ dump'[c].jobs = job_list[c]
      BY <1>2, <1>4 DEF Set, BackupTypeOK
    <2>2. save_jobs' \in [Ctld -> BOOLEAN] /\ \A d \in Ctld \ {c} : save_jobs'[d] = save_jobs[d]
      BY <1>4 DEF Set, BackupTypeOK
    <2>3. BackupTypeOK'
      BY <1>1, <1>2, <1>4, <2>0, <2>1, <2>2 DEF BackupTypeOK
    <2>4. \A d \in Ctld : InControl(d)' <=> InControl(d)
      BY <1>4 DEF InControl
    <2>5. Saving'
      BY <2>0, <2>1, <2>2, <2>4 DEF Saving
    <2>6. Handed'
      BY <1>4, <2>0, <2>1, <2>2, <2>4 DEF Handed, Keeps
    <2> QED
      BY <2>3, <2>5, <2>6
  <1> QED
    BY <1>1, <1>3, <1>4

LEMMA WriteInv ==
  ASSUME BackupInv, NEW c \in Ctld, dump_write(c)
  PROVE  BackupInv'
  <1> USE DEF BackupInv
  <1>0. InControl(c)
    BY DEF dump_write, Saving
  <1>1. BackupTypeOK'
    BY SMT, BackupAssumption DEF dump_write, BackupTypeOK, Set, NoDump
  <1>2. \A d \in Ctld : InControl(d)' <=> InControl(d)
    BY DEF dump_write, InControl
  <1>3. Saving'
    BY <1>2 DEF dump_write, Saving, Set, BackupTypeOK
  <1>4. ASSUME Keeps(c) PROVE Keeps(c)'
    BY <1>4 DEF dump_write, Keeps, Set, BackupTypeOK
  <1>5. Handed'
    BY <1>0, <1>2, <1>4 DEF dump_write, Handed
  <1> QED
    BY <1>1, <1>3, <1>5
-----------------------------------------------------------------------------
\* The two daemons keep the inductive invariant, whatever is asked, cut off or ends.
THEOREM BackupInvariant == BackupSpec => []BackupInv
  <1>1. BackupInit => BackupInv
    BY InitBackupInv
  <1>2. BackupInv /\ [BackupNext]_backup_vars => BackupInv'
    <2> SUFFICES ASSUME BackupInv, [BackupNext]_backup_vars PROVE BackupInv'
      OBVIOUS
    <2>1. CASE UNCHANGED backup_vars
      <3>1. BackupTypeOK' /\ \A c \in Ctld : InControl(c)' <=> InControl(c)
        BY <2>1 DEF backup_vars, BackupInv, BackupTypeOK, InControl
      <3> QED
        BY <2>1, <3>1, QuietInv DEF backup_vars
    <2>2. ASSUME NEW c \in Ctld, crash(c) PROVE BackupInv'
      BY <2>2, GoneInv DEF crash, BackupInv, BackupTypeOK
    <2>3. ASSUME NEW c \in Ctld, Stops(c) PROVE BackupInv'
      BY <2>3, BackgroundInv, CheckInv, WriteInv, EndsInv DEF Stops
    <2> QED
      BY <2>1, <2>2, <2>3, DaemonStartInv, AskInv, PingInv, NetInv, TakeInv, SubmitInv DEF BackupNext
  <1> QED
    BY <1>1, <1>2, PTL DEF BackupSpec

\* Control changes hands between the daemons without the loss of a confirmed job, unless
\* one is hasty, for any number of jobs and of takeovers.
THEOREM BackupKeepsJobs == BackupSpec => []JobsKept
  <1>1. BackupInv => JobsKept
    <2> SUFFICES ASSUME BackupInv, ~hasty, NEW j \in acked, j \notin job_state.jobs
                 PROVE  \E c \in Ctld : j \in job_list[c] /\ (save_jobs[c] \/ j \in dump[c].jobs)
      BY DEF JobsKept
    <2>1. PICK c \in Ctld : InControl(c) /\ Keeps(c)
      BY DEF BackupInv, Handed
    <2> QED
      BY <2>1 DEF Keeps
  <1> QED
    BY <1>1, BackupInvariant, PTL
=============================================================================
