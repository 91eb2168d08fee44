----------------------------- MODULE AgentQueue -----------------------------
(***************************************************************************)
(* The queue in front of slurmctld's RPC agents (src/slurmctld/agent.c):   *)
(* agent_queue_request() appends to retry_list and triggers the thread     *)
(* _agent_init(), which takes at most one request out of the list per pass *)
(* (_agent_retry()) and starts an agent for it, or else sends mail.        *)
(* Agents and mail share a budget of MAX_SERVER_THREADS threads: an agent  *)
(* without room sleeps on agent_cnt_cond.  What an agent does between      *)
(* admission and end is module AgentRpc; here it ends with the request     *)
(* done or back in the list.                                               *)
(***************************************************************************)
EXTENDS Integers, Sequences, FiniteSets, FiniteSetsExt, Functions, Lists

CONSTANTS
    Requests,            \* agent_arg_t, each queued once by a caller
    kind,                \* "launch", "shutdown" or "other"
    node_count,
    MAX_SERVER_THREADS,
    AGENT_THREAD_COUNT,
    MaxMail,             \* bound on mail_job_info calls
    MaxTries             \* bound on the agents of one request

ASSUME LoadAssumption ==
    /\ IsFiniteSet(Requests)
    /\ kind \in [Requests -> {"launch", "shutdown", "other"}]
    /\ node_count \in [Requests -> Nat]
    /\ MaxMail \in Nat /\ MaxTries \in Nat \ {0}

\* agent_queue_request is fatal otherwise.
ASSUME BudgetAssumption ==
    /\ MAX_SERVER_THREADS \in Nat /\ AGENT_THREAD_COUNT \in Nat
    /\ AGENT_THREAD_COUNT + 2 < MAX_SERVER_THREADS

RPC_RETRY_INTERVAL == 60
NO_VAL16 == 65534
WaitTime == {RPC_RETRY_INTERVAL, 999, NO_VAL16}

\* last_attempt as a class of ages: 0 for never tried, then under 10 seconds,
\* up to 60, up to 999, and more.
Age == 0..4

\* now - last_attempt > min_wait
Waited(age, min_wait) ==
    age = 0 \/ age >= IF min_wait = RPC_RETRY_INTERVAL THEN 3 ELSE 4

VARIABLES
    retry_list,          \* sequence of [id, age]
    pending_wait_time, pending_mail,
    retrier,             \* _agent_init: pc, and the arguments of its pass
    agent,               \* where the agent of each request is
    tries,               \* agents started for each request
    agent_cnt, agent_thread_cnt,
    mail_list,           \* mail waiting
    mail_threads,        \* _mail_proc threads
    jobs,                \* the job of each launch: "running" or "ended"
    prologs,             \* launches whose job has prolog_running
    shutdown_time

queue == <<retry_list, pending_wait_time, pending_mail>>
budget == <<agent_cnt, agent_thread_cnt>>
mail == <<mail_list, mail_threads>>
world == <<jobs, prologs, shutdown_time>>
vars == <<queue, retrier, agent, tries, budget, mail, world>>

rpc_thread_cnt(r) == 2 + Min({node_count[r], AGENT_THREAD_COUNT})

Queued == {retry_list[i].id : i \in DOMAIN retry_list}

Idle == [pc |-> "idle", min_wait |-> NO_VAL16, mail_too |-> "no", req |-> {}]

Init ==
    /\ retry_list = << >>
    /\ pending_wait_time = NO_VAL16 /\ pending_mail = "no"
    /\ retrier = Idle
    /\ agent = [r \in Requests |-> "unborn"]
    /\ tries = [r \in Requests |-> 0]
    /\ agent_cnt = 0 /\ agent_thread_cnt = 0
    /\ mail_list = 0 /\ mail_threads = 0
    /\ jobs = [r \in Requests |-> "running"]
    /\ prologs \in SUBSET {r \in Requests : kind[r] = "launch"}
    /\ shutdown_time = "no"
-----------------------------------------------------------------------------
agent_trigger(min_wait, mail_too) ==
    /\ pending_wait_time' = Min({pending_wait_time, min_wait})
    /\ pending_mail' = IF mail_too = "yes" THEN "yes" ELSE pending_mail

\* A shutdown request gets its agent at once if a thread can be created.
agent_queue_request(r) ==
    /\ agent[r] = "unborn"
    /\ \/ /\ kind[r] = "shutdown"
          /\ agent' = [agent EXCEPT ![r] = "starting"]
          /\ tries' = [tries EXCEPT ![r] = 1]
          /\ UNCHANGED queue
       \/ /\ agent' = [agent EXCEPT ![r] = "waiting"]
          /\ retry_list' = Append(retry_list, [id |-> r, age |-> 0])
          /\ agent_trigger(999, "no")
          /\ UNCHANGED tries
    /\ UNCHANGED <<retrier, budget, mail, world>>

\* _slurmctld_background, "Process any pending agent work".
background ==
    /\ shutdown_time = "no"
    /\ agent_trigger(RPC_RETRY_INTERVAL, "yes")
    /\ UNCHANGED <<retry_list, retrier, agent, tries, budget, mail, world>>

mail_job_info ==
    /\ mail_list + mail_threads < MaxMail
    /\ mail_list' = mail_list + 1
    /\ UNCHANGED <<queue, retrier, agent, tries, budget, mail_threads, world>>
-----------------------------------------------------------------------------
(* _agent_init and the pass it makes for every trigger.                      *)

_agent_init ==
    /\ retrier.pc = "idle"
    /\ shutdown_time = "yes" \/ pending_mail = "yes" \/ pending_wait_time # NO_VAL16
    /\ IF shutdown_time = "yes"
         THEN /\ retrier' = [Idle EXCEPT !.pc = "exit"]
              /\ UNCHANGED <<pending_wait_time, pending_mail>>
         ELSE /\ retrier' = [pc |-> "pass", min_wait |-> pending_wait_time,
                             mail_too |-> pending_mail, req |-> {}]
              /\ pending_wait_time' = NO_VAL16 /\ pending_mail' = "no"
    /\ UNCHANGED <<retry_list, agent, tries, budget, mail, world>>

\* Altered form of _batch_launch_defer: a running prolog is looked at first.
DeferOnProlog(e, ready, late) ==
    CASE kind[e.id] # "launch" -> "go"
      [] kind[e.id] = "launch" /\ (e.age = 1 \/ e.id \in prologs) -> "skip"
      [] kind[e.id] = "launch" /\ e.age # 1 /\ e.id \notin prologs ->
           IF jobs[e.id] = "ended" THEN "abort"
           ELSE IF e.id \in ready THEN "go"
           ELSE IF e.age # 0 /\ e.id \in late THEN "abort"
           ELSE "test later"

\* _batch_launch_defer for an entry of the list: "go", "abort", or defer with
\* ("test later") or without ("skip") a new last_attempt.  ready and late are
\* the launches whose nodes are up, and those that waited ResumeTimeout.
_batch_launch_defer(e, ready, late) ==
    CASE kind[e.id] # "launch" -> "go"
      [] kind[e.id] = "launch" /\ e.age = 1 -> "skip"
      [] kind[e.id] = "launch" /\ e.age # 1 ->
           IF jobs[e.id] = "ended" THEN "abort"
           ELSE IF e.id \in prologs THEN "skip"
           ELSE IF e.id \in ready THEN "go"
           ELSE IF e.age # 0 /\ e.id \in late THEN "abort"
           ELSE "test later"

\* Altered form of Scanned: aborted requests stay in the list.
ScannedKeep(n, ready, late) == retry_list

\* What a scan of the first n entries does to entry i.
Fate(i, n, ready, late) ==
    IF i <= n THEN _batch_launch_defer(retry_list[i], ready, late) ELSE "not scanned"

\* The list after its first n entries were scanned.
Scanned(n, ready, late) ==
    LET marked == [i \in DOMAIN retry_list |->
                      IF Fate(i, n, ready, late) = "test later"
                        THEN [retry_list[i] EXCEPT !.age = 1] ELSE retry_list[i]]
    IN  Kept(marked, {i \in DOMAIN retry_list : Fate(i, n, ready, late) # "abort"})

Aborted(n, ready, late) ==
    {retry_list[i].id : i \in {k \in DOMAIN retry_list :
                                  Fate(k, n, ready, late) = "abort"}}

\* First scan: entries never tried, and launches whose nodes are ready.
Untried(ready, late) ==
    {i \in DOMAIN retry_list :
        /\ _batch_launch_defer(retry_list[i], ready, late) = "go"
        /\ kind[retry_list[i].id] = "launch" \/ retry_list[i].age = 0}

\* Second scan: entries tried long enough ago.
Aged(min_wait) ==
    {i \in DOMAIN retry_list :
        kind[retry_list[i].id] # "launch" /\ Waited(retry_list[i].age, min_wait)}

Drop(list, r) == Kept(list, {i \in DOMAIN list : list[i].id # r})

\* Hand request r of the list to _spawn_retry_agent, after a scan of n entries.
Take(r, n, ready, late) ==
    /\ retry_list' = Drop(Scanned(n, ready, late), r)
    /\ agent' = [q \in Requests |-> IF q = r THEN "taken"
                   ELSE IF q \in Aborted(n, ready, late) THEN "done" ELSE agent[q]]
    /\ retrier' = [Idle EXCEPT !.pc = "spawn", !.req = {r}]

\* Nothing to start: mail, or the next trigger.
TakeNone(ready, late) ==
    /\ retry_list' = Scanned(Len(retry_list), ready, late)
    /\ agent' = [q \in Requests |->
          IF q \in Aborted(Len(retry_list), ready, late) THEN "done" ELSE agent[q]]
    /\ retrier' = IF retrier.mail_too = "yes" THEN [Idle EXCEPT !.pc = "mail"] ELSE Idle

\* "too much work already"
TooMuchWork == agent_thread_cnt + AGENT_THREAD_COUNT + 2 > MAX_SERVER_THREADS

\* _agent_retry up to the release of its locks.
_agent_retry(ready, late) ==
    /\ retrier.pc = "pass"
    /\ IF TooMuchWork
         THEN retrier' = Idle /\ UNCHANGED <<retry_list, agent>>
         ELSE IF Untried(ready, late) # {}
         THEN LET i == Min(Untried(ready, late))
              IN  Take(retry_list[i].id, i, ready, late)
         ELSE IF Aged(retrier.min_wait) # {}
         THEN Take(retry_list[Min(Aged(retrier.min_wait))].id,
                   Len(retry_list), ready, late)
         ELSE TakeNone(ready, late)
    /\ UNCHANGED <<pending_wait_time, pending_mail, tries, budget, mail, world>>

_spawn_retry_agent ==
    /\ retrier.pc = "spawn"
    /\ retrier' = Idle
    /\ agent' = [r \in Requests |-> IF r \in retrier.req THEN "starting" ELSE agent[r]]
    /\ tries' = [r \in Requests |-> IF r \in retrier.req THEN tries[r] + 1 ELSE tries[r]]
    /\ UNCHANGED <<queue, budget, mail, world>>

send_mail ==
    LET n == Min({mail_list, Max({0, MAX_SERVER_THREADS - agent_thread_cnt})})
    IN  /\ retrier.pc = "mail"
        /\ retrier' = Idle
        /\ mail_list' = mail_list - n
        /\ mail_threads' = mail_threads + n
        /\ agent_thread_cnt' = agent_thread_cnt + n
        /\ UNCHANGED <<queue, agent, tries, agent_cnt, world>>

\* The end of a mail thread wakes nobody.
_mail_proc ==
    /\ mail_threads > 0
    /\ mail_threads' = mail_threads - 1
    /\ agent_thread_cnt' = agent_thread_cnt - 1
    /\ UNCHANGED <<queue, retrier, agent, tries, agent_cnt, mail_list, world>>
-----------------------------------------------------------------------------
(* agent(), before and after the RPCs.                                       *)

\* Altered form of HasRoom: the threads of the new agent are not counted.
HasRoomAlready(r) == agent_thread_cnt < MAX_SERVER_THREADS

HasRoom(r) == agent_thread_cnt + rpc_thread_cnt(r) <= MAX_SERVER_THREADS

agent_begin(r) ==
    /\ agent[r] = "starting"
    /\ IF shutdown_time = "yes" \/ HasRoom(r)
         THEN /\ agent' = [agent EXCEPT ![r] = "running"]
              /\ agent_cnt' = agent_cnt + 1
              /\ agent_thread_cnt' = agent_thread_cnt + rpc_thread_cnt(r)
         ELSE /\ agent' = [agent EXCEPT ![r] = "sleeping"]
              /\ UNCHANGED budget
    /\ UNCHANGED <<queue, retrier, tries, mail, world>>

\* Altered form of Woken: nobody is woken.
WokenNone(ag) == ag

\* Broadcast of agent_cnt_cond: the sleepers test again.
Woken(ag) == [r \in Requests |-> IF ag[r] = "sleeping" THEN "starting" ELSE ag[r]]

\* The agent ends; its watchdog may have queued the request for a retry, which
\* it does for requests other than launches and shutdowns.
agent_end(r, again) ==
    /\ agent[r] = "running"
    /\ again = "yes" => kind[r] = "other" /\ tries[r] < MaxTries /\ shutdown_time = "no"
    /\ retry_list' = IF again = "yes" THEN Append(retry_list, [id |-> r, age |-> 1])
                      ELSE retry_list
    /\ agent' = Woken([agent EXCEPT ![r] = IF again = "yes" THEN "waiting" ELSE "done"])
    /\ agent_cnt' = agent_cnt - 1
    /\ agent_thread_cnt' = agent_thread_cnt - rpc_thread_cnt(r)
    /\ IF agent_thread_cnt' + AGENT_THREAD_COUNT + 2 < MAX_SERVER_THREADS
         THEN agent_trigger(RPC_RETRY_INTERVAL, "yes")
         ELSE UNCHANGED <<pending_wait_time, pending_mail>>
    /\ UNCHANGED <<retrier, tries, mail, world>>

\* Controller shutdown: shutdown_time is set, then the lists are purged.
shutdown ==
    /\ shutdown_time = "no"
    /\ shutdown_time' = "yes"
    /\ UNCHANGED <<queue, retrier, agent, tries, budget, mail, jobs, prologs>>

agent_purge ==
    /\ shutdown_time = "yes"
    /\ retry_list # << >> \/ mail_list > 0
    /\ retry_list' = << >>
    /\ agent' = [r \in Requests |-> IF r \in Queued THEN "done" ELSE agent[r]]
    /\ mail_list' = 0
    /\ UNCHANGED <<pending_wait_time, pending_mail, retrier, tries, budget,
                   mail_threads, world>>
-----------------------------------------------------------------------------
(* Jobs and the clock.                                                       *)

job_ends(r) ==
    /\ kind[r] = "launch" /\ jobs[r] = "running"
    /\ jobs' = [jobs EXCEPT ![r] = "ended"]
    /\ UNCHANGED <<queue, retrier, agent, tries, budget, mail, prologs, shutdown_time>>

prolog_ends(r) ==
    /\ r \in prologs
    /\ prologs' = prologs \ {r}
    /\ UNCHANGED <<queue, retrier, agent, tries, budget, mail, jobs, shutdown_time>>

time_passes(r) ==
    /\ \E i \in DOMAIN retry_list :
          /\ retry_list[i].id = r /\ retry_list[i].age \in 1..3
          /\ retry_list' = [retry_list EXCEPT ![i].age = @ + 1]
    /\ UNCHANGED <<pending_wait_time, pending_mail, retrier, agent, tries, budget,
                   mail, world>>

Launches == {r \in Requests : kind[r] = "launch"}

\* The retry thread, which takes these steps one after the other.
Retrier ==
    \/ _agent_init
    \/ \E ready \in SUBSET Launches :
          \E late \in SUBSET (Launches \ ready) : _agent_retry(ready, late)
    \/ _spawn_retry_agent \/ send_mail

Next ==
    \/ background \/ mail_job_info \/ Retrier \/ _mail_proc
    \/ \E r \in Requests :
          \/ agent_queue_request(r) \/ agent_begin(r)
          \/ \E again \in {"yes", "no"} : agent_end(r, again)
          \/ job_ends(r) \/ prolog_ends(r) \/ time_passes(r)
    \/ shutdown \/ agent_purge

Spec == Init /\ [][Next]_vars

\* The retry thread has a step to take.
RetrierReady ==
    \/ retrier.pc \in {"pass", "spawn", "mail"}
    \/ retrier.pc = "idle" /\ (shutdown_time = "yes" \/ pending_mail = "yes"
                                \/ pending_wait_time # NO_VAL16)

\* The background loop and the retry thread keep running, the thread of every
\* agent gets to test for room, every agent ends (AgentRpc!Terminates), mail
\* programs exit and time passes.  (Where a step is possible at some place of a
\* thread, and always leaves it, weak fairness says no more than that the thread
\* does not stay there; TLC evaluates that faster.)
Fairness ==
    /\ WF_vars(background) /\ WF_vars(_mail_proc)
    /\ \A l \in {"idle", "pass", "spawn", "mail"} :
          []<> ~ (retrier.pc = l /\ RetrierReady)
    /\ \A r \in Requests : []<> (agent[r] # "starting") /\ []<> (agent[r] # "running")
    /\ \A r \in Requests : WF_vars(time_passes(r))

LiveSpec == Spec /\ Fairness
-----------------------------------------------------------------------------
\* Every variable stays in its type.
TypeOK ==
    /\ retry_list \in Seq([id : Requests, age : Age])
    /\ pending_wait_time \in WaitTime /\ pending_mail \in {"yes", "no"}
    /\ retrier \in [pc : {"idle", "pass", "spawn", "mail", "exit"}, min_wait : WaitTime,
                    mail_too : {"yes", "no"}, req : SUBSET Requests]
    /\ agent \in [Requests -> {"unborn", "waiting", "taken", "starting", "sleeping",
                               "running", "done"}]
    /\ tries \in [Requests -> 0..MaxTries]
    /\ agent_cnt \in Nat /\ agent_thread_cnt \in Nat
    /\ mail_list \in Nat /\ mail_threads \in Nat /\ mail_list + mail_threads <= MaxMail
    /\ jobs \in [Requests -> {"running", "ended"}] /\ prologs \subseteq Requests
    /\ shutdown_time \in {"yes", "no"}

Running == {r \in Requests : agent[r] = "running"}

\* agent_thread_cnt is exactly what the running agents reserved plus the mail
\* threads, so neither "underflow" branch of agent.c is ever taken; and the
\* reservations stay within MAX_SERVER_THREADS until shutdown overrides them.
BudgetExact ==
    /\ agent_cnt = Cardinality(Running)
    /\ agent_thread_cnt = mail_threads + MapThenSumSet(rpc_thread_cnt, Running)
    /\ shutdown_time = "no" => agent_thread_cnt <= MAX_SERVER_THREADS

\* A request is in retry_list exactly while it waits, and only once: neither a
\* retry, an abort nor a purge duplicates or loses the message.
OneOwner ==
    /\ Queued = {r \in Requests : agent[r] = "waiting"}
    /\ IsInjective([i \in DOMAIN retry_list |-> retry_list[i].id])
    /\ retrier.req = {r \in Requests : agent[r] = "taken"}

\* agent_queue_request: every ordinary request, not a batch launch, leaves the
\* queue of a running controller and its agent is admitted to the budget,
\* whatever the load.  The exception is an agent that goes to sleep while mail
\* threads use the budget: _mail_proc gives its thread back without a signal to
\* agent_cnt_cond, so that agent sleeps until some other agent ends.
QueueDrains ==
    \A r \in Requests : kind[r] = "other" =>
        (agent[r] = "waiting" ~>
            (\/ agent[r] = "running"
             \/ shutdown_time = "yes"
             \/ agent[r] = "sleeping" /\ mail_threads > 0))

\* _batch_launch_defer: the launch of a job that has ended never stays in the
\* queue of a running controller; it is removed even if its nodes never become ready.
EndedLaunchLeaves ==
    \A r \in Requests : kind[r] = "launch" =>
        agent[r] = "waiting" /\ jobs[r] = "ended"
            ~> agent[r] # "waiting" \/ shutdown_time = "yes"
=============================================================================
