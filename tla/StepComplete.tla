---------------------------- MODULE StepComplete ----------------------------
(***************************************************************************)
(* How the end of a job step on its nodes reaches slurmctld: the           *)
(* slurmstepd of each node (src/slurmd/slurmstepd/mgr.c and req.c), the    *)
(* slurmd that passes completions on to it and step_partial_comp() in      *)
(* src/slurmctld/step_mgr.c.  The nodes form a tree: a slurmstepd collects *)
(* the completions of the ranks below it until a timeout, and reports them *)
(* with its own to its parent, in as many ranges of ranks as there are.    *)
(* If the parent does not take a range it is sent to slurmctld, for ever.  *)
(* Requests and replies may be delayed or lost, and nodes may fail.        *)
(***************************************************************************)
EXTENDS Integers, FiniteSets, Sequences

CONSTANTS
    nnodes,             \* number of nodes of the step
    parent_rank,        \* reverse_tree_info: parent of each rank, -1 for rank 0
    children,           \* reverse_tree_info: number of ranks below each rank
    task,               \* tasks of each rank: how they ended, and estatus
    REVERSE_TREE_PARENT_RETRY,
    MaxFailures         \* nodes that may fail

Rank == 0..(nnodes - 1)

Below(r) == (r + 1)..(r + children[r])

\* The ranks below a rank are the ones that follow it.
ASSUME TreeAssumption ==
    /\ nnodes \in Nat \ {0}
    /\ parent_rank \in [Rank -> Int] /\ children \in [Rank -> Nat]
    /\ \A r \in Rank :
        /\ Below(r) \subseteq Rank
        /\ parent_rank[r] # -1 =>
            /\ parent_rank[r] \in Rank
            /\ {r} \cup Below(r) \subseteq Below(parent_rank[r])

Task == [how : {"exited", "signaled", "killed_by_cmd"}, estatus : Nat]

ASSUME StepAssumption ==
    /\ task \in [Rank -> Seq(Task)] /\ \A r \in Rank : task[r] # << >>
    /\ REVERSE_TREE_PARENT_RETRY \in Nat /\ MaxFailures \in Nat

VARIABLES
    stepd,          \* the slurmstepd of each rank
    exited,         \* ranks whose tasks have exited
    bits,           \* step_complete.bits: ranks below whose completion it has
    step_rc,        \* step_complete.step_rc
    unsent,         \* ranks it has yet to report
    attempt,        \* attempts made to send the current range
    awaiting,       \* whether it waits for a reply
    net,            \* requests under way; one that is lost is never received
    exit_bits,      \* step_record.exit_node_bitmap
    exit_code,      \* step_record.exit_code
    step            \* whether slurmctld has the step record

ranks == <<stepd, exited, bits, step_rc, unsent, attempt, awaiting>>
ctld == <<exit_bits, exit_code, step>>
vars == <<ranks, net, ctld>>

Ctld == -1

MAX(a, b) == IF a >= b THEN a ELSE b

Init ==
    /\ stepd = [r \in Rank |-> "absent"]
    /\ exited = {}
    /\ bits = [r \in Rank |-> {}]
    /\ step_rc = [r \in Rank |-> 0]
    /\ unsent = [r \in Rank |-> {}]
    /\ attempt = [r \in Rank |-> 0]
    /\ awaiting = [r \in Rank |-> "no"]
    /\ net = {}
    /\ exit_bits = {}
    /\ exit_code = 0
    /\ step = "present"
-----------------------------------------------------------------------------
(* slurmstepd                                                                *)

\* _init_from_slurmd: ranks start at different times.
start(r) ==
    /\ stepd[r] = "absent"
    /\ stepd' = [stepd EXCEPT ![r] = "run"]
    /\ UNCHANGED <<exited, bits, step_rc, unsent, attempt, awaiting, net, ctld>>

\* job_manager: the tasks end and the slurmstepd waits for the ranks below.
tasks_end(r) ==
    /\ stepd[r] = "run"
    /\ stepd' = [stepd EXCEPT ![r] = "wait"]
    /\ exited' = exited \cup {r}
    /\ UNCHANGED <<bits, step_rc, unsent, attempt, awaiting, net, ctld>>

\* _get_exit_code: a loop over the tasks that ends at the first one that died of
\* a signal, passes over those killed on request and otherwise assigns the code
\* anew for each task.
_get_exit_code(r) ==
    LET signaled == {i \in DOMAIN task[r] : task[r][i].how = "signaled"}
        exits == {i \in DOMAIN task[r] : task[r][i].how = "exited"}
    IN  IF signaled # {}
          THEN task[r][CHOOSE i \in signaled : \A j \in signaled : i <= j].estatus
          ELSE IF exits # {}
          THEN MAX(step_rc[r],
                   task[r][CHOOSE i \in exits : \A j \in exits : i >= j].estatus)
          ELSE task[r][1].estatus

\* _wait_for_children_slurmstepd ends: all completions are there, or time is up.
wait_end(r) ==
    /\ stepd[r] = "wait"
    /\ stepd' = [stepd EXCEPT ![r] = "send"]
    /\ step_rc' = [step_rc EXCEPT ![r] = _get_exit_code(r)]
    /\ unsent' = [unsent EXCEPT ![r] = bits[r] \cup {r}]
    /\ UNCHANGED <<exited, bits, attempt, awaiting, net, ctld>>

\* _bit_getrange: the lowest run of ranks below that are yet to be reported.
IsRange(r, first, last) ==
    LET below == unsent[r] \ {r} IN
    /\ first \in below /\ last \in below /\ first <= last
    /\ first..last \subseteq below
    /\ last + 1 \notin below
    /\ \A x \in below : first <= x

\* Mutant of NextRange: the own rank goes with the first range, wherever it is.
OwnWithAnyRange(r, first, last) ==
    \/ first = r /\ \E f \in unsent[r] : IsRange(r, f, last)
    \/ first = r /\ last = r /\ unsent[r] = {r}

\* _send_step_complete_msgs: the own rank goes with the range that follows it,
\* or last.
NextRange(r, first, last) ==
    \/ first = r /\ last > r /\ IsRange(r, r + 1, last)
    \/ first > r + 1 /\ IsRange(r, first, last)
    \/ first = r /\ last = r /\ unsent[r] = {r}

\* _one_step_complete_msg: to the parent for some attempts, then to slurmctld.
Dest(r) ==
    IF parent_rank[r] # -1 /\ attempt[r] < REVERSE_TREE_PARENT_RETRY
      THEN parent_rank[r] ELSE Ctld

_one_step_complete_msg(r, first, last) ==
    /\ stepd[r] = "send" /\ awaiting[r] = "no"
    /\ NextRange(r, first, last)
    /\ net' = net \cup {[from |-> r, to |-> Dest(r), attempt |-> attempt[r],
                         range_first |-> first, range_last |-> last,
                         step_rc |-> step_rc[r]]}
    /\ awaiting' = [awaiting EXCEPT ![r] = "reply"]
    /\ UNCHANGED <<stepd, exited, bits, step_rc, unsent, attempt, ctld>>

\* Attempts beyond the last one to the parent are alike.
OneMore(r) == IF attempt[r] < REVERSE_TREE_PARENT_RETRY THEN attempt[r] + 1 ELSE attempt[r]

\* Mutant of send_timeout: slurmctld is tried once.
TimeoutGivesUp(r) ==
    /\ stepd[r] = "send" /\ awaiting[r] = "reply"
    /\ awaiting' = [awaiting EXCEPT ![r] = "no"]
    /\ attempt' = [attempt EXCEPT ![r] = OneMore(r)]
    /\ stepd' = [stepd EXCEPT ![r] = IF Dest(r) = Ctld THEN "done" ELSE @]
    /\ UNCHANGED <<exited, bits, step_rc, unsent, net, ctld>>

send_timeout(r) ==
    /\ stepd[r] = "send" /\ awaiting[r] = "reply"
    /\ awaiting' = [awaiting EXCEPT ![r] = "no"]
    /\ attempt' = [attempt EXCEPT ![r] = OneMore(r)]
    /\ UNCHANGED <<stepd, exited, bits, step_rc, unsent, net, ctld>>

\* The node fails.
fail(r) ==
    /\ stepd[r] \notin {"done", "dead"}
    /\ Cardinality({x \in Rank : stepd[x] = "dead"}) < MaxFailures
    /\ stepd' = [stepd EXCEPT ![r] = "dead"]
    /\ UNCHANGED <<exited, bits, step_rc, unsent, attempt, awaiting, net, ctld>>
-----------------------------------------------------------------------------
(* What becomes of a request                                                 *)

SentRange(m) == (m.range_first)..(m.range_last)

\* The sender still waits for the reply to this request.
Expects(m) ==
    /\ stepd[m.from] = "send" /\ awaiting[m.from] = "reply"
    /\ attempt[m.from] = m.attempt
    /\ NextRange(m.from, m.range_first, m.range_last)

\* The reply says that the range was taken: the sender goes on to the next.
Taken(m) ==
    /\ Expects(m)
    /\ unsent' = [unsent EXCEPT ![m.from] = @ \ SentRange(m)]
    /\ stepd' = [stepd EXCEPT ![m.from] =
                   IF unsent[m.from] \subseteq SentRange(m) THEN "done" ELSE "send"]
    /\ awaiting' = [awaiting EXCEPT ![m.from] = "no"]
    /\ attempt' = [attempt EXCEPT ![m.from] = 0]

\* The reply says that it was not: the sender tries again.
Refused(m) ==
    /\ Expects(m)
    /\ awaiting' = [awaiting EXCEPT ![m.from] = "no"]
    /\ attempt' = [attempt EXCEPT ![m.from] = OneMore(m.from)]
    /\ UNCHANGED <<unsent, stepd>>

\* The reply is lost, or nobody waits for it any more.
NoReply == UNCHANGED <<unsent, stepd, awaiting, attempt>>

\* Mutant of _handle_completion: wait_children is not tested.
HandleAnyTime(m) ==
    /\ m \in net /\ m.to # Ctld
    /\ stepd[m.to] \in {"run", "wait", "send", "done"}
    /\ net' = net \ {m}
    /\ bits' = [bits EXCEPT ![m.to] = @ \cup SentRange(m)]
    /\ step_rc' = [step_rc EXCEPT ![m.to] = MAX(@, m.step_rc)]
    /\ Taken(m) \/ NoReply
    /\ UNCHANGED <<exited, ctld>>

\* _handle_completion, while the slurmstepd waits for the ranks below.
_handle_completion(m) ==
    /\ m \in net /\ m.to # Ctld
    /\ stepd[m.to] \in {"run", "wait"}
    /\ net' = net \ {m}
    /\ bits' = [bits EXCEPT ![m.to] = @ \cup SentRange(m)]
    /\ step_rc' = [step_rc EXCEPT ![m.to] = MAX(@, m.step_rc)]
    /\ Taken(m) \/ NoReply
    /\ UNCHANGED <<exited, ctld>>

\* The slurmstepd no longer waits (wait_children is false), or slurmd finds none.
refuse_completion(m) ==
    /\ m \in net /\ m.to # Ctld
    /\ stepd[m.to] \notin {"run", "wait"}
    /\ net' = net \ {m}
    /\ Refused(m) \/ NoReply
    /\ UNCHANGED <<exited, bits, step_rc, ctld>>

\* Mutant of _slurm_rpc_step_complete: the code of the last request is kept.
CompleteLastCode(m) ==
    /\ m \in net /\ m.to = Ctld
    /\ net' = net \ {m}
    /\ IF step = "present"
         THEN /\ exit_bits' = exit_bits \cup SentRange(m)
              /\ exit_code' = m.step_rc
              /\ step' = IF exit_bits' = Rank THEN "complete" ELSE "present"
         ELSE UNCHANGED ctld
    /\ Taken(m) \/ NoReply
    /\ UNCHANGED <<exited, bits, step_rc>>

\* _slurm_rpc_step_complete: step_partial_comp, and job_step_complete, which
\* removes the step record, when no rank is missing.
_slurm_rpc_step_complete(m) ==
    /\ m \in net /\ m.to = Ctld
    /\ net' = net \ {m}
    /\ IF step = "present"
         THEN /\ exit_bits' = exit_bits \cup SentRange(m)
              /\ exit_code' = IF exit_bits = {} THEN m.step_rc
                                                ELSE MAX(exit_code, m.step_rc)
              /\ step' = IF exit_bits' = Rank THEN "complete" ELSE "present"
         ELSE UNCHANGED ctld
    /\ Taken(m) \/ NoReply
    /\ UNCHANGED <<exited, bits, step_rc>>
-----------------------------------------------------------------------------
Ranges(r) == {<<r + i, r + j>> : i, j \in 0..children[r]}

Send(r) == \E f \in Ranges(r) : _one_step_complete_msg(r, f[1], f[2])

Receive(m) ==
    _handle_completion(m) \/ refuse_completion(m) \/ _slurm_rpc_step_complete(m)

Next ==
    \/ \E r \in Rank : start(r) \/ tasks_end(r) \/ wait_end(r)
                       \/ Send(r) \/ send_timeout(r) \/ fail(r)
    \/ \E m \in net : Receive(m)

Spec == Init /\ [][Next]_vars

\* slurmctld takes a range from rank r and the reply arrives.
Answered(r) == \E m \in net : m.from = r /\ m.to = Ctld /\ _slurm_rpc_step_complete(m) /\ Taken(m)

\* Every rank starts, its tasks end, and slurm_send_recv_controller_rc_msg, tried
\* for ever, succeeds in the end.
Fairness ==
    \A r \in Rank :
        /\ WF_vars(start(r)) /\ WF_vars(tasks_end(r)) /\ WF_vars(wait_end(r))
        /\ WF_vars(Send(r)) /\ WF_vars(send_timeout(r))
        /\ SF_vars(Answered(r))

LiveSpec == Spec /\ Fairness
-----------------------------------------------------------------------------
\* Every variable stays in its type, and a request names ranks of the step.
TypeOK ==
    /\ stepd \in [Rank -> {"absent", "run", "wait", "send", "done", "dead"}]
    /\ exited \subseteq Rank
    /\ bits \in [Rank -> SUBSET Rank]
    /\ step_rc \in [Rank -> Nat]
    /\ unsent \in [Rank -> SUBSET Rank]
    /\ attempt \in [Rank -> 0..REVERSE_TREE_PARENT_RETRY]
    /\ awaiting \in [Rank -> {"no", "reply"}]
    /\ net \subseteq [from : Rank, to : Rank \cup {Ctld}, attempt : 0..REVERSE_TREE_PARENT_RETRY,
                      range_first : Rank, range_last : Rank, step_rc : Nat]
    /\ exit_bits \subseteq Rank
    /\ exit_code \in Nat
    /\ step \in {"present", "complete"}

\* step_partial_comp: a rank counts as completed only after its tasks exited,
\* whatever ranges with gaps, late or repeated requests went through the tree.
NoFalseCompletion == exit_bits \subseteq exited

\* _handle_completion, bit_nset: the range of a request to a slurmstepd lies
\* within its bitmap, which has one bit for each rank below.
InBitmap == \A m \in net : m.to # Ctld => SentRange(m) \subseteq Below(m.to)

\* _one_step_complete_msg: the completion of a rank that is through is known to
\* slurmctld, or a slurmstepd above holds it and has yet to report it, or held
\* it when its node failed.
NothingLost ==
    \A r \in Rank : stepd[r] = "done" =>
        \/ r \in exit_bits
        \/ \E a \in Rank : /\ r \in bits[a]
                          /\ \/ stepd[a] \in {"run", "wait", "dead"}
                             \/ stepd[a] = "send" /\ r \in unsent[a]

\* struct step_record, "highest exit code from any task": exit_code is at least
\* the status of every task on the nodes known to be through.
HighestCode ==
    \A r \in exit_bits : \A i \in DOMAIN task[r] : exit_code >= task[r][i].estatus

\* _handle_completion: a slurmstepd learns of no completion once it has begun to
\* report, or its report would miss it.
NoLateCompletion ==
    [][\A r \in Rank : stepd[r] \in {"send", "done"} => bits'[r] = bits[r]]_vars

\* _one_step_complete_msg, "Prevent orphan job step if slurmctld is down": the
\* step record goes away, unless a node failed.
StepEnds == <>(step = "complete" \/ \E r \in Rank : stepd[r] = "dead")
=============================================================================
