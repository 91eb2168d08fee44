------------------------------ MODULE JobPack ------------------------------
(***************************************************************************)
(* Job packs in slurmctld: a pack is a leader job and its member jobs,     *)
(* allocated all together or not at all, and ended together.               *)
(*                                                                         *)
(* The members are submitted first, with "-d pack"; then the leader, with  *)
(* "-d packleader:<ids>", whose depend_list keeps one struct depend_spec   *)
(* for each member: the id, a pointer to the job record and "alloc", set   *)
(* while the leader holds nodes for that member.  Only the leader is       *)
(* scheduled; it allocates each member in turn and then itself, and backs  *)
(* out on the first failure.                                               *)
(*                                                                         *)
(* Every handler below runs under the job and node write locks (module     *)
(* Locks), so it is one atomic step: a function on the controller's tables,*)
(* built from the functions it calls in the order it calls them.  Time is  *)
(* abstracted: whatever waits for an age or a limit may happen at any      *)
(* moment.  Jobs are exclusive (share_res = 0) and all nodes stay up.      *)
(***************************************************************************)
EXTENDS Naturals, Sequences, FiniteSets, Functions

CONSTANTS
  N,         \* the nodes are 1 .. N
  Leader,    \* the pack leader
  Members,   \* the sequence of pack members, in the order of submission
  Others,    \* the sequence of the jobs that belong to no pack
  Asks       \* the requests considered: [need |-> nodes per job, batch |-> BOOLEAN]

Nodes == 1 .. N
MemberSet == Range(Members)
OtherSet == Range(Others)
Jobs == MemberSet \cup {Leader} \cup OtherSet
NoJob == "0"   \* pack_leader = 0

ASSUME JobIds ==
  /\ N \in Nat
  /\ Members \in Seq(MemberSet) /\ Others \in Seq(OtherSet) /\ IsInjective(Members)
  /\ Leader \notin MemberSet \cup OtherSet /\ MemberSet \cap OtherSet = {}
  /\ NoJob \notin Jobs

\* What could not run even alone is refused when it is submitted.
ASSUME FitsAlone == \A a \in Asks, j \in Jobs : a.need[j] \in 1 .. N

VARIABLES
  job,   \* the job table: state, JOB_COMPLETING flag, pack_leader, node bitmaps
  node,  \* the node table: run_job_cnt and comp_job_cnt
  list,  \* the leader's depend_list (there = it is not NULL)
  twice, \* history: nodes taken a second time from a job that had ended
  ask    \* what the jobs ask for; batch = the pack was submitted by sbatch

pack_vars == <<job, node, list, twice, ask>>

\* The controller's tables, as the handlers pass them on.
Tables == [job |-> job, node |-> node, list |-> list, twice |-> twice]

Become(w) == /\ job' = w.job /\ node' = w.node /\ list' = w.list
             /\ twice' = w.twice /\ UNCHANGED ask

\* A loop over a list of n entries, one after the other.
Loop(Body(_, _), w, n) ==
  LET after[i \in 0 .. n] == IF i = 0 THEN w ELSE Body(after[i - 1], i)
  IN  after[n]

Found(w, j) == w.job[j].state \notin {"none", "purged"}   \* find_job_record

-----------------------------------------------------------------------------
(* Nodes.                                                                  *)

\* make_node_alloc, on each of the nodes ns.
make_node_alloc(w, ns) ==
  [w EXCEPT !.node = [n \in Nodes |->
     IF n \in ns THEN [w.node[n] EXCEPT !.run = @ + 1] ELSE w.node[n]]]

\* make_node_comp, on each of the nodes ns: a count at zero stays there (the
\* code logs an underflow); a pack job that is backed out runs no epilog.
make_node_comp(w, ns, pack) ==
  [w EXCEPT !.node = [n \in Nodes |->
     IF n \in ns
     THEN [run |-> IF w.node[n].run > 0 THEN w.node[n].run - 1 ELSE 0,
           comp |-> IF pack THEN w.node[n].comp ELSE w.node[n].comp + 1]
     ELSE w.node[n]]]

idle_nodes(w) == {n \in Nodes : w.node[n].run = 0 /\ w.node[n].comp = 0}

\* Mutant: some node is always taken for busy.
NeverIdle(w) == FALSE

\* No node is allocated or completing.
is_cluster_idle(w) == idle_nodes(w) = Nodes

\* The select plugin's choice: the k lowest of the nodes ns.
Lowest(ns, k) == {n \in ns : Cardinality({m \in ns : m < n}) < k}

\* The nodes of an ending job become completing: build_cg_bitmap copies the
\* node bitmap, deallocate_nodes passes each of its nodes to make_node_comp and
\* asks its slurmd to kill the job and run the epilog.
deallocate_nodes(w, j) ==
  LET ns == w.job[j].nodes IN
  make_node_comp([w EXCEPT !.job[j] = [@ EXCEPT !.state = "ENDED", !.cg = ns,
                                                !.completing = ns # {}]],
                 ns, FALSE)

-----------------------------------------------------------------------------
(* Ending one job.                                                         *)

Ended(w, j) == [w EXCEPT !.job[j].state = "ENDED"]

\* A cancelled pending job holds nothing; a running one gives its nodes up.
_job_signal(w, j) ==
  CASE w.job[j].state = "PENDING" -> Ended(w, j)
    [] w.job[j].state = "RUNNING" -> deallocate_nodes(w, j)
    [] OTHER -> w

\* The completion of a batch job that is pending is taken for a late report on
\* an earlier run and ignored.
_job_complete(w, j) ==
  CASE w.job[j].state = "PENDING" /\ ~ask.batch -> Ended(w, j)
    [] w.job[j].state = "RUNNING" -> deallocate_nodes(w, j)
    [] OTHER -> w

\* Called by the leader's time limit on each of its members in whatever state
\* it is.  A purged record has no details and is left alone.
_job_timed_out(w, j) ==
  IF ~ Found(w, j) THEN w
  ELSE [deallocate_nodes(w, j) EXCEPT
          !.twice = IF w.job[j].state = "RUNNING" THEN @
                    ELSE @ \cup w.job[j].nodes]

-----------------------------------------------------------------------------
(* The leader's depend_list.                                               *)

\* deps has the entries of the list, by the place of the job among the members.
NoList == [there |-> FALSE, deps |-> [i \in {} |-> {}]]

\* The entries a loop over depend_list reaches that breaks at a NULL pointer.
Reached(w) ==
  LET deps == w.list.deps
      nulls == {i \in DOMAIN deps : ~ deps[i].found}
  IN  {i \in DOMAIN deps : \A k \in nulls : i < k}

\* test_job_dependency of the leader looks each member up again: a member whose
\* record was purged is NULL from then on.
RefreshList(w) ==
  [w EXCEPT !.list.deps =
     [i \in DOMAIN w.list.deps |->
        [w.list.deps[i] EXCEPT !.found = Found(w, Members[i])]]]

\* One member back to PENDING; its node_bitmap stays as it was.
_deallocate_jpck(w, j) ==
  make_node_comp([w EXCEPT !.job[j].state = "PENDING"], w.job[j].nodes, TRUE)

\* Mutant: alloc stays set after the nodes were given back.
DeallocateAgain(w, i) ==
  IF i \in Reached(w) /\ w.list.deps[i].alloc
  THEN _deallocate_jpck(w, Members[i]) ELSE w

\* The body of the loop of _deallocate_packmbrs.
DeallocateEntry(w, i) ==
  IF i \in Reached(w) /\ w.list.deps[i].alloc
  THEN [_deallocate_jpck(w, Members[i]) EXCEPT !.list.deps[i].alloc = FALSE]
  ELSE w

_deallocate_packmbrs(w) == Loop(DeallocateEntry, w, Len(Members))

\* The pack can never run: its members no longer know their leader, and the
\* list is freed.
_orphan_members(w) ==
  LET mine == {Members[i] : i \in {k \in DOMAIN w.list.deps : w.list.deps[k].found}}
  IN  [w EXCEPT !.job = [j \in Jobs |->
                           IF j \in mine THEN [w.job[j] EXCEPT !.leader = NoJob]
                           ELSE w.job[j]],
                !.list = NoList]

-----------------------------------------------------------------------------
(* Allocation.                                                             *)

\* select_nodes_pack, the part that succeeds: whatever state the job was in, it
\* runs now.
StartJob(w, j) ==
  LET ns == Lowest(idle_nodes(w), ask.need[j]) IN
  make_node_alloc([w EXCEPT !.job[j] =
                     [@ EXCEPT !.state = "RUNNING", !.completing = FALSE,
                               !.nodes = ns, !.cnt = Cardinality(ns)]], ns)

Fits(w, j) == Cardinality(idle_nodes(w)) >= ask.need[j]

\* The nodes a leader could ever have: not those its members hold now.
LeaderNodes(w) ==
  Nodes \ UNION {w.job[Members[i]].nodes : i \in DOMAIN w.list.deps}

\* A leader that does not fit beside its members, even on an empty cluster.
_will_jpck_ldr_run(w) == Cardinality(LeaderNodes(w)) >= ask.need[Leader]

\* The result of an attempt: the code returned and the tables after it.
Result(rc, w) == [rc |-> rc, w |-> w]

\* select_nodes_pack for a job of no pack.
select_nodes_other(w, j, test_only) ==
  IF Fits(w, j) THEN Result("SUCCESS", IF test_only THEN w ELSE StartJob(w, j))
  ELSE Result("NODES_BUSY", w)

\* One member in the loop of _allocate_packmbrs, unless the loop has ended.
AllocateEntry(r, i) ==
  LET out == _deallocate_packmbrs(r.w)
  IN  IF r.rc # "SUCCESS" \/ i \notin DOMAIN r.w.list.deps THEN r
      ELSE IF ~ r.w.list.deps[i].found THEN Result("BAD_MEMBER", r.w)
      ELSE IF Fits(r.w, Members[i])
      THEN Result("SUCCESS", [StartJob(r.w, Members[i]) EXCEPT
                                !.list.deps[i].alloc = TRUE])
      ELSE IF is_cluster_idle(out) THEN Result("NEVER_RUN", _orphan_members(out))
      ELSE Result("NODES_BUSY", out)

_allocate_packmbrs(w) == Loop(AllocateEntry, Result("SUCCESS", w), Len(Members))

\* select_nodes_pack for the leader, its members allocated.
select_nodes_leader(w, test_only) ==
  IF Fits(w, Leader)
  THEN Result("SUCCESS", IF test_only THEN w ELSE StartJob(w, Leader))
  ELSE IF _will_jpck_ldr_run(w) THEN Result("NODES_BUSY", w)
  ELSE Result("CONFIG_UNAVAILABLE", _orphan_members(_deallocate_packmbrs(w)))

\* Mutant: the members keep their nodes when the leader does not fit.
SelectKeepsMembers(w, test_only) ==
  IF ~ w.list.there \/ DOMAIN w.list.deps = {} THEN Result("BAD_DEPENDENCY", w)
  ELSE LET mbrs == _allocate_packmbrs(w)
           all == select_nodes_leader(mbrs.w, test_only)
       IN  IF mbrs.rc # "SUCCESS"
           THEN Result(mbrs.rc, _deallocate_packmbrs(mbrs.w))
           ELSE IF all.rc = "SUCCESS" /\ test_only
           THEN Result(all.rc, _deallocate_packmbrs(all.w))
           ELSE all

\* select_nodes for the leader: the members first, and back out what they got
\* unless the leader starts as well.
select_nodes(w, test_only) ==
  IF ~ w.list.there \/ DOMAIN w.list.deps = {} THEN Result("BAD_DEPENDENCY", w)
  ELSE LET mbrs == _allocate_packmbrs(w)
           all == select_nodes_leader(mbrs.w, test_only)
       IN  IF mbrs.rc # "SUCCESS"
           THEN Result(mbrs.rc, _deallocate_packmbrs(mbrs.w))
           ELSE IF all.rc # "SUCCESS" \/ test_only
           THEN Result(all.rc, _deallocate_packmbrs(all.w))
           ELSE all

-----------------------------------------------------------------------------
(* Killing a pack.                                                         *)

SignalEntry(w, i) == IF i \in Reached(w) THEN _job_signal(w, Members[i]) ELSE w

\* Every member up to the first NULL pointer, then the leader.  Without a list
\* only the leader.
_kill_job_pack(w) == _job_signal(Loop(SignalEntry, w, Len(Members)), Leader)

job_signal(w, j) ==
  IF w.job[j].leader = Leader THEN _kill_job_pack(w) ELSE _job_signal(w, j)

-----------------------------------------------------------------------------
(* Submission.                                                             *)

\* sbatch, salloc and srun submit the members of a pack one after the other.
\* Nothing is allocated: a member depends on its leader for ever.
submit_member(i) ==
  /\ job[Members[i]].state = "none"
  /\ \A k \in 1 .. i - 1 : job[Members[k]].state # "none"
  /\ Become([Tables EXCEPT !.job[Members[i]].state = "PENDING"])

\* update_job_dependency and _xref_packleader: a member without a record is
\* left out of the list, the others learn who leads them, ended ones included.
XrefPackleader(w) ==
  LET found == {i \in DOMAIN Members : Found(w, Members[i])} IN
  [w EXCEPT
     !.job = [j \in Jobs |-> IF j = Leader \/ \E i \in found : Members[i] = j
                             THEN [w.job[j] EXCEPT !.leader = Leader]
                             ELSE w.job[j]],
     !.list = [there |-> TRUE,
               deps |-> [i \in found |-> [found |-> TRUE, alloc |-> FALSE]]]]

\* The leader: job_allocate tries the pack at once, for a batch job (and where a
\* job of a higher priority waits) without keeping the nodes.  A pack that can
\* not run is refused, its record stays until it is purged.
submit_leader(no_alloc) ==
  /\ job[Leader].state = "none"
  /\ \A m \in MemberSet : job[m].state # "none"
  /\ ask.batch => no_alloc
  /\ LET w == XrefPackleader([Tables EXCEPT !.job[Leader].state = "PENDING"])
         r == select_nodes(w, no_alloc)
     IN  Become(IF r.rc \in {"SUCCESS", "NODES_BUSY"} THEN r.w
                ELSE Ended(r.w, Leader))

submit_other(j, no_alloc) ==
  /\ job[j].state = "none"
  /\ Become(select_nodes_other([Tables EXCEPT !.job[j].state = "PENDING"],
                               j, no_alloc).w)

-----------------------------------------------------------------------------
(* The main scheduling loop, on one job of its queue.                      *)

schedule_other(j) ==
  /\ job[j].state = "PENDING"
  /\ Become(select_nodes_other(Tables, j, FALSE).w)

\* What the pack can not recover from kills it; the leader has FAILED.
LeaderScheduled(w) ==
  LET r == select_nodes(RefreshList(w), FALSE)
  IN  IF r.rc \in {"SUCCESS", "NODES_BUSY"} THEN r.w
      ELSE Ended(job_signal(r.w, Leader), Leader)

\* Mutant: a leader that was cancelled since the queue was built is scheduled.
ScheduleEnded == Found(Tables, Leader) /\ Become(LeaderScheduled(Tables))

schedule_leader ==
  /\ job[Leader].state = "PENDING"
  /\ Become(LeaderScheduled(Tables))

-----------------------------------------------------------------------------
(* Cancellation, completion, time limits.                                  *)

\* job_str_signal with SIGKILL.  A member that knows its leader is refused
\* without --pack-member, and with it is first removed from the pack.
scancel(j, pack_member) ==
  /\ Found(Tables, j)
  /\ j \in MemberSet /\ job[j].leader # NoJob => pack_member
  /\ Become(job_signal(IF j \in MemberSet
                       THEN [Tables EXCEPT !.job[j].leader = NoJob]
                       ELSE Tables, j))

\* job_complete for a member: one that sbatch started waits for its leader.
complete_member(j) ==
  /\ Found(Tables, j) /\ ~ ask.batch
  /\ Become(_job_complete(Tables, j))

complete_other(j) == Found(Tables, j) /\ Become(_job_complete(Tables, j))

CompleteEntry(w, i) ==
  IF i \in DOMAIN w.list.deps THEN _job_complete(w, Members[i]) ELSE w

\* job_complete for the leader ends its members as well, except where srun's
\* leader returns zero: then they end in their own time.  The loop follows the
\* pointers of the list without a test: with a NULL one (a pending leader, a
\* member purged) slurmctld stops, and there is no step.
LeaderCompleted(w, rc) ==
  _job_complete(IF ask.batch \/ rc # 0 THEN Loop(CompleteEntry, w, Len(Members)) ELSE w,
                Leader)

complete_leader(rc) ==
  /\ Found(Tables, Leader)
  /\ \A i \in DOMAIN list.deps : list.deps[i].found
  /\ Become(LeaderCompleted(Tables, rc))

\* The node is done with the job: the last one the job waits for ends its
\* JOB_COMPLETING (cleanup_completing).
make_node_idle(w, j, n) ==
  LET r == w.job[j] IN
  [w EXCEPT !.job[j] = [r EXCEPT !.cg = r.cg \ {n},
                                 !.cnt = IF r.cnt > 0 THEN r.cnt - 1 ELSE 0,
                                 !.completing = r.completing /\ r.cnt # 1],
            !.node[n].comp = IF @ > 0 THEN @ - 1 ELSE 0]

\* The epilog of job j has run on node n.  Reports for a node the job does not
\* wait for are replays and change nothing.
job_epilog_complete(j, n) ==
  /\ job[j].state = "ENDED" /\ n \in job[j].cg
  /\ Become(make_node_idle(Tables, j, n))

TimeOutEntry(w, i) ==
  IF i \in DOMAIN w.list.deps /\ w.list.deps[i].found
  THEN _job_timed_out(w, Members[i]) ELSE w

\* One job in the pass over job_list: it must be running; the time limit of a
\* leader is also that of its members.
TimeOut(w, j) ==
  IF w.job[j].state # "RUNNING" THEN w
  ELSE IF j # Leader THEN _job_timed_out(w, j)
  ELSE Loop(TimeOutEntry, _job_timed_out(w, Leader), Len(Members))

\* One pass of job_time_limit, in the order of submission, when the jobs late
\* have come to the end of their time.
job_time_limit(late) ==
  LET job_list == Members \o <<Leader>> \o Others
      after[i \in 0 .. Len(job_list)] ==
        IF i = 0 THEN Tables
        ELSE IF job_list[i] \in late THEN TimeOut(after[i - 1], job_list[i])
        ELSE after[i - 1]
  IN  Become(after[Len(job_list)])

-----------------------------------------------------------------------------
(* The periodic purge.                                                     *)

\* Mutant: a leader that is gone is not looked for.
InvalidIfOrphan(w, m, old) ==
  w.job[m].state = "PENDING" /\ w.job[m].leader = NoJob /\ m \in old

\* test_job_dependency of a pending member: without a leader for too long
\* (old), or with one whose record is gone, it can never run.
Invalid(w, m, old) ==
  /\ w.job[m].state = "PENDING"
  /\ IF w.job[m].leader = NoJob THEN m \in old ELSE ~ Found(w, Leader)

\* purge_old_job: first the dependencies of the pending jobs, then the records
\* of the jobs that ended long ago (old) and have no epilog left to run.
purge_old_job(old) ==
  LET w == IF job[Leader].state = "PENDING" THEN RefreshList(Tables) ELSE Tables
      bad == {m \in MemberSet : Invalid(w, m, old)}
      gone == {j \in old : job[j].state = "ENDED" /\ ~ job[j].completing}
  IN  Become([w EXCEPT !.job =
        [j \in Jobs |->
           IF j \in bad THEN [w.job[j] EXCEPT !.state = "ENDED", !.leader = NoJob]
           ELSE IF j \in gone THEN [w.job[j] EXCEPT !.state = "purged"]
           ELSE w.job[j]]])

-----------------------------------------------------------------------------
NewJob == [state |-> "none", completing |-> FALSE, leader |-> NoJob,
           nodes |-> {}, cg |-> {}, cnt |-> 0]

PackInit ==
  /\ ask \in Asks
  /\ job = [j \in Jobs |-> NewJob]
  /\ node = [n \in Nodes |-> [run |-> 0, comp |-> 0]]
  /\ list = NoList
  /\ twice = {}

PackNext ==
  \/ \E i \in DOMAIN Members : submit_member(i)
  \/ \E no_alloc \in BOOLEAN : submit_leader(no_alloc)
  \/ \E j \in OtherSet, no_alloc \in BOOLEAN : submit_other(j, no_alloc)
  \/ schedule_leader
  \/ \E j \in OtherSet : schedule_other(j)
  \/ \E j \in Jobs, pack_member \in BOOLEAN : scancel(j, pack_member)
  \/ \E j \in MemberSet : complete_member(j)
  \/ \E j \in OtherSet : complete_other(j)
  \/ \E rc \in {0, 1} : complete_leader(rc)
  \/ \E j \in Jobs, n \in Nodes : job_epilog_complete(j, n)
  \/ \E late \in SUBSET {j \in Jobs : job[j].state = "RUNNING"} : job_time_limit(late)
  \/ \E old \in SUBSET {j \in Jobs : job[j].state \in {"PENDING", "ENDED"}} :
       purge_old_job(old)

PackSpec == PackInit /\ [][PackNext]_pack_vars

\* Trying to schedule the leader would change something.
SchedulePays == job[Leader].state = "PENDING" /\ LeaderScheduled(Tables) # Tables

\* The scheduler and the purge run periodically in the background thread; a
\* running job ends in the end, by itself or at its time limit; slurmd runs the
\* epilog and repeats its report until it is acknowledged.  Nobody has to
\* submit, to cancel, or to come back for the leader after the members.  (The
\* first conjunct is weak fairness of schedule_leader with its ENABLED written
\* out, which TLC evaluates faster.)
PackFairness ==
  /\ []<> ~ SchedulePays \/ []<> <<schedule_leader>>_pack_vars
  /\ []<> (job[Leader].state # "RUNNING")
  /\ \A j \in OtherSet : WF_pack_vars(schedule_other(j))
  /\ \A j \in OtherSet : WF_pack_vars(job[j].state = "RUNNING" /\ complete_other(j))
  /\ \A j \in MemberSet : WF_pack_vars(job[j].state = "RUNNING" /\ complete_member(j))
  /\ \A j \in Jobs, n \in Nodes : WF_pack_vars(job_epilog_complete(j, n))
  /\ WF_pack_vars(purge_old_job(Jobs))

PackLiveSpec == PackSpec /\ PackFairness

-----------------------------------------------------------------------------
(* Properties.                                                             *)

\* The shape of the tables.
PackTypeOK ==
  /\ ask \in Asks
  /\ job \in [Jobs -> [state : {"none", "PENDING", "RUNNING", "ENDED", "purged"},
                       completing : BOOLEAN, leader : {NoJob, Leader},
                       nodes : SUBSET Nodes, cg : SUBSET Nodes, cnt : 0 .. N]]
  /\ node \in [Nodes -> [run : Nat, comp : Nat]]
  /\ list.there \in BOOLEAN /\ DOMAIN list.deps \subseteq DOMAIN Members
  /\ list.deps \in [DOMAIN list.deps -> [found : BOOLEAN, alloc : BOOLEAN]]
  /\ twice \subseteq Nodes

\* A pack starts all together: no member runs, or holds a node, while the leader
\* waits, and none is left waiting when the leader runs (_allocate_packmbrs
\* backs out on the first failure, select_nodes when the leader does not fit).
PackTogether ==
  /\ job[Leader].state \in {"none", "PENDING"} =>
       \A m \in MemberSet : job[m].state # "RUNNING"
  /\ job[Leader].state = "RUNNING" =>
       \A i \in DOMAIN list.deps :
         list.deps[i].alloc /\ job[Members[i]].state # "PENDING"

Running(n) == {j \in Jobs : job[j].state = "RUNNING" /\ n \in job[j].nodes}
Completing(n) == {j \in Jobs : job[j].state = "ENDED" /\ n \in job[j].cg}

\* The counters of node n count the jobs on it, and no two jobs share it.
CountsExactOn(n) ==
  /\ node[n].run = Cardinality(Running(n)) /\ node[n].run <= 1
  /\ node[n].comp = Cardinality(Completing(n))

\* run_job_cnt is the "count of jobs running on node" and comp_job_cnt the
\* "count of jobs completing on node" (node_conf.h), after every allocation,
\* back-out, end and epilog.
NodeCounts == \A n \in Nodes : CountsExactOn(n)

\* As NodeCounts, on every node that the time limit of a leader has not taken
\* from a member that had already ended: backing a pack out, any number of
\* times, gives each node back exactly once.
NodeCountsApart == \A n \in Nodes \ twice : CountsExactOn(n)

\* A pack that waits is decided: it starts, or is found never to run and
\* fails, or is cancelled.  It does not wait for nodes it holds itself.
LeaderDecided == job[Leader].state = "PENDING" ~> job[Leader].state # "PENDING"

\* A job that has ended does not come back, however late a report, a scheduling
\* pass or a time limit reaches it.  The exception is a member that ended on its
\* own before the leader starts: select_nodes_pack does not look at its state and
\* starts it with the pack, or backs it out to PENDING.
NoRevival ==
  [][\A j \in Jobs : job[j].state = "ENDED" /\ job'[j].state \in {"PENDING", "RUNNING"}
        => /\ j \in MemberSet
           /\ job[Leader].state = "PENDING" \/ job[Leader] # job'[Leader]
           /\ job[Leader].state \in {"none", "PENDING"}]_pack_vars

Over(j) == job[j].state \in {"ENDED", "purged"}

\* No member outlives its pack for ever: a member without a leader, because it
\* was never submitted, was refused, failed, completed or was cancelled, ends.
MembersEnd ==
  LET led == job[Leader].state \in {"PENDING", "RUNNING"}
  IN  \A m \in MemberSet : (job[m].state # "none" /\ ~ led) ~> (Over(m) \/ led)

=============================================================================
