----------------------------- MODULE TreeProofs -----------------------------
(***************************************************************************)
(* Proofs about the two trees of nodes: the one that reports the end of a  *)
(* step to slurmctld (module StepComplete), for any number of nodes and any *)
(* tree, and the one a message goes down (module MsgTree, its head), for   *)
(* any finite set of hosts and any split of it into branches.              *)
(***************************************************************************)
EXTENDS StepComplete, MsgTree, FiniteSetTheorems, WellFoundedInduction, TLAPS

\* Zenon proves most leaves; a leaf that needs arithmetic names SMT.
USE Zenon

(* The end of a step                                                         *)

\* What a slurmstepd has learned lies below it and has exited.
Learned ==
    \A r \in Rank : /\ bits[r] \subseteq exited \cap Below(r)
                    /\ stepd[r] = "absent" => bits[r] = {}

\* What it has yet to report it learned, or is its own.
Owed ==
    \A r \in Rank : /\ unsent[r] \subseteq bits[r] \cup {r}
                    /\ unsent[r] # {} => stepd[r] \in {"send", "dead"} /\ r \in exited
                    /\ stepd[r] \in {"wait", "send", "done"} => r \in exited

\* A request is about ranks that have exited, of the tree of its sender.
Requested ==
    \A m \in net : /\ SentRange(m) \subseteq exited \cap ({m.from} \cup Below(m.from))
                   /\ m.to # Ctld => m.to = parent_rank[m.from]

\* slurmctld counts exited ranks, and keeps the record until it has them all.
Counted == exit_bits \subseteq exited /\ (step = "complete" => exit_bits = Rank)

\* What a reporting slurmstepd no longer owes is with its parent or slurmctld.
HandedOver ==
    \A r \in Rank : stepd[r] \in {"send", "done"} =>
        \A x \in bits[r] \cup {r} :
            \/ x \in unsent[r]
            \/ x \in exit_bits
            \/ parent_rank[r] # -1 /\ x \in bits[parent_rank[r]]

\* The inductive invariant.
StepInv == TypeOK /\ Learned /\ Owed /\ Requested /\ Counted /\ HandedOver
-----------------------------------------------------------------------------
\* Below and Ctld: the tree facts that the proofs use.
LEMMA TreeFacts ==
    /\ Rank \subseteq Nat /\ Ctld \notin Rank
    /\ \A r \in Rank : Below(r) \subseteq Rank /\ r \notin Below(r)
    /\ \A r \in Rank : parent_rank[r] # -1 =>
        /\ parent_rank[r] \in Rank /\ parent_rank[r] < r
        /\ {r} \cup Below(r) \subseteq Below(parent_rank[r])
  <1>1. nnodes \in Nat  BY TreeAssumption
  <1>2. Rank \subseteq Nat /\ Ctld \notin Rank  BY SMT, <1>1 DEF Rank, Ctld
  <1>3. \A r \in Rank : Below(r) \subseteq Rank /\ r \notin Below(r)
    BY SMT, <1>2, TreeAssumption DEF Below
  <1>4. ASSUME NEW r \in Rank, parent_rank[r] # -1
        PROVE  /\ parent_rank[r] \in Rank /\ parent_rank[r] < r
               /\ {r} \cup Below(r) \subseteq Below(parent_rank[r])
    <2>1. parent_rank[r] \in Rank /\ {r} \cup Below(r) \subseteq Below(parent_rank[r])
      BY <1>4, TreeAssumption
    <2>2. r \in Below(parent_rank[r])  BY <2>1
    <2>3. children[parent_rank[r]] \in Nat  BY <2>1, TreeAssumption
    <2>4. \A x \in Rank : x \in Int  BY SMT, <1>1 DEF Rank
    <2>5. r \in (parent_rank[r] + 1)..(parent_rank[r] + children[parent_rank[r]])
      BY <2>2 DEF Below
    <2>6. parent_rank[r] < r  BY SMT, <1>4, <2>1, <2>3, <2>4, <2>5
    <2> QED BY <2>1, <2>6
  <1> QED BY <1>2, <1>3, <1>4

\* NextRange: what a slurmstepd reports it owes.
LEMMA RangeOwed ==
    ASSUME TypeOK, NEW r \in Rank, NEW first \in Rank, NEW last \in Rank,
           NextRange(r, first, last)
    PROVE  first..last \subseteq unsent[r] \cup {r}
  <1>1. unsent[r] \subseteq Rank /\ r \in Nat /\ first \in Nat /\ last \in Nat
    BY TreeFacts DEF TypeOK
  <1>2. CASE first = r /\ last > r /\ IsRange(r, r + 1, last)
    <2>1. (r + 1)..last \subseteq unsent[r]  BY <1>2 DEF IsRange
    <2>2. \A x \in first..last : x = r \/ x \in (r + 1)..last  BY SMT, <1>1, <1>2
    <2> QED BY <2>1, <2>2
  <1>3. CASE first > r + 1 /\ IsRange(r, first, last)
    BY <1>3 DEF IsRange
  <1>4. CASE first = r /\ last = r /\ unsent[r] = {r}
    BY SMT, <1>1, <1>4
  <1> QED BY <1>2, <1>3, <1>4 DEF NextRange
-----------------------------------------------------------------------------
\* Init.
LEMMA InitStepInv == Init => StepInv
  <1> SUFFICES ASSUME Init PROVE StepInv  OBVIOUS
  <1>1. TypeOK  BY SMT, StepAssumption DEF Init, TypeOK
  <1>2. Learned /\ Owed  BY DEF Init, Learned, Owed
  <1>3. Requested /\ Counted  BY DEF Init, Requested, Counted
  <1>4. HandedOver  BY DEF Init, HandedOver
  <1> QED BY <1>1, <1>2, <1>3, <1>4 DEF StepInv

\* Steps that leave all variables as they are.
LEMMA StutterStepInv == StepInv /\ UNCHANGED vars => StepInv'
  <1> SUFFICES ASSUME StepInv, UNCHANGED vars PROVE StepInv'  OBVIOUS
  <1> USE DEF vars, ranks, ctld, StepInv
  <1>1. TypeOK'  BY DEF TypeOK
  <1>2. Learned' /\ Owed'  BY DEF Learned, Owed
  <1>3. Requested' /\ Counted'  BY DEF Requested, Counted
  <1>4. HandedOver'  BY DEF HandedOver
  <1> QED BY <1>1, <1>2, <1>3, <1>4

\* start: the slurmstepd has learned nothing yet.
LEMMA StartInv == ASSUME NEW r \in Rank, StepInv, start(r) PROVE StepInv'
  <1> USE DEF StepInv, start, ctld
  <1>1. TypeOK'  BY DEF TypeOK
  <1>2. stepd'[r] = "run" /\ \A x \in Rank : x # r => stepd'[x] = stepd[x]
    BY DEF TypeOK
  <1>3. Learned'  BY <1>2 DEF Learned
  <1>4. Owed'  BY <1>2 DEF Owed
  <1>5. Requested' /\ Counted'  BY DEF Requested, Counted
  <1>6. HandedOver'  BY <1>2 DEF HandedOver
  <1> QED BY <1>1, <1>3, <1>4, <1>5, <1>6

\* tasks_end: one more rank has exited.
LEMMA TasksEndInv == ASSUME NEW r \in Rank, StepInv, tasks_end(r) PROVE StepInv'
  <1> USE DEF StepInv, tasks_end, ctld
  <1>1. TypeOK'  BY DEF TypeOK
  <1>2. /\ stepd'[r] = "wait" /\ \A x \in Rank : x # r => stepd'[x] = stepd[x]
        /\ exited \subseteq exited' /\ r \in exited'
    BY DEF TypeOK
  <1>3. Learned'  BY <1>2 DEF Learned
  <1>4. Owed'  BY <1>2 DEF Owed
  <1>5. Requested' /\ Counted'  BY DEF Requested, Counted
  <1>6. HandedOver'  BY <1>2 DEF HandedOver
  <1> QED BY <1>1, <1>3, <1>4, <1>5, <1>6

\* < on the natural numbers, as a relation.
NatRel == {p \in Nat \X Nat : p[1] < p[2]}

\* A set of natural numbers has a least element.
LEMMA Least ==
    ASSUME NEW T, T \subseteq Nat, T # {}
    PROVE  \E x \in T : \A y \in T : x <= y
  <1>1. OpToRel(<, Nat) = NatRel  BY DEF OpToRel, NatRel
  <1>2. IsWellFoundedOn(NatRel, Nat)  BY <1>1, NatLessThanWellFounded
  <1>3. \E x \in T : \A y \in T : ~ (<<y, x>> \in NatRel)  BY <1>2, WFMin
  <1>4. ASSUME NEW x \in Nat, NEW y \in Nat, <<y, x>> \notin NatRel PROVE x <= y
    <2> SUFFICES ASSUME y < x PROVE FALSE  BY SMT
    <2> QED BY <1>4 DEF NatRel
  <1> QED BY <1>3, <1>4

\* A bounded set of natural numbers has a greatest element.
LEMMA Greatest ==
    ASSUME NEW n \in Nat, NEW T, T \subseteq 0..n, T # {}
    PROVE  \E x \in T : \A y \in T : x >= y
  <1> DEFINE D == {n - y : y \in T}
  <1>1. D \subseteq Nat /\ D # {}
    <2>1. \A y \in T : n - y \in Nat  BY SMT
    <2>2. D # {}  OBVIOUS
    <2> QED BY <2>1, <2>2
  <1>2. PICK d \in D : \A y \in D : d <= y  BY <1>1, Least
  <1>3. PICK x \in T : d = n - x  OBVIOUS
  <1>4. ASSUME NEW y \in T PROVE x >= y
    <2>1. n - y \in D  OBVIOUS
    <2>2. n - x <= n - y  BY <1>2, <1>3, <2>1
    <2> QED BY SMT, <2>2
  <1> QED BY <1>4

\* _get_exit_code returns a status.
LEMMA ExitCodeType ==
    ASSUME NEW r \in Rank, TypeOK PROVE _get_exit_code(r) \in Nat
  <1> DEFINE signaled == {i \in DOMAIN task[r] : task[r][i].how = "signaled"}
             exits == {i \in DOMAIN task[r] : task[r][i].how = "exited"}
             s == CHOOSE i \in signaled : \A j \in signaled : i <= j
             e == CHOOSE i \in exits : \A j \in exits : i >= j
  <1>1. task[r] \in Seq(Task) /\ task[r] # << >>  BY StepAssumption
  <1>2. Len(task[r]) \in Nat /\ DOMAIN task[r] = 1..Len(task[r])  BY SMT, <1>1
  <1>3. \A i \in DOMAIN task[r] : task[r][i] \in Task  BY SMT, <1>1, <1>2
  <1>4. \A i \in DOMAIN task[r] : task[r][i].estatus \in Nat  BY <1>3 DEF Task
  <1>5. 1 \in DOMAIN task[r]  BY SMT, <1>1, <1>2
  <1>6. step_rc[r] \in Nat  BY DEF TypeOK
  <1>7. signaled # {} => s \in DOMAIN task[r]
    <2>1. signaled \subseteq Nat  BY SMT, <1>2
    <2>2. signaled # {} => \E i \in signaled : \A j \in signaled : i <= j
      BY <2>1, Least
    <2> QED BY <2>2
  <1>8. exits # {} => e \in DOMAIN task[r]
    <2>1. exits \subseteq 0..Len(task[r])  BY SMT, <1>2
    <2>2. exits # {} => \E i \in exits : \A j \in exits : i >= j
      BY <1>2, <2>1, Greatest
    <2> QED BY <2>2
  <1>9. _get_exit_code(r) = IF signaled # {} THEN task[r][s].estatus
                            ELSE IF exits # {} THEN MAX(step_rc[r], task[r][e].estatus)
                            ELSE task[r][1].estatus
    BY DEF _get_exit_code
  <1> HIDE DEF signaled, exits, s, e
  <1>10. exits # {} => MAX(step_rc[r], task[r][e].estatus) \in Nat
    BY <1>4, <1>6, <1>8 DEF MAX
  <1> QED BY <1>4, <1>5, <1>7, <1>9, <1>10

\* wait_end: the slurmstepd now owes what it has learned, and itself.
LEMMA WaitEndInv == ASSUME NEW r \in Rank, StepInv, wait_end(r) PROVE StepInv'
  <1> USE DEF StepInv, wait_end, ctld
  <1>1. TypeOK'
    <2>1. _get_exit_code(r) \in Nat  BY ExitCodeType
    <2>2. bits[r] \cup {r} \subseteq Rank  BY DEF TypeOK
    <2> QED BY <2>1, <2>2 DEF TypeOK
  <1>2. /\ stepd[r] = "wait" /\ stepd'[r] = "send" /\ unsent'[r] = bits[r] \cup {r}
        /\ \A x \in Rank : x # r => stepd'[x] = stepd[x] /\ unsent'[x] = unsent[x]
    BY DEF TypeOK
  <1>3. Learned'  BY <1>2 DEF Learned
  <1>4. Owed'  BY <1>2 DEF Owed
  <1>5. Requested' /\ Counted'  BY DEF Requested, Counted
  <1>6. HandedOver'  BY <1>2 DEF HandedOver
  <1> QED BY <1>1, <1>3, <1>4, <1>5, <1>6

\* _one_step_complete_msg: the request is about ranks the sender owes.
LEMMA SendInv == ASSUME NEW r \in Rank, StepInv, Send(r) PROVE StepInv'
  <1> USE DEF StepInv, ctld
  <1>1. PICK f \in Ranges(r) : _one_step_complete_msg(r, f[1], f[2])  BY DEF Send
  <1>2. f[1] \in Rank /\ f[2] \in Rank
    <2>1. PICK i \in 0..children[r], j \in 0..children[r] : f = <<r + i, r + j>>
      BY SMT DEF Ranges
    <2>2. r \in Nat /\ children[r] \in Nat  BY TreeFacts, TreeAssumption
    <2>3. \A k \in 0..children[r] : r + k = r \/ r + k \in Below(r)
      BY SMT, <2>2 DEF Below
    <2> QED BY <2>1, <2>3, TreeFacts
  <1> DEFINE m == [from |-> r, to |-> Dest(r), attempt |-> attempt[r],
                   range_first |-> f[1], range_last |-> f[2], step_rc |-> step_rc[r]]
  <1>3. net' = net \cup {m} /\ stepd[r] = "send" /\ NextRange(r, f[1], f[2])
    BY <1>1 DEF _one_step_complete_msg
  <1>4. Dest(r) = Ctld \/ (Dest(r) = parent_rank[r] /\ parent_rank[r] \in Rank)
    BY TreeFacts DEF Dest
  <1>5. TypeOK'
    <2>1. m \in [from : Rank, to : Rank \cup {Ctld}, attempt : 0..REVERSE_TREE_PARENT_RETRY,
                 range_first : Rank, range_last : Rank, step_rc : Nat]
      BY <1>2, <1>4 DEF TypeOK
    <2> QED BY <1>1, <1>3, <2>1 DEF TypeOK, _one_step_complete_msg
  <1>6. UNCHANGED <<stepd, exited, bits, unsent, exit_bits, exit_code, step>>
    BY <1>1 DEF _one_step_complete_msg
  <1>7. Learned'  BY <1>6 DEF Learned
  <1>8. Owed'  BY <1>6 DEF Owed
  <1>9. Requested'
    <2>1. SentRange(m) \subseteq unsent[r] \cup {r}  BY SMT, <1>2, <1>3, RangeOwed DEF SentRange
    <2>2. SentRange(m) \subseteq exited \cap ({r} \cup Below(r))
      BY <1>3, <2>1 DEF Owed, Learned
    <2>3. m.from = r /\ m.to = Dest(r)  OBVIOUS
    <2> HIDE DEF m
    <2> QED BY <1>3, <1>4, <1>6, <2>2, <2>3 DEF Requested
  <1>10. Counted' /\ HandedOver'  BY <1>6 DEF Counted, HandedOver
  <1> QED BY <1>5, <1>7, <1>8, <1>9, <1>10

\* OneMore: attempts are counted up to the limit.
LEMMA OneMoreType ==
    ASSUME TypeOK, NEW r \in Rank PROVE OneMore(r) \in 0..REVERSE_TREE_PARENT_RETRY
  <1>1. attempt[r] \in 0..REVERSE_TREE_PARENT_RETRY  BY DEF TypeOK
  <1> QED BY SMT, <1>1, StepAssumption DEF OneMore

\* send_timeout: the sender tries again.
LEMMA TimeoutInv == ASSUME NEW r \in Rank, StepInv, send_timeout(r) PROVE StepInv'
  <1> USE DEF StepInv, send_timeout, ctld
  <1>1. TypeOK'  BY OneMoreType DEF TypeOK
  <1>2. Learned' /\ Owed'  BY DEF Learned, Owed
  <1>3. Requested' /\ Counted'  BY DEF Requested, Counted
  <1>4. HandedOver'  BY DEF HandedOver
  <1> QED BY <1>1, <1>2, <1>3, <1>4

\* fail: a dead slurmstepd keeps what it held.
LEMMA FailInv == ASSUME NEW r \in Rank, StepInv, fail(r) PROVE StepInv'
  <1> USE DEF StepInv, fail, ctld
  <1>1. TypeOK'  BY DEF TypeOK
  <1>2. stepd'[r] = "dead" /\ \A x \in Rank : x # r => stepd'[x] = stepd[x]
    BY DEF TypeOK
  <1>3. Learned'  BY <1>2 DEF Learned
  <1>4. Owed'  BY <1>2 DEF Owed
  <1>5. Requested' /\ Counted'  BY DEF Requested, Counted
  <1>6. HandedOver'  BY <1>2 DEF HandedOver
  <1> QED BY <1>1, <1>3, <1>4, <1>5, <1>6

\* The reply to a request: what the sender's variables may become.
LEMMA ReplyType ==
    ASSUME TypeOK, NEW m \in net, Taken(m) \/ Refused(m) \/ NoReply
    PROVE  /\ stepd' \in [Rank -> {"absent", "run", "wait", "send", "done", "dead"}]
           /\ unsent' \in [Rank -> SUBSET Rank]
           /\ attempt' \in [Rank -> 0..REVERSE_TREE_PARENT_RETRY]
           /\ awaiting' \in [Rank -> {"no", "reply"}]
  <1>1. m.from \in Rank  BY DEF TypeOK
  <1>2. OneMore(m.from) \in 0..REVERSE_TREE_PARENT_RETRY  BY <1>1, OneMoreType
  <1>3. 0 \in 0..REVERSE_TREE_PARENT_RETRY  BY SMT, StepAssumption
  <1>4. CASE Taken(m)
    <2>1. unsent[m.from] \ SentRange(m) \subseteq Rank  BY <1>1 DEF TypeOK
    <2> QED BY <1>1, <1>3, <1>4, <2>1 DEF Taken, TypeOK
  <1>5. CASE Refused(m)  BY <1>1, <1>2, <1>5 DEF Refused, TypeOK
  <1>6. CASE NoReply  BY <1>6 DEF NoReply, TypeOK
  <1> QED BY <1>4, <1>5, <1>6

\* Taken: the sender owes the range no longer.
LEMMA TakenFacts ==
    ASSUME TypeOK, NEW m \in net, Taken(m)
    PROVE  /\ m.from \in Rank /\ stepd[m.from] = "send"
           /\ unsent'[m.from] = unsent[m.from] \ SentRange(m)
           /\ \/ stepd'[m.from] = "send"
              \/ stepd'[m.from] = "done" /\ unsent'[m.from] = {}
           /\ \A x \in Rank : x # m.from => stepd'[x] = stepd[x] /\ unsent'[x] = unsent[x]
  <1>1. m.from \in Rank  BY DEF TypeOK
  <1>2. stepd[m.from] = "send"  BY DEF Taken, Expects
  <1>3. unsent'[m.from] = unsent[m.from] \ SentRange(m)  BY <1>1 DEF Taken, TypeOK
  <1>4. stepd'[m.from] = IF unsent[m.from] \subseteq SentRange(m) THEN "done" ELSE "send"
    BY <1>1 DEF Taken, TypeOK
  <1>5. \A x \in Rank : x # m.from => stepd'[x] = stepd[x] /\ unsent'[x] = unsent[x]
    BY <1>1 DEF Taken, TypeOK
  <1> QED BY <1>1, <1>2, <1>3, <1>4, <1>5

\* A reply leaves what the slurmstepds owe among what they have learned.
LEMMA ReplyOwed ==
    ASSUME StepInv, NEW m \in net, Taken(m) \/ Refused(m) \/ NoReply,
           exited' = exited,
           \A r \in Rank : bits[r] \subseteq bits'[r]
    PROVE  Owed'
  <1> USE DEF StepInv
  <1>1. CASE Taken(m)
    <2>1. Owed /\ TypeOK  OBVIOUS
    <2> HIDE DEF StepInv
    <2>2. /\ stepd[m.from] = "send" /\ unsent'[m.from] \subseteq unsent[m.from]
          /\ \/ stepd'[m.from] = "send"
             \/ stepd'[m.from] = "done" /\ unsent'[m.from] = {}
          /\ \A x \in Rank : x # m.from => stepd'[x] = stepd[x] /\ unsent'[x] = unsent[x]
      BY <1>1, <2>1, TakenFacts
    <2> SUFFICES ASSUME NEW r \in Rank
                 PROVE  /\ unsent'[r] \subseteq bits'[r] \cup {r}
                        /\ unsent'[r] # {} => stepd'[r] \in {"send", "dead"} /\ r \in exited'
                        /\ stepd'[r] \in {"wait", "send", "done"} => r \in exited'
      BY DEF Owed
    <2>3. CASE r = m.from  BY <2>1, <2>2, <2>3 DEF Owed
    <2>4. CASE r # m.from  BY <2>1, <2>2, <2>4 DEF Owed
    <2> QED BY <2>3, <2>4
  <1>2. CASE Refused(m)  BY <1>2 DEF Refused, Owed
  <1>3. CASE NoReply  BY <1>3 DEF NoReply, Owed
  <1> QED BY <1>1, <1>2, <1>3

\* _handle_completion: the range moves from what the sender owes to the parent's
\* bitmap, and the parent is not reporting yet.
LEMMA HandleInv ==
    ASSUME NEW m \in net, StepInv, _handle_completion(m) PROVE StepInv'
  <1> USE DEF StepInv, ctld
  <1> DEFINE p == m.to
  <1>1. m.from \in Rank /\ p \in Rank /\ p # Ctld /\ stepd[p] \in {"run", "wait"}
    BY DEF TypeOK, _handle_completion
  <1>2. p = parent_rank[m.from] /\ parent_rank[m.from] # -1
    BY <1>1 DEF Requested, Ctld
  <1>3. m.from # p /\ {m.from} \cup Below(m.from) \subseteq Below(p)
    BY <1>1, <1>2, TreeFacts
  <1>4. SentRange(m) \subseteq exited \cap Below(p)  BY <1>3 DEF Requested
  <1>5. /\ bits'[p] = bits[p] \cup SentRange(m) /\ \A x \in Rank : x # p => bits'[x] = bits[x]
        /\ UNCHANGED <<exited, exit_bits, exit_code, step>> /\ net' \subseteq net
        /\ Taken(m) \/ NoReply
    BY <1>1 DEF _handle_completion, TypeOK
  <1>6. TypeOK'
    <2>1. Below(p) \subseteq Rank  BY <1>1, TreeFacts
    <2>2. bits' \in [Rank -> SUBSET Rank]
      BY <1>1, <1>4, <2>1 DEF _handle_completion, TypeOK
    <2>3. MAX(step_rc[p], m.step_rc) \in Nat  BY <1>1 DEF TypeOK, MAX
    <2>4. step_rc' \in [Rank -> Nat]  BY <1>1, <2>3 DEF _handle_completion, TypeOK
    <2> QED BY <1>5, <2>2, <2>4, ReplyType DEF TypeOK
  <1>7. stepd'[p] = stepd[p] /\ \A x \in Rank : stepd'[x] = "absent" => stepd[x] = "absent"
    <2>1. CASE Taken(m)  BY <1>1, <1>3, <2>1, TakenFacts
    <2>2. CASE NoReply  BY <1>1, <2>2 DEF NoReply
    <2> QED BY <1>5, <2>1, <2>2
  <1>8. Learned'  BY <1>1, <1>4, <1>5, <1>7 DEF Learned
  <1>9. Owed'  BY <1>5, ReplyOwed
  <1>10. Requested' /\ Counted'  BY <1>5 DEF Requested, Counted
  <1>11. HandedOver'
    <2> SUFFICES ASSUME NEW r \in Rank, stepd'[r] \in {"send", "done"},
                        NEW x \in bits'[r] \cup {r}
                 PROVE  \/ x \in unsent'[r]
                        \/ x \in exit_bits
                        \/ parent_rank[r] # -1 /\ x \in bits'[parent_rank[r]]
      BY <1>5 DEF HandedOver
    <2>1. r # p /\ bits'[r] = bits[r]  BY <1>1, <1>5, <1>7
    <2>2. parent_rank[r] # -1 => bits[parent_rank[r]] \subseteq bits'[parent_rank[r]]
      BY <1>5, TreeFacts
    <2>3. CASE NoReply
      BY <2>1, <2>2, <2>3 DEF NoReply, HandedOver
    <2>4. CASE Taken(m) /\ r # m.from
      BY <2>1, <2>2, <2>4, TakenFacts DEF HandedOver
    <2>5. CASE Taken(m) /\ r = m.from
      <3>1. \/ x \in unsent[r]
            \/ x \in exit_bits
            \/ parent_rank[r] # -1 /\ x \in bits[parent_rank[r]]
        BY <2>1, <2>5, TakenFacts DEF HandedOver
      <3>2. x \in SentRange(m) => x \in bits'[p]  BY <1>5
      <3> QED BY <1>2, <2>2, <2>5, <3>1, <3>2, TakenFacts
    <2> QED BY <1>5, <2>3, <2>4, <2>5
  <1> QED BY <1>6, <1>8, <1>9, <1>10, <1>11

\* refuse_completion: nothing is taken, the sender tries again.
LEMMA RefuseInv ==
    ASSUME NEW m \in net, StepInv, refuse_completion(m) PROVE StepInv'
  <1> USE DEF StepInv, ctld
  <1>1. /\ UNCHANGED <<exited, bits, step_rc, exit_bits, exit_code, step>> /\ net' \subseteq net
        /\ Refused(m) \/ NoReply
    BY DEF refuse_completion
  <1>2. UNCHANGED <<stepd, unsent>>  BY <1>1 DEF Refused, NoReply
  <1>3. TypeOK'  BY <1>1, ReplyType DEF TypeOK
  <1>4. Learned' /\ Owed'  BY <1>1, <1>2 DEF Learned, Owed
  <1>5. Requested' /\ Counted'  BY <1>1 DEF Requested, Counted
  <1>6. HandedOver'  BY <1>1, <1>2 DEF HandedOver
  <1> QED BY <1>3, <1>4, <1>5, <1>6

\* step_partial_comp: the range moves from what the sender owes to slurmctld's
\* bitmap, or the bitmap was full and the step is gone.
LEMMA CompleteInv ==
    ASSUME NEW m \in net, StepInv, _slurm_rpc_step_complete(m) PROVE StepInv'
  <1> USE DEF StepInv, ctld
  <1>1. m.from \in Rank /\ m.step_rc \in Nat  BY DEF TypeOK
  <1>2. SentRange(m) \subseteq exited /\ SentRange(m) \subseteq Rank
    BY DEF Requested, TypeOK
  <1>3. /\ UNCHANGED <<exited, bits, step_rc>> /\ net' \subseteq net
        /\ Taken(m) \/ NoReply
    BY DEF _slurm_rpc_step_complete
  <1>4. /\ exit_bits \subseteq exit_bits' /\ SentRange(m) \subseteq exit_bits'
        /\ exit_bits' \subseteq exit_bits \cup SentRange(m)
        /\ step' = "complete" => exit_bits' = Rank
    BY <1>2 DEF _slurm_rpc_step_complete, Counted, TypeOK
  <1>5. exit_code' \in Nat /\ step' \in {"present", "complete"}
    BY <1>1 DEF _slurm_rpc_step_complete, TypeOK, MAX
  <1>6. TypeOK'
    <2>1. exit_bits' \subseteq Rank  BY <1>2, <1>4 DEF TypeOK
    <2> QED BY <1>3, <1>5, <2>1, ReplyType DEF TypeOK
  <1>7. \A x \in Rank : stepd'[x] = "absent" => stepd[x] = "absent"
    <2>1. CASE Taken(m)  BY <2>1, TakenFacts
    <2>2. CASE NoReply  BY <2>2 DEF NoReply
    <2> QED BY <1>3, <2>1, <2>2
  <1>8. Learned'  BY <1>3, <1>7 DEF Learned
  <1>9. Owed'  BY <1>3, ReplyOwed
  <1>10. Requested'  BY <1>3 DEF Requested
  <1>11. Counted'  BY <1>2, <1>3, <1>4 DEF Counted
  <1>12. HandedOver'
    <2> SUFFICES ASSUME NEW r \in Rank, stepd'[r] \in {"send", "done"},
                        NEW x \in bits[r] \cup {r}
                 PROVE  \/ x \in unsent'[r]
                        \/ x \in exit_bits'
                        \/ parent_rank[r] # -1 /\ x \in bits[parent_rank[r]]
      BY <1>3 DEF HandedOver
    <2>1. CASE NoReply  BY <1>4, <2>1 DEF NoReply, HandedOver
    <2>2. CASE Taken(m)
      <3>1. stepd[r] \in {"send", "done"}  BY <2>2, TakenFacts
      <3>2. x \in unsent[r] => x \in unsent'[r] \/ x \in SentRange(m)
        BY <2>2, TakenFacts
      <3> QED BY <1>4, <3>1, <3>2 DEF HandedOver
    <2> QED BY <1>3, <2>1, <2>2
  <1> QED BY <1>6, <1>8, <1>9, <1>10, <1>11, <1>12

\* Every step keeps the invariant.
LEMMA NextStepInv == StepInv /\ [Next]_vars => StepInv'
  <1> SUFFICES ASSUME StepInv, [Next]_vars PROVE StepInv'  OBVIOUS
  <1>1. ASSUME NEW r \in Rank, start(r) PROVE StepInv'  BY <1>1, StartInv
  <1>2. ASSUME NEW r \in Rank, tasks_end(r) PROVE StepInv'  BY <1>2, TasksEndInv
  <1>3. ASSUME NEW r \in Rank, wait_end(r) PROVE StepInv'  BY <1>3, WaitEndInv
  <1>4. ASSUME NEW r \in Rank, Send(r) PROVE StepInv'  BY <1>4, SendInv
  <1>5. ASSUME NEW r \in Rank, send_timeout(r) PROVE StepInv'  BY <1>5, TimeoutInv
  <1>6. ASSUME NEW r \in Rank, fail(r) PROVE StepInv'  BY <1>6, FailInv
  <1>7. ASSUME NEW m \in net, Receive(m) PROVE StepInv'
    BY <1>7, HandleInv, RefuseInv, CompleteInv DEF Receive
  <1>8. CASE UNCHANGED vars  BY <1>8, StutterStepInv
  <1> QED BY <1>1, <1>2, <1>3, <1>4, <1>5, <1>6, <1>7, <1>8 DEF Next
-----------------------------------------------------------------------------
\* The inductive invariant of the completion tree holds throughout.
THEOREM StepInvariant == Spec => []StepInv
  BY InitStepInv, NextStepInv, PTL DEF Spec

\* Types: attempts stay within REVERSE_TREE_PARENT_RETRY and requests name ranks
\* of the step.
THEOREM StepTypes == Spec => []TypeOK
  <1>1. StepInv => TypeOK  BY DEF StepInv
  <1> QED BY <1>1, StepInvariant, PTL

\* step_partial_comp: slurmctld never counts a rank whose tasks still run.
THEOREM StepNoFalseCompletion == Spec => []NoFalseCompletion
  <1>1. StepInv => NoFalseCompletion  BY DEF StepInv, Counted, NoFalseCompletion
  <1> QED BY <1>1, StepInvariant, PTL

\* _handle_completion: bit_nset stays within the bitmap of the receiver.
THEOREM StepInBitmap == Spec => []InBitmap
  <1>1. ASSUME StepInv, NEW m \in net, m.to # Ctld PROVE SentRange(m) \subseteq Below(m.to)
    <2>1. m.to = parent_rank[m.from] /\ SentRange(m) \subseteq {m.from} \cup Below(m.from)
      BY <1>1 DEF StepInv, Requested
    <2>2. m.from \in Rank /\ parent_rank[m.from] # -1
      BY <1>1, <2>1 DEF StepInv, TypeOK, Ctld
    <2> QED BY <2>1, <2>2, TreeFacts
  <1>2. StepInv => InBitmap  BY <1>1 DEF InBitmap
  <1> QED BY <1>2, StepInvariant, PTL

\* _one_step_complete_msg: no completion is lost on its way up, however many
\* levels the tree has.  Among the slurmstepds that hold the completion of a rank
\* the one closest to the root has yet to report it.
THEOREM StepNothingLost == Spec => []NothingLost
  <1>1. ASSUME StepInv, NEW r \in Rank, stepd[r] = "done", r \notin exit_bits
        PROVE  \E a \in Rank : /\ r \in bits[a]
                               /\ \/ stepd[a] \in {"run", "wait", "dead"}
                                  \/ stepd[a] = "send" /\ r \in unsent[a]
    <2> USE <1>1 DEF StepInv
    <2> DEFINE Holders == {a \in Rank : r \in bits[a]}
    <2>1. r \notin unsent[r]  BY DEF Owed
    <2>2. parent_rank[r] # -1 /\ r \in bits[parent_rank[r]]  BY <2>1 DEF HandedOver
    <2>3. Holders \subseteq Nat /\ Holders # {}  BY <2>2, TreeFacts
    <2>4. PICK a \in Holders : \A b \in Holders : a <= b  BY <2>3, Least
    <2>5. ASSUME parent_rank[a] # -1, r \in bits[parent_rank[a]] PROVE FALSE
      <3>1. parent_rank[a] \in Rank /\ parent_rank[a] < a  BY <2>4, <2>5, TreeFacts
      <3>2. a <= parent_rank[a]  BY <2>4, <2>5, <3>1
      <3>3. a \in Nat /\ parent_rank[a] \in Nat  BY <2>4, <3>1, TreeFacts
      <3> QED BY SMT, <3>1, <3>2, <3>3
    <2>6. stepd[a] # "absent"  BY <2>4 DEF Learned
    <2>7. stepd[a] \in {"send", "done"} => r \in unsent[a]
      BY <2>4, <2>5 DEF HandedOver
    <2>8. stepd[a] # "done"  BY <2>4, <2>7 DEF Owed
    <2>9. stepd[a] \in {"run", "wait", "send", "dead"}  BY <2>4, <2>6, <2>8 DEF TypeOK
    <2> QED BY <2>4, <2>7, <2>9
  <1>2. StepInv => NothingLost  BY <1>1 DEF NothingLost
  <1> QED BY <1>2, StepInvariant, PTL

\* _handle_completion: no slurmstepd learns of a completion once it reports.
THEOREM StepNoLateCompletion == Spec => NoLateCompletion
  <1>1. ASSUME StepInv, [Next]_vars, NEW r \in Rank, stepd[r] \in {"send", "done"}
        PROVE  bits'[r] = bits[r]
    <2> USE <1>1 DEF StepInv
    <2>1. CASE bits' = bits  BY <2>1
    <2>2. ASSUME NEW m \in net, _handle_completion(m) PROVE bits'[r] = bits[r]
      BY <2>2 DEF _handle_completion, TypeOK
    <2>3. ASSUME NEW x \in Rank, start(x) \/ tasks_end(x) \/ wait_end(x)
                                 \/ Send(x) \/ send_timeout(x) \/ fail(x)
          PROVE  bits' = bits
      BY <2>3 DEF start, tasks_end, wait_end, Send, _one_step_complete_msg, send_timeout, fail
    <2>4. ASSUME NEW m \in net, refuse_completion(m) \/ _slurm_rpc_step_complete(m)
          PROVE  bits' = bits
      BY <2>4 DEF refuse_completion, _slurm_rpc_step_complete
    <2>5. CASE UNCHANGED vars  BY <2>5 DEF vars, ranks
    <2> QED BY <2>1, <2>2, <2>3, <2>4, <2>5 DEF Next, Receive
  <1>2. StepInv /\ [Next]_vars =>
            [\A r \in Rank : stepd[r] \in {"send", "done"} => bits'[r] = bits[r]]_vars
    BY <1>1
  <1> QED BY <1>2, StepInvariant, PTL DEF Spec, NoLateCompletion
-----------------------------------------------------------------------------
(* Exit codes, for steps with one task on each node that exits by itself.    *)

Code(r) == task[r][1].estatus

OneTaskEach == \A r \in Rank : Len(task[r]) = 1 /\ task[r][1].how = "exited"

\* Every code on the way is at least the code of each rank it stands for.
Codes ==
    /\ \A r \in Rank : \A x \in bits[r] : step_rc[r] >= Code(x)
    /\ \A r \in Rank : unsent[r] # {} \/ stepd[r] = "send" => step_rc[r] >= Code(r)
    /\ \A m \in net : \A x \in SentRange(m) : m.step_rc >= Code(x)
    /\ \A x \in exit_bits : exit_code >= Code(x)

\* MAX is at least each of its arguments.
LEMMA MaxFacts ==
    \A a, b \in Nat : MAX(a, b) \in Nat /\ MAX(a, b) >= a /\ MAX(a, b) >= b
  BY SMT DEF MAX

\* _get_exit_code with one task: the highest code from below, or the task's own.
LEMMA OneTaskCode ==
    ASSUME OneTaskEach, NEW r \in Rank
    PROVE  Code(r) \in Nat /\ _get_exit_code(r) = MAX(step_rc[r], Code(r))
  <1>1. task[r] \in Seq(Task) /\ Len(task[r]) = 1 /\ task[r][1].how = "exited"
    BY StepAssumption DEF OneTaskEach
  <1>2. DOMAIN task[r] = {1} /\ task[r][1] \in Task  BY SMT, <1>1
  <1>3. {i \in DOMAIN task[r] : task[r][i].how = "signaled"} = {}
        /\ {i \in DOMAIN task[r] : task[r][i].how = "exited"} = {1}
    BY <1>1, <1>2
  <1>4. (CHOOSE i \in {1} : \A j \in {1} : i >= j) = 1  BY SMT
  <1>5. _get_exit_code(r) = MAX(step_rc[r], task[r][1].estatus)
    BY <1>3, <1>4 DEF _get_exit_code
  <1>6. task[r][1].estatus \in Nat  BY <1>2 DEF Task
  <1> QED BY <1>5, <1>6 DEF Code

\* _get_exit_code and what a slurmstepd does by itself keep the codes.
LEMMA RankCodes ==
    ASSUME OneTaskEach, StepInv, Codes, NEW r \in Rank,
           start(r) \/ tasks_end(r) \/ wait_end(r) \/ Send(r) \/ send_timeout(r) \/ fail(r)
    PROVE  Codes'
  <1> USE DEF StepInv, ctld
  <1>0. \A x \in Rank : Code(x) \in Nat /\ step_rc[x] \in Nat  BY OneTaskCode DEF TypeOK
  <1>1. CASE start(r) \/ tasks_end(r) \/ send_timeout(r) \/ fail(r)
    <2>1. UNCHANGED <<bits, step_rc, unsent, net, exit_bits, exit_code>>
      BY <1>1 DEF start, tasks_end, send_timeout, fail
    <2>2. \A x \in Rank : stepd'[x] = "send" => stepd[x] = "send"
      BY <1>1 DEF start, tasks_end, send_timeout, fail, TypeOK
    <2> QED BY <2>1, <2>2 DEF Codes
  <1>2. CASE wait_end(r)
    <2>1. /\ step_rc'[r] = MAX(step_rc[r], Code(r))
          /\ \A x \in Rank : x # r => /\ step_rc'[x] = step_rc[x] /\ unsent'[x] = unsent[x]
                                      /\ stepd'[x] = stepd[x]
          /\ UNCHANGED <<bits, net, exit_bits, exit_code>>
      BY <1>2, OneTaskCode DEF wait_end, TypeOK
    <2>2. step_rc'[r] \in Nat /\ step_rc'[r] >= step_rc[r] /\ step_rc'[r] >= Code(r)
      BY <1>0, <2>1, MaxFacts
    <2>3. \A x \in bits[r] : Code(x) \in Nat  BY <1>0 DEF TypeOK
    <2>4. \A x \in bits[r] : step_rc'[r] >= Code(x)
      <3>1. \A x \in bits[r] : step_rc[r] >= Code(x)  BY DEF Codes
      <3>2. step_rc[r] \in Nat  BY <1>0
      <3> HIDE DEF StepInv
      <3> QED BY SMT, <2>2, <2>3, <3>1, <3>2
    <2> QED BY <2>1, <2>2, <2>4 DEF Codes
  <1>3. CASE Send(r)
    <2>1. PICK f \in Ranges(r) : _one_step_complete_msg(r, f[1], f[2])  BY <1>3 DEF Send
    <2> DEFINE m == [from |-> r, to |-> Dest(r), attempt |-> attempt[r],
                     range_first |-> f[1], range_last |-> f[2], step_rc |-> step_rc[r]]
    <2>2. /\ net' = net \cup {m} /\ stepd[r] = "send" /\ NextRange(r, f[1], f[2])
          /\ UNCHANGED <<stepd, bits, step_rc, unsent, exit_bits, exit_code>>
      BY <2>1 DEF _one_step_complete_msg
    <2>3. m \in net'  BY <2>2
    <2>4. m \in [from : Rank, to : Rank \cup {Ctld}, attempt : 0..REVERSE_TREE_PARENT_RETRY,
                 range_first : Rank, range_last : Rank, step_rc : Nat]
      BY <1>3, <2>3, SendInv DEF TypeOK
    <2>5. f[1] \in Rank /\ f[2] \in Rank  BY <2>4
    <2>6. SentRange(m) \subseteq unsent[r] \cup {r}
      <3>1. SentRange(m) = f[1]..f[2]  BY DEF SentRange
      <3>2. f[1]..f[2] \subseteq unsent[r] \cup {r}
        <4> DEFINE a == f[1]
                       b == f[2]
        <4>1. TypeOK /\ a \in Rank /\ b \in Rank /\ NextRange(r, a, b)  BY <2>2, <2>5
        <4> HIDE DEF StepInv, m, a, b
        <4>2. a..b \subseteq unsent[r] \cup {r}  BY <4>1, RangeOwed
        <4> QED BY <4>2 DEF a, b
      <3> QED BY <3>1, <3>2
    <2>7. \A x \in SentRange(m) : step_rc[r] >= Code(x)
      BY <2>2, <2>6 DEF Codes, Owed
    <2>8. m.step_rc = step_rc[r]  OBVIOUS
    <2> HIDE DEF m
    <2> QED BY <2>2, <2>7, <2>8 DEF Codes
  <1> QED BY <1>1, <1>2, <1>3

\* A reply makes no slurmstepd report that did not report before.
LEMMA ReplyCodes ==
    ASSUME StepInv, Codes, NEW m \in net, Taken(m) \/ Refused(m) \/ NoReply
    PROVE  \A r \in Rank : /\ unsent'[r] \subseteq unsent[r]
                           /\ stepd'[r] = "send" => stepd[r] = "send"
  <1> USE DEF StepInv
  <1>1. CASE Taken(m)  BY <1>1, TakenFacts
  <1>2. CASE Refused(m)  BY <1>2 DEF Refused
  <1>3. CASE NoReply  BY <1>3 DEF NoReply
  <1> QED BY <1>1, <1>2, <1>3

\* _handle_completion and step_partial_comp take the highest code.
LEMMA ReceiveCodes ==
    ASSUME OneTaskEach, StepInv, Codes, NEW m \in net, Receive(m)
    PROVE  Codes'
  <1> USE DEF StepInv, ctld
  <1>0. /\ \A x \in Rank : Code(x) \in Nat /\ step_rc[x] \in Nat
        /\ m.step_rc \in Nat /\ exit_code \in Nat
        /\ SentRange(m) \subseteq Rank /\ exit_bits \subseteq Rank
        /\ \A r \in Rank : bits[r] \subseteq Rank
    BY OneTaskCode DEF TypeOK, Requested
  <1>1. CASE refuse_completion(m)
    BY <1>1, ReplyCodes DEF refuse_completion, Codes
  <1>2. CASE _handle_completion(m)
    <2> DEFINE p == m.to
    <2>1. p \in Rank  BY <1>2 DEF _handle_completion, TypeOK
    <2>2. /\ step_rc'[p] = MAX(step_rc[p], m.step_rc) /\ bits'[p] = bits[p] \cup SentRange(m)
          /\ \A x \in Rank : x # p => step_rc'[x] = step_rc[x] /\ bits'[x] = bits[x]
          /\ UNCHANGED <<exit_bits, exit_code>> /\ net' \subseteq net
      BY <1>2, <2>1 DEF _handle_completion, TypeOK
    <2>3. /\ step_rc'[p] \in Nat /\ step_rc'[p] >= step_rc[p] /\ step_rc'[p] >= m.step_rc
      <3>1. step_rc[p] \in Nat /\ m.step_rc \in Nat  BY <1>0, <2>1
      <3> QED BY <2>2, <3>1, MaxFacts
    <2>4. \A x \in bits'[p] : step_rc'[p] >= Code(x)
      <3>1. /\ \A x \in bits[p] : step_rc[p] >= Code(x)
            /\ \A x \in SentRange(m) : m.step_rc >= Code(x)
        BY <2>1 DEF Codes
      <3>2. /\ step_rc[p] \in Nat /\ m.step_rc \in Nat
            /\ \A x \in bits[p] \cup SentRange(m) : Code(x) \in Nat
        BY <1>0, <2>1
      <3> HIDE DEF StepInv, p
      <3>3. \A x \in bits[p] : step_rc'[p] >= Code(x)  BY SMT, <2>3, <3>1, <3>2
      <3>4. \A x \in SentRange(m) : step_rc'[p] >= Code(x)  BY SMT, <2>3, <3>1, <3>2
      <3> QED BY <2>2, <3>3, <3>4
    <2>5. step_rc[p] >= Code(p) => step_rc'[p] >= Code(p)
      <3>1. step_rc[p] \in Nat /\ Code(p) \in Nat  BY <1>0, <2>1
      <3> QED BY SMT, <2>3, <3>1
    <2>6. \A r \in Rank : unsent'[r] # {} \/ stepd'[r] = "send" => step_rc'[r] >= Code(r)
      <3>1. Taken(m) \/ NoReply  BY <1>2 DEF _handle_completion
      <3> QED BY <2>2, <2>5, <3>1, ReplyCodes DEF Codes
    <2>7. \A r \in Rank : \A x \in bits'[r] : step_rc'[r] >= Code(x)
      BY <2>2, <2>4 DEF Codes
    <2> QED BY <2>2, <2>6, <2>7 DEF Codes
  <1>3. CASE _slurm_rpc_step_complete(m)
    <2>1. UNCHANGED <<bits, step_rc>> /\ net' \subseteq net /\ (Taken(m) \/ NoReply)
      BY <1>3 DEF _slurm_rpc_step_complete
    <2>2. \A x \in exit_bits' : exit_code' >= Code(x)
      <3>1. CASE step = "present" /\ exit_bits = {}
        BY <1>3, <3>1 DEF _slurm_rpc_step_complete, Codes
      <3>2. CASE step = "present" /\ exit_bits # {}
        <4>1. exit_bits' = exit_bits \cup SentRange(m) /\ exit_code' = MAX(exit_code, m.step_rc)
          BY <1>3, <3>2 DEF _slurm_rpc_step_complete
        <4>2. exit_code' \in Nat /\ exit_code' >= exit_code /\ exit_code' >= m.step_rc
          BY <1>0, <4>1, MaxFacts
        <4> QED BY SMT, <1>0, <4>1, <4>2 DEF Codes
      <3>3. CASE step # "present"
        BY <1>3, <3>3 DEF _slurm_rpc_step_complete, Codes
      <3> QED BY <3>1, <3>2, <3>3
    <2> QED BY <2>1, <2>2, ReplyCodes DEF Codes
  <1> QED BY <1>1, <1>2, <1>3 DEF Receive

\* step_record.exit_code: with one task on each node the highest code of the ranks
\* known to be through is kept, whatever the tree and the order of requests.
THEOREM StepHighestCode == ASSUME OneTaskEach PROVE Spec => []HighestCode
  <1>1. Init => Codes  BY DEF Init, Codes
  <1>2. ASSUME StepInv, Codes, [Next]_vars PROVE Codes'
    <2>1. CASE UNCHANGED vars  BY <1>2, <2>1 DEF Codes, vars, ranks, ctld
    <2> QED BY <1>2, <2>1, RankCodes, ReceiveCodes DEF Next
  <1>3. Codes /\ StepInv => HighestCode
    <2> SUFFICES ASSUME Codes, StepInv, NEW r \in exit_bits, NEW i \in DOMAIN task[r]
                 PROVE  exit_code >= task[r][i].estatus
      BY DEF HighestCode
    <2>1. r \in Rank  BY DEF StepInv, TypeOK
    <2>2. task[r] \in Seq(Task) /\ Len(task[r]) = 1  BY <2>1, StepAssumption DEF OneTaskEach
    <2>3. i = 1  BY SMT, <2>2
    <2> QED BY <2>3 DEF Codes, Code
  <1> QED BY <1>1, <1>2, <1>3, StepInvariant, PTL DEF Spec
-----------------------------------------------------------------------------
(* The head of a message tree                                                *)

LiveThreads == {t \in Hosts : Live(t)}

\* A host of a branch without a thread has not been touched.
TreeWaiting ==
    /\ \A b \in started : branch[b] = b
    /\ \A h \in Hosts : branch[h] \notin started =>
        tree_hl[h] = NoThread /\ ret_list[h] = 0 /\ thr[h] = "none"

\* A host in the list of a thread has no answer, until that thread has all the
\* answers of its list; its name is free for a thread of its own.
TreeListed ==
    \A h, t \in Hosts : tree_hl[h] = t =>
        /\ Live(t)
        /\ thr[t] = "destroy" => ret_list[h] = 1
        /\ thr[t] # "destroy" => ret_list[h] = 0
        /\ h # t => thr[h] = "none"
        /\ h = t => thr[t] \notin {"sent", "spawn"}

\* A host is asked by one thread, before it is answered for.
TreeAsked ==
    \A t \in Hosts : thr[t] = "sent" =>
        /\ name[t] \in Hosts
        /\ tree_hl[name[t]] = NoThread
        /\ ret_list[name[t]] = 0
        /\ branch[name[t]] \in started
        /\ \A u \in Hosts : thr[u] = "sent" /\ name[u] = name[t] => u = t

\* A host that was shifted from its list is asked, or has its answer.
TreeAccounted ==
    \A h \in Hosts : branch[h] \in started /\ tree_hl[h] = NoThread =>
        ret_list[h] = 1 \/ \E t \in Hosts : thr[t] = "sent" /\ name[t] = h

HeadInv ==
    /\ head # "start" => \A h \in Hosts : branch[h] \in started
    /\ head = "asleep" => thr_count > 0
    /\ head = "returned" => thr_count = 0

\* The inductive invariant of the tree.
TreeInv ==
    /\ TreeTypeOK /\ CountExact
    /\ TreeWaiting /\ TreeListed /\ TreeAsked /\ TreeAccounted /\ HeadInv

-----------------------------------------------------------------------------
\* The thread count moves with the set of live threads.
LEMMA CountThread ==
  ASSUME NEW S \in SUBSET Hosts, NEW t \in Hosts
  PROVE  /\ Cardinality(S) \in Nat
         /\ t \notin S => Cardinality(S \cup {t}) = Cardinality(S) + 1
         /\ t \in S => /\ Cardinality(S \ {t}) = Cardinality(S) - 1
                       /\ Cardinality(S) > 0
  <1>1. IsFiniteSet(S)
    BY HostsAssumption, FS_Subset
  <1>2. Cardinality(S) \in Nat
    BY <1>1, FS_CardinalityType
  <1>3. t \notin S => Cardinality(S \cup {t}) = Cardinality(S) + 1
    BY <1>1, FS_AddElement
  <1>4. t \in S => Cardinality(S \ {t}) = Cardinality(S) - 1
    BY <1>1, FS_RemoveElement
  <1>5. t \in S => Cardinality(S) > 0
    BY SMT, <1>1, <1>2, FS_EmptySet
  <1> QED
    BY <1>2, <1>3, <1>4, <1>5

\* While a thread lives the head does not find the count at zero.
LEMMA LiveCounted ==
  ASSUME CountExact, NEW t \in Hosts, Live(t)
  PROVE  thr_count > 0
  <1>1. t \in LiveThreads /\ LiveThreads \in SUBSET Hosts
    BY DEF LiveThreads
  <1> QED
    BY <1>1, CountThread DEF CountExact, LiveThreads

\* The split names every host's branch after its first host.
LEMMA TreeBranchHost ==
  ASSUME TreeTypeOK
  PROVE  /\ branch \in [Hosts -> Hosts]
         /\ \A h \in Hosts : branch[h] \in Hosts /\ branch[branch[h]] = branch[h]
  BY DEF TreeTypeOK, Splits

LEMMA InitTreeInv == TreeInit => TreeInv
  <1> SUFFICES ASSUME TreeInit PROVE TreeInv
    OBVIOUS
  <1>1. TreeTypeOK
    BY DEF TreeInit, TreeTypeOK
  <1>2. CountExact
    <2>1. {t \in Hosts : Live(t)} = {}
      BY DEF TreeInit, Live
    <2> QED
      BY <2>1, FS_EmptySet DEF TreeInit, CountExact
  <1>3. TreeWaiting /\ TreeListed /\ TreeAsked /\ TreeAccounted /\ HeadInv
    BY HostsAssumption
    DEF TreeInit, TreeWaiting, TreeListed, TreeAsked, TreeAccounted, HeadInv, Live
  <1> QED
    BY <1>1, <1>2, <1>3 DEF TreeInv
-----------------------------------------------------------------------------
(* start_msg_tree                                                            *)

LEMMA TreeStartInv ==
  ASSUME TreeInv, NEW b \in Hosts, head_start(b)
  PROVE  TreeInv'
  <1> USE DEF TreeInv
  <1>0. /\ branch[b] = b /\ b \notin started /\ head' = "start" /\ branch' = branch
        /\ thr[b] = "none"
    BY SMT, TreeBranchHost DEF head_start, TreeWaiting
  <1>1. TreeTypeOK'
    BY SMT, HostsAssumption DEF head_start, TreeTypeOK
  <1>2. CountExact'
    <2>1. {t \in Hosts : Live(t)'} = LiveThreads \cup {b} /\ b \notin LiveThreads
      BY <1>0 DEF head_start, TreeTypeOK, Live, LiveThreads
    <2> QED
      BY <2>1, CountThread DEF head_start, CountExact, LiveThreads
  <1>3. TreeWaiting'
    BY <1>0 DEF head_start, TreeTypeOK, TreeWaiting
  <1>4. TreeListed'
    BY SMT, <1>0, HostsAssumption DEF head_start, TreeTypeOK, TreeWaiting, TreeListed, Live
  <1>5. TreeAsked'
    BY ZenonT(30), <1>0, HostsAssumption DEF head_start, TreeTypeOK, TreeWaiting, TreeAsked
  <1>6. TreeAccounted'
    BY <1>0, HostsAssumption DEF head_start, TreeTypeOK, TreeAccounted
  <1>7. HeadInv'
    BY <1>0 DEF HeadInv
  <1> QED
    BY <1>1, <1>2, <1>3, <1>4, <1>5, <1>6, <1>7

LEMMA HeadStepInv ==
  ASSUME TreeInv, head_started \/ head_check
  PROVE  TreeInv'
  <1> USE DEF TreeInv
  <1>0. /\ UNCHANGED <<branch, started, thr_count, thr, tree_hl, name, ret_list>>
        /\ head' \in {"check", "asleep", "returned"}
    BY DEF head_started, head_check
  <1>1. /\ TreeTypeOK' /\ CountExact' /\ TreeWaiting' /\ TreeListed' /\ TreeAsked'
        /\ TreeAccounted'
    BY SMT, <1>0
    DEF TreeTypeOK, CountExact, TreeWaiting, TreeListed, TreeAsked, TreeAccounted, Live
  <1>2. HeadInv'
    BY SMT, <1>0 DEF head_started, head_check, HeadInv, TreeTypeOK
  <1> QED
    BY <1>1, <1>2
-----------------------------------------------------------------------------
(* _fwd_tree_thread                                                          *)

\* The head is only woken while a thread lives.
LEMMA SignalledInv ==
  ASSUME TreeInv, NEW t \in Hosts, Live(t)
  PROVE  /\ Signalled \in {"start", "check"}
         /\ Signalled = "start" <=> head = "start"
  <1>1. thr_count > 0
    BY LiveCounted DEF TreeInv
  <1>2. head # "returned"
    BY SMT, <1>1 DEF TreeInv, HeadInv
  <1> QED
    BY <1>2 DEF Signalled, TreeInv, TreeTypeOK

LEMMA TreeShiftInv ==
  ASSUME TreeInv, NEW t \in Hosts, NEW n \in Hosts, fwd_shift(t, n)
  PROVE  TreeInv'
  <1> USE DEF TreeInv
  <1>0. /\ thr[t] = "loop" /\ tree_hl[n] = t /\ ret_list[n] = 0 /\ Live(t)
        /\ branch' = branch /\ started' = started /\ thr_count' = thr_count
        /\ branch[n] \in started
        /\ t # n => tree_hl[t] # t
    BY SMT, HostsAssumption DEF fwd_shift, Left, TreeListed, Live, TreeWaiting
  <1>1. CASE /\ ret_list' = [ret_list EXCEPT ![n] = @ + 1]
             /\ head' = Signalled
             /\ UNCHANGED <<thr, name>>
    <2>1. TreeTypeOK'
      BY SMT, <1>0, <1>1, SignalledInv DEF fwd_shift, TreeTypeOK
    <2>2. CountExact' /\ TreeWaiting'
      BY SMT, <1>0, <1>1 DEF fwd_shift, TreeTypeOK, CountExact, TreeWaiting, Live
    <2>3. TreeListed'
      BY SMT, <1>0, <1>1, HostsAssumption DEF fwd_shift, TreeTypeOK, TreeListed, Live
    <2>4. TreeAsked'
      BY SMT, <1>0, <1>1, HostsAssumption DEF fwd_shift, TreeTypeOK, TreeAsked
    <2>5. TreeAccounted'
      BY SMT, <1>0, <1>1, HostsAssumption DEF fwd_shift, TreeTypeOK, TreeAccounted
    <2>6. HeadInv'
      BY <1>0, <1>1, SignalledInv DEF HeadInv
    <2> QED
      BY <2>1, <2>2, <2>3, <2>4, <2>5, <2>6
  <1>2. CASE /\ thr' = [thr EXCEPT ![t] = "sent"]
             /\ name' = [name EXCEPT ![t] = n]
             /\ UNCHANGED <<head, ret_list>>
    <2>1. TreeTypeOK'
      BY <1>0, <1>2 DEF fwd_shift, TreeTypeOK
    <2>2. CountExact'
      <3>1. {u \in Hosts : Live(u)'} = {u \in Hosts : Live(u)}
        BY <1>0, <1>2 DEF TreeTypeOK, Live
      <3> QED
        BY <1>0, <3>1 DEF CountExact
    <2>3. TreeWaiting'
      BY <1>0, <1>2 DEF fwd_shift, TreeTypeOK, TreeWaiting
    <2>4. TreeListed'
      BY SMT, <1>0, <1>2, HostsAssumption DEF fwd_shift, TreeTypeOK, TreeListed, Live
    <2>5. TreeAsked'
      BY SMT, <1>0, <1>2, HostsAssumption DEF fwd_shift, TreeTypeOK, TreeAsked
    <2>6. TreeAccounted'
      BY SMT, <1>0, <1>2, HostsAssumption DEF fwd_shift, TreeTypeOK, TreeAccounted
    <2>7. HeadInv'
      BY <1>0, <1>2 DEF HeadInv
    <2> QED
      BY <2>1, <2>2, <2>3, <2>4, <2>5, <2>6, <2>7
  <1> QED
    BY <1>1, <1>2 DEF fwd_shift

LEMMA FailedInv ==
  ASSUME TreeInv, NEW t \in Hosts, fwd_failed(t)
  PROVE  TreeInv'
  <1> USE DEF TreeInv
  <1>0. /\ thr[t] = "sent" /\ Live(t)
        /\ name[t] \in Hosts /\ tree_hl[name[t]] = NoThread /\ ret_list[name[t]] = 0
        /\ branch[name[t]] \in started
        /\ UNCHANGED <<branch, started, thr_count, tree_hl, name>>
        /\ \E s \in {"loop", "spawn"} : thr' = [thr EXCEPT ![t] = s]
    BY DEF fwd_failed, TreeAsked, Live
  <1>1. TreeTypeOK'
    BY SMT, <1>0, SignalledInv DEF fwd_failed, TreeTypeOK
  <1>2. CountExact'
    <2>1. {u \in Hosts : Live(u)'} = {u \in Hosts : Live(u)}
      BY <1>0 DEF TreeTypeOK, Live
    <2> QED
      BY <1>0, <2>1 DEF CountExact
  <1>3. TreeWaiting'
    BY ZenonT(30), <1>0 DEF fwd_failed, TreeTypeOK, TreeWaiting
  <1>4. TreeListed'
    BY SMT, <1>0, HostsAssumption DEF fwd_failed, TreeTypeOK, TreeListed, Live
  <1>5. TreeAsked'
    BY SMT, <1>0, HostsAssumption DEF fwd_failed, TreeTypeOK, TreeAsked
  <1>6. TreeAccounted'
    BY SMT, <1>0, HostsAssumption DEF fwd_failed, TreeTypeOK, TreeAccounted
  <1>7. HeadInv'
    BY <1>0, SignalledInv DEF fwd_failed, HeadInv
  <1> QED
    BY <1>1, <1>2, <1>3, <1>4, <1>5, <1>6, <1>7

LEMMA TreeAnsweredInv ==
  ASSUME TreeInv, NEW t \in Hosts, NEW got \in SUBSET Hosts, fwd_answered(t, got)
  PROVE  TreeInv'
  <1> USE DEF TreeInv
  <1>0. /\ thr[t] = "sent" /\ Live(t)
        /\ name[t] \in Hosts /\ tree_hl[name[t]] = NoThread /\ ret_list[name[t]] = 0
        /\ branch[name[t]] \in started
        /\ UNCHANGED <<branch, started, thr_count, name>>
        /\ \E s \in {"destroy", "spawn"} : thr' = [thr EXCEPT ![t] = s]
        /\ \A h \in got : tree_hl[h] = t /\ ret_list[h] = 0 /\ branch[h] \in started
    BY SMT, HostsAssumption
    DEF fwd_answered, TreeAsked, Live, Left, TreeListed, TreeWaiting
  <1>1. TreeTypeOK'
    BY SMT, <1>0, SignalledInv DEF fwd_answered, TreeTypeOK
  <1>2. CountExact'
    <2>1. {u \in Hosts : Live(u)'} = {u \in Hosts : Live(u)}
      BY <1>0 DEF TreeTypeOK, Live
    <2> QED
      BY <1>0, <2>1 DEF CountExact
  <1>3. TreeWaiting'
    BY SMT, <1>0 DEF fwd_answered, TreeTypeOK, TreeWaiting
  <1>4. TreeListed'
    <2>1. CASE got = Left(t)
      <3>1. tree_hl' = tree_hl /\ thr' = [thr EXCEPT ![t] = "destroy"]
        BY <2>1 DEF fwd_answered
      <3>2. \A h \in Hosts : tree_hl[h] = t => ret_list'[h] = 1
        BY SMT, <1>0, <2>1 DEF fwd_answered, Left, TreeTypeOK
      <3>3. \A h \in Hosts : tree_hl[h] # t /\ tree_hl[h] # NoThread =>
              ret_list'[h] = ret_list[h]
        BY <1>0, <2>1 DEF fwd_answered, Left, TreeTypeOK
      <3> QED
        BY SMT, <1>0, <3>1, <3>2, <3>3, HostsAssumption DEF TreeTypeOK, TreeListed, Live
    <2>2. CASE got # Left(t)
      <3>1. /\ thr' = [thr EXCEPT ![t] = "spawn"]
            /\ tree_hl' = [h \in Hosts |-> IF h \in got THEN NoThread ELSE tree_hl[h]]
        BY <2>2 DEF fwd_answered
      <3>2. \A h \in Hosts : tree_hl'[h] # NoThread =>
              ret_list'[h] = ret_list[h] /\ tree_hl'[h] = tree_hl[h]
        BY <1>0, <3>1 DEF fwd_answered, TreeTypeOK
      <3> QED
        BY SMT, <1>0, <3>1, <3>2, HostsAssumption DEF TreeTypeOK, TreeListed, Live
    <2> QED
      BY <2>1, <2>2
  <1>5. TreeAsked'
    BY SMTT(20), <1>0, HostsAssumption DEF fwd_answered, TreeTypeOK, TreeAsked
  <1>6. TreeAccounted'
    BY SMT, <1>0, HostsAssumption DEF fwd_answered, TreeTypeOK, TreeAccounted
  <1>7. HeadInv'
    BY <1>0, SignalledInv DEF fwd_answered, HeadInv
  <1> QED
    BY <1>1, <1>2, <1>3, <1>4, <1>5, <1>6, <1>7

LEMMA TreeSpawnInv ==
  ASSUME TreeInv, NEW t \in Hosts, NEW n \in Hosts, fwd_spawn(t, n)
  PROVE  TreeInv'
  <1> USE DEF TreeInv
  <1>0. /\ thr[t] = "spawn" /\ Live(t) /\ tree_hl[n] = t /\ n # t
        /\ thr[n] = "none" /\ ret_list[n] = 0 /\ branch[n] \in started
        /\ UNCHANGED <<branch, started, head, name, ret_list>>
        /\ thr_count > 0 /\ thr_count \in Nat
    BY SMT, LiveCounted, HostsAssumption
    DEF fwd_spawn, Left, TreeListed, Live, TreeWaiting, TreeTypeOK
  <1>1. TreeTypeOK'
    BY SMT, <1>0 DEF fwd_spawn, TreeTypeOK
  <1>2. CountExact'
    <2>1. {u \in Hosts : Live(u)'} = LiveThreads \cup {n} /\ n \notin LiveThreads
      BY <1>0 DEF fwd_spawn, TreeTypeOK, Live, LiveThreads
    <2> QED
      BY <2>1, CountThread DEF fwd_spawn, CountExact, LiveThreads
  <1>3. TreeWaiting'
    BY ZenonT(30), <1>0 DEF fwd_spawn, TreeTypeOK, TreeWaiting
  <1>4. TreeListed'
    BY SMT, <1>0, HostsAssumption DEF fwd_spawn, TreeTypeOK, TreeListed, Live
  <1>5. TreeAsked'
    BY SMT, <1>0, HostsAssumption DEF fwd_spawn, TreeTypeOK, TreeAsked
  <1>6. TreeAccounted'
    BY SMT, <1>0, HostsAssumption DEF fwd_spawn, TreeTypeOK, TreeAccounted
  <1>7. HeadInv'
    BY SMT, <1>0 DEF fwd_spawn, HeadInv
  <1> QED
    BY <1>1, <1>2, <1>3, <1>4, <1>5, <1>6, <1>7

LEMMA EmptyInv ==
  ASSUME TreeInv, NEW t \in Hosts, fwd_spawned(t) \/ fwd_exit(t)
  PROVE  TreeInv'
  <1> USE DEF TreeInv
  <1>0. /\ thr[t] \in {"loop", "spawn"} /\ \A h \in Hosts : tree_hl[h] # t
        /\ UNCHANGED <<branch, started, head, thr_count, tree_hl, name, ret_list>>
        /\ \E s \in {"loop", "destroy"} : thr' = [thr EXCEPT ![t] = s]
    BY DEF fwd_spawned, fwd_exit, Left
  <1>1. TreeTypeOK' /\ TreeWaiting' /\ HeadInv'
    BY SMT, <1>0 DEF TreeTypeOK, TreeWaiting, HeadInv
  <1>2. CountExact'
    <2>1. {u \in Hosts : Live(u)'} = {u \in Hosts : Live(u)}
      BY <1>0 DEF TreeTypeOK, Live
    <2> QED
      BY <1>0, <2>1 DEF CountExact
  <1>3. TreeListed' /\ TreeAsked'
        /\ TreeAccounted'
    BY SMTT(20), <1>0 DEF TreeTypeOK, TreeListed, TreeAsked, TreeAccounted, Live
  <1> QED
    BY <1>1, <1>2, <1>3

LEMMA DestroyInv ==
  ASSUME TreeInv, NEW t \in Hosts, _destroy_tree_fwd(t)
  PROVE  TreeInv'
  <1> USE DEF TreeInv
  <1>0. /\ thr[t] = "destroy" /\ Live(t)
        /\ UNCHANGED <<branch, started, name, ret_list>>
        /\ thr' = [thr EXCEPT ![t] = "gone"]
        /\ thr_count \in Nat /\ thr_count > 0 /\ thr_count' = thr_count - 1
    BY LiveCounted DEF _destroy_tree_fwd, Live, TreeTypeOK
  <1>1. TreeTypeOK'
    BY SMT, <1>0, SignalledInv DEF _destroy_tree_fwd, TreeTypeOK
  <1>2. CountExact'
    <2>1. {u \in Hosts : Live(u)'} = LiveThreads \ {t} /\ t \in LiveThreads
      BY <1>0 DEF TreeTypeOK, Live, LiveThreads
    <2> QED
      BY <1>0, <2>1, CountThread DEF CountExact, LiveThreads
  <1>3. TreeWaiting'
    BY <1>0 DEF _destroy_tree_fwd, TreeTypeOK, TreeWaiting
  <1>4. TreeListed'
    BY SMT, <1>0, HostsAssumption DEF _destroy_tree_fwd, TreeTypeOK, TreeListed, Live
  <1>5. TreeAsked'
    BY SMT, <1>0, HostsAssumption DEF _destroy_tree_fwd, TreeTypeOK, TreeAsked
  <1>6. TreeAccounted'
    BY SMT, <1>0, HostsAssumption DEF _destroy_tree_fwd, TreeTypeOK, TreeAccounted, TreeListed
  <1>7. HeadInv'
    BY <1>0, SignalledInv DEF _destroy_tree_fwd, HeadInv
  <1> QED
    BY <1>1, <1>2, <1>3, <1>4, <1>5, <1>6, <1>7
-----------------------------------------------------------------------------
LEMMA NextTreeInv == TreeInv /\ [TreeNext]_tree_vars => TreeInv'
  <1> SUFFICES ASSUME TreeInv, [TreeNext]_tree_vars PROVE TreeInv'
    OBVIOUS
  <1>1. ASSUME UNCHANGED tree_vars PROVE TreeInv'
    BY SMT, <1>1 DEF tree_vars, TreeInv, TreeTypeOK, CountExact, TreeWaiting, TreeListed, TreeAsked,
                TreeAccounted, HeadInv, Live
  <1>2. ASSUME NEW t \in Hosts, Step(t) PROVE TreeInv'
    BY <1>2, TreeShiftInv, TreeSpawnInv, FailedInv, TreeAnsweredInv, EmptyInv,
       DestroyInv DEF Step, Left
  <1> QED
    BY <1>1, <1>2, TreeStartInv, HeadStepInv DEF TreeNext

\* The invariant that carries the theorems below: each host is untouched, in the
\* list of one thread, asked by one thread, or answered for once.
THEOREM TreeInvariant == TreeSpec => []TreeInv
  BY InitTreeInv, NextTreeInv, PTL DEF TreeSpec

\* Every variable of start_msg_tree and its threads keeps its type; thr_count
\* never drops below zero.
THEOREM TreeTypes == TreeSpec => []TreeTypeOK
  <1>1. TreeInv => TreeTypeOK
    BY DEF TreeInv
  <1> QED
    BY <1>1, TreeInvariant, PTL

\* thr_count is the number of threads that still use the tree.
THEOREM TreeCounts == TreeSpec => []CountExact
  <1>1. TreeInv => CountExact
    BY DEF TreeInv
  <1> QED
    BY <1>1, TreeInvariant, PTL

\* start_msg_tree sleeps only while a thread is left to signal it.
THEOREM TreeNoLostWakeup == TreeSpec => []HeadWakes
  <1>1. TreeInv => HeadWakes
    BY DEF TreeInv, HeadInv, HeadWakes
  <1> QED
    BY <1>1, TreeInvariant, PTL

\* No thread outlives the stack frame of start_msg_tree it works on.
THEOREM TreeHeadLast == TreeSpec => []HeadLast
  <1>1. TreeInv => HeadLast
    <2> SUFFICES ASSUME TreeInv, head = "returned", NEW t \in Hosts, Live(t)
                 PROVE  FALSE
      BY DEF HeadLast
    <2>1. thr_count > 0 /\ thr_count = 0
      BY LiveCounted DEF TreeInv, HeadInv
    <2> QED
      BY SMT, <2>1
  <1> QED
    BY <1>1, TreeInvariant, PTL

\* No host is listed twice.
THEOREM TreeNeverTwice == TreeSpec => []NeverTwice
  <1>1. TreeInv => NeverTwice
    <2> SUFFICES ASSUME TreeInv, NEW h \in Hosts PROVE ret_list[h] \in {0, 1}
      BY SMT DEF NeverTwice
    <2>1. CASE branch[h] \notin started
      BY <2>1 DEF TreeInv, TreeWaiting
    <2>2. CASE tree_hl[h] \in Hosts
      BY <2>2 DEF TreeInv, TreeListed
    <2>3. CASE branch[h] \in started /\ tree_hl[h] = NoThread
      BY SMT, <2>3 DEF TreeInv, TreeAccounted, TreeAsked
    <2> QED
      BY <2>1, <2>2, <2>3 DEF TreeInv, TreeTypeOK
  <1> QED
    BY <1>1, TreeInvariant, PTL

\* When start_msg_tree returns it has exactly one answer for every host.
THEOREM TreeAnswers == TreeSpec => []AllAnsweredOnce
  <1>1. TreeInv => AllAnsweredOnce
    <2> SUFFICES ASSUME TreeInv, head = "returned", NEW h \in Hosts
                 PROVE  ret_list[h] = 1
      BY DEF AllAnsweredOnce
    <2>1. thr_count = 0 /\ branch[h] \in started
      BY DEF TreeInv, HeadInv
    <2>2. \A t \in Hosts : ~Live(t)
      BY SMT, <2>1, LiveCounted DEF TreeInv
    <2>3. tree_hl[h] = NoThread
      BY SMT, <2>2 DEF TreeInv, TreeTypeOK, TreeListed
    <2>4. \A t \in Hosts : thr[t] # "sent"
      BY <2>2 DEF Live
    <2> QED
      BY <2>1, <2>3, <2>4 DEF TreeInv, TreeAccounted
  <1> QED
    BY <1>1, TreeInvariant, PTL
-----------------------------------------------------------------------------
(* Refinement                                                                *)

\* A step that lists hosts without an answer, while the head waits, is a step of
\* Broadcast; so is one that leaves the list alone.
LEMMA TreeListingPromised ==
  ASSUME TreeInv, head # "returned", head' # "returned", NEW S \in SUBSET Hosts,
         \A h \in S : ret_list[h] = 0,
         ret_list' = [h \in Hosts |-> IF h \in S THEN ret_list[h] + 1 ELSE ret_list[h]]
  PROVE  [Promise!Next]_(Promise!vars)
  <1> DEFINE Replied == {h \in Hosts : ret_list[h] = 1}
             Returned == head = "returned"
  <1>1. Replied' = Replied \cup S /\ S \cap Replied = {}
    BY SMT DEF TreeInv, TreeTypeOK
  <1>2. Returned = FALSE /\ Returned' = FALSE
    OBVIOUS
  <1>3. Promise!Answer(S)
    BY <1>1, <1>2 DEF Promise!Answer
  <1> QED
    BY <1>3 DEF Promise!Next

LEMMA TreeStepPromised ==
  ASSUME TreeInv, NEW t \in Hosts, Step(t)
  PROVE  [Promise!Next]_(Promise!vars)
  <1>1. Live(t)
    BY DEF Step, fwd_shift, fwd_spawn, fwd_failed, fwd_answered, fwd_spawned,
       fwd_exit,
           _destroy_tree_fwd, Live
  <1>2. head # "returned"
    BY SMT, <1>1, LiveCounted DEF TreeInv, HeadInv
  <1>3. head' # "returned"
    BY <1>2
    DEF Step, fwd_shift, fwd_spawn, fwd_failed, fwd_answered, fwd_spawned,
       fwd_exit,
              _destroy_tree_fwd, Signalled
  <1>4. \E S \in SUBSET Hosts :
          /\ \A h \in S : ret_list[h] = 0
          /\ ret_list' = [h \in Hosts |-> IF h \in S THEN ret_list[h] + 1 ELSE ret_list[h]]
    <2> DEFINE Lists(S) ==
                 /\ \A h \in S : ret_list[h] = 0
                 /\ ret_list' = [h \in Hosts |-> IF h \in S THEN ret_list[h] + 1
                                                             ELSE ret_list[h]]
    <2>1. ASSUME UNCHANGED ret_list PROVE Lists({})
      BY <2>1 DEF TreeInv, TreeTypeOK
    <2>2. ASSUME NEW n \in Left(t), fwd_shift(t, n) PROVE Lists({}) \/ Lists({n})
      BY SMT, <2>1, <2>2 DEF fwd_shift, TreeInv, TreeTypeOK, TreeListed, Left
    <2>3. ASSUME fwd_failed(t) PROVE Lists({name[t]}) /\ name[t] \in Hosts
      BY <2>3 DEF fwd_failed, TreeInv, TreeTypeOK, TreeAsked
    <2>4. ASSUME NEW got \in SUBSET Left(t), fwd_answered(t, got)
          PROVE  Lists(got \cup {name[t]}) /\ name[t] \in Hosts
      BY <2>4 DEF fwd_answered, TreeInv, TreeTypeOK, TreeAsked, TreeListed, Left
    <2>5. ASSUME \/ UNCHANGED ret_list
                 \/ \E n \in Left(t) : fwd_shift(t, n)
                 \/ fwd_failed(t)
                 \/ \E got \in SUBSET Left(t) : fwd_answered(t, got)
          PROVE  \E S \in SUBSET Hosts : Lists(S)
      <3> HIDE DEF Lists
      <3> QED
        BY <2>1, <2>2, <2>3, <2>4, <2>5 DEF Left
    <2>6. ASSUME \/ \E n \in Left(t) : fwd_spawn(t, n)
                 \/ fwd_spawned(t) \/ fwd_exit(t) \/ _destroy_tree_fwd(t)
          PROVE  UNCHANGED ret_list
      BY <2>6 DEF fwd_spawn, fwd_spawned, fwd_exit, _destroy_tree_fwd
    <2> HIDE DEF Lists
    <2>7. \E S \in SUBSET Hosts : Lists(S)
      BY <2>5, <2>6 DEF Step
    <2> QED
      BY <2>7 DEF Lists
  <1> QED
    BY <1>2, <1>3, <1>4, TreeListingPromised

LEMMA HeadPromised ==
  ASSUME TreeInv, head_check, AllAnsweredOnce'
  PROVE  [Promise!Next]_(Promise!vars)
  <1> DEFINE Replied == {h \in Hosts : ret_list[h] = 1}
             Returned == head = "returned"
  <1>1. Replied' = Replied /\ Returned = FALSE
    BY DEF head_check
  <1>2. CASE head' = "returned"
    <2>1. Replied = Hosts /\ Returned' = TRUE
      BY <1>2 DEF AllAnsweredOnce, head_check
    <2> QED
      BY <1>1, <2>1 DEF Promise!Next, Promise!Return
  <1>3. CASE head' # "returned"
    BY <1>1, <1>3 DEF Promise!vars
  <1> QED
    BY <1>2, <1>3

\* start_msg_tree keeps the promise of Broadcast for any number of hosts, any split into
\* branches and any order of failures: the refinement the runs check on four hosts.
THEOREM TreeRefines == TreeSpec => TreeKeepsPromise
  <1>1. TreeInit => Promise!Init
    BY SMT DEF TreeInit, Promise!Init
  <1>2. TreeInv /\ AllAnsweredOnce' /\ [TreeNext]_tree_vars => [Promise!Next]_(Promise!vars)
    <2> SUFFICES ASSUME TreeInv, AllAnsweredOnce', [TreeNext]_tree_vars
                 PROVE  [Promise!Next]_(Promise!vars)
      OBVIOUS
    <2>1. ASSUME UNCHANGED <<ret_list, head>> PROVE [Promise!Next]_(Promise!vars)
      BY <2>1 DEF Promise!vars
    <2>2. ASSUME head_started PROVE [Promise!Next]_(Promise!vars)
      BY <2>2 DEF head_started, Promise!vars
    <2>3. ASSUME NEW b \in Hosts, head_start(b) PROVE [Promise!Next]_(Promise!vars)
      BY <2>1, <2>3 DEF head_start
    <2> QED
      BY <2>1, <2>2, <2>3, TreeStepPromised, HeadPromised DEF TreeNext, tree_vars
  <1> QED
    BY <1>1, <1>2, TreeInvariant, TreeAnswers, PTL
    DEF TreeSpec, TreeKeepsPromise, Promise!Spec
=============================================================================
