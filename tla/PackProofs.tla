----------------------------- MODULE PackProofs -----------------------------
(***************************************************************************)
(* Proofs about packs of jobs (module JobPack), for any number of members, *)
(* of other jobs and of nodes, and any requests.                           *)
(*                                                                         *)
(* The operators of JobPack take the tables w to the tables they leave, so *)
(* a lemma says what one function of slurmctld does to w.  Good(w) is what *)
(* holds between two actions: the shape of the tables, counters that agree *)
(* with the jobs on each node (Sound), and a pack that runs all together   *)
(* or waits all together (Together).  While select_nodes works, Holding(w) *)
(* takes the place of Together: the members that run are the entries of    *)
(* the depend_list marked alloc, which are the ones a failure gives back.  *)
(***************************************************************************)
EXTENDS JobPack, ListProofs

\* Zenon proves most leaves; a leaf that needs arithmetic names SMT.
USE Zenon

-----------------------------------------------------------------------------
(* What the node functions do to the tables.                               *)

States == {"none", "PENDING", "RUNNING", "ENDED", "purged"}
JobRec == [state : States, completing : BOOLEAN, leader : {NoJob, Leader},
           nodes : SUBSET Nodes, cg : SUBSET Nodes, cnt : 0 .. N]
NodeRec == [run : Nat, comp : Nat]
Dep == [found : BOOLEAN, alloc : BOOLEAN]
Deps == UNION {[I -> Dep] : I \in SUBSET DOMAIN Members}
TablesType == [job : [Jobs -> JobRec], node : [Nodes -> NodeRec],
               list : [there : BOOLEAN, deps : Deps], twice : SUBSET Nodes]

\* Of the jobs, only j may differ between w and w2; the depend_list does not.
OnlyJob(w, w2, j) ==
  /\ w2 \in TablesType /\ w2.list = w.list
  /\ \A k \in Jobs : k # j => w2.job[k] = w.job[k]

\* How many nodes a set of nodes has.
LEMMA NodesCount ==
  ASSUME NEW S \in SUBSET Nodes
  PROVE  IsFiniteSet(S) /\ Cardinality(S) \in 0..N
  <1>1. IsFiniteSet(Nodes) /\ Cardinality(Nodes) = N /\ N \in Nat
    BY JobIds, CountTo DEF Nodes
  <1>2. IsFiniteSet(S) /\ Cardinality(S) <= N
    BY <1>1, FS_Subset
  <1>3. Cardinality(S) \in Nat
    BY <1>2, FS_CardinalityType
  <1> QED
    BY SMT, <1>1, <1>2, <1>3

\* From w to w2 only the counters of the nodes change: run on the nodes ns, by up or
\* down, and comp.
Counted(w, w2) ==
  w2 \in TablesType /\ w2.job = w.job /\ w2.list = w.list /\ w2.twice = w.twice
RunUp(w, w2, ns) ==
  \A n \in Nodes : w2.node[n].run = IF n \in ns THEN w.node[n].run + 1 ELSE w.node[n].run
RunDown(w, w2, ns) ==
  \A n \in Nodes : w2.node[n].run = IF n \in ns /\ w.node[n].run > 0
                                   THEN w.node[n].run - 1 ELSE w.node[n].run
CompUp(w, w2, ns) ==
  \A n \in Nodes : w2.node[n].comp = IF n \in ns THEN w.node[n].comp + 1 ELSE w.node[n].comp
CompSame(w, w2) == \A n \in Nodes : w2.node[n].comp = w.node[n].comp

\* make_node_alloc adds one running job to each of the nodes ns.
LEMMA AllocFacts ==
  ASSUME NEW w \in TablesType, NEW ns \in SUBSET Nodes
  PROVE  LET w2 == make_node_alloc(w, ns) IN
         Counted(w, w2) /\ RunUp(w, w2, ns) /\ CompSame(w, w2)
  BY SMTT(30) DEF make_node_alloc, TablesType, NodeRec, Counted, RunUp, CompSame

\* make_node_comp takes one running job from each of the nodes ns; unless a pack is backed
\* out there is then one more that completes.
LEMMA CompFacts ==
  ASSUME NEW w \in TablesType, NEW ns \in SUBSET Nodes
  PROVE  /\ LET w2 == make_node_comp(w, ns, FALSE) IN
            Counted(w, w2) /\ RunDown(w, w2, ns) /\ CompUp(w, w2, ns)
         /\ LET w2 == make_node_comp(w, ns, TRUE) IN
            Counted(w, w2) /\ RunDown(w, w2, ns) /\ CompSame(w, w2)
  <1>1. ASSUME NEW pack \in BOOLEAN
        PROVE  LET w2 == make_node_comp(w, ns, pack) IN
               /\ Counted(w, w2) /\ RunDown(w, w2, ns)
               /\ IF pack THEN CompSame(w, w2) ELSE CompUp(w, w2, ns)
    <2> DEFINE g == [n \in Nodes |->
                      IF n \in ns
                      THEN [run |-> IF w.node[n].run > 0 THEN w.node[n].run - 1 ELSE 0,
                            comp |-> IF pack THEN w.node[n].comp ELSE w.node[n].comp + 1]
                      ELSE w.node[n]]
               w2 == [w EXCEPT !.node = g]
    <2>1. ASSUME NEW n \in Nodes
          PROVE  /\ g[n] \in NodeRec
                 /\ g[n].comp = IF n \in ns /\ ~ pack THEN w.node[n].comp + 1 ELSE w.node[n].comp
                 /\ g[n].run = IF n \in ns /\ w.node[n].run > 0 THEN w.node[n].run - 1 ELSE w.node[n].run
      <3>1. w.node[n].run \in Nat /\ w.node[n].comp \in Nat /\ w.node[n] \in NodeRec
        BY SMT DEF TablesType, NodeRec
      <3>2. CASE n \in ns
        BY SMT, <3>1, <3>2 DEF NodeRec
      <3>3. CASE n \notin ns
        BY <3>1, <3>3
      <3> QED
        BY <3>2, <3>3
    <2>2. g \in [Nodes -> NodeRec]
      BY <2>1
    <2>3. Counted(w, w2) /\ w2.node = g
      <3> HIDE DEF g
      <3> QED
        BY SMT, <2>2 DEF TablesType, Counted
    <2>4. make_node_comp(w, ns, pack) = w2
      BY DEF make_node_comp
    <2> HIDE DEF w2, g
    <2> QED
      BY <2>1, <2>3, <2>4 DEF RunDown, CompUp, CompSame
  <1> QED
    BY <1>1

\* The record of one job is replaced.
LEMMA JobFacts ==
  ASSUME NEW w \in TablesType, NEW j \in Jobs, NEW r \in JobRec
  PROVE  LET w2 == [w EXCEPT !.job[j] = r] IN
         /\ OnlyJob(w, w2, j) /\ w2.job[j] = r /\ w2.node = w.node /\ w2.twice = w.twice
  BY SMT DEF TablesType, OnlyJob

\* A record with one field changed is a record.
LEMMA RecTypes ==
  ASSUME NEW r \in JobRec
  PROVE  /\ \A s \in States : [r EXCEPT !.state = s] \in JobRec
         /\ \A b \in BOOLEAN : [r EXCEPT !.completing = b] \in JobRec
         /\ \A l \in {NoJob, Leader} : [r EXCEPT !.leader = l] \in JobRec
         /\ \A ns \in SUBSET Nodes : [r EXCEPT !.nodes = ns] \in JobRec /\ [r EXCEPT !.cg = ns] \in JobRec
         /\ \A c \in 0..N : [r EXCEPT !.cnt = c] \in JobRec
  BY SMT DEF JobRec

\* The record of a job that starts.
RunRec(r, r2, ns, c) ==
  /\ r2.state = "RUNNING" /\ r2.completing = FALSE /\ r2.cg = r.cg
  /\ r2.nodes = ns /\ r2.cnt = c

\* The record that select_nodes_pack leaves for a job it starts.
LEMMA StartRec ==
  ASSUME NEW r \in JobRec, NEW ns \in SUBSET Nodes, NEW c \in 0..N
  PROVE  LET r2 == [r EXCEPT !.state = "RUNNING", !.completing = FALSE, !.nodes = ns, !.cnt = c] IN
         r2 \in JobRec /\ RunRec(r, r2, ns, c)
  <1>1. [r EXCEPT !.state = "RUNNING", !.completing = FALSE, !.nodes = ns, !.cnt = c] \in JobRec
    BY RecTypes DEF States
  <1> QED
    BY SMT, <1>1 DEF JobRec, RunRec
\* The job j, that held nothing, runs on the idle nodes ns.
Started(w, w2, j, ns) ==
  /\ OnlyJob(w, w2, j) /\ w2.twice = w.twice /\ ns \subseteq idle_nodes(w)
  /\ RunRec(w.job[j], w2.job[j], ns, Cardinality(ns))
  /\ RunUp(w, w2, ns) /\ CompSame(w, w2)

\* StartJob starts the job on nodes that were idle.
LEMMA StartFacts ==
  ASSUME NEW w \in TablesType, NEW j \in Jobs
  PROVE  \E ns \in SUBSET Nodes : Started(w, StartJob(w, j), j, ns)
  <1> DEFINE ns == Lowest(idle_nodes(w), ask.need[j])
             c == Cardinality(ns)
             r == [w.job[j] EXCEPT !.state = "RUNNING", !.completing = FALSE,
                               !.nodes = ns, !.cnt = c]
             u == [w EXCEPT !.job[j] = r]
  <1>1. ns \subseteq idle_nodes(w) /\ ns \in SUBSET Nodes
    BY DEF Lowest, idle_nodes
  <1> HIDE DEF ns
  <1>2. c \in 0..N
    BY <1>1, NodesCount
  <1> HIDE DEF c
  <1>3. r \in JobRec /\ RunRec(w.job[j], r, ns, c)
    <2>1. w.job[j] \in JobRec
      BY SMT DEF TablesType
    <2> QED
      BY <1>1, <1>2, <2>1, StartRec
  <1>4. OnlyJob(w, u, j) /\ u.job[j] = r /\ u.node = w.node /\ u.twice = w.twice
    <2> HIDE DEF r
    <2> QED
      BY <1>3, JobFacts
  <1>5. u \in TablesType
    BY <1>4 DEF OnlyJob
  <1>6. StartJob(w, j) = make_node_alloc(u, ns)
    BY DEF StartJob, ns, c
  <1> HIDE DEF u, r
  <1>7. LET w2 == make_node_alloc(u, ns) IN
        Counted(u, w2) /\ RunUp(u, w2, ns) /\ CompSame(u, w2)
    BY <1>1, <1>5, AllocFacts
  <1>8. Started(w, StartJob(w, j), j, ns)
    BY <1>1, <1>3, <1>4, <1>6, <1>7 DEF Started, OnlyJob, Counted, RunUp, CompSame, c
  <1> QED
    BY <1>1, <1>8

\* The other fields of the record r.
StateOnly(r, r2) == /\ r2.completing = r.completing /\ r2.nodes = r.nodes
                    /\ r2.cg = r.cg /\ r2.cnt = r.cnt

\* Only the state of j differs between w and w2.
Moved(w, w2, j, s) ==
  /\ OnlyJob(w, w2, j) /\ w2.node = w.node /\ w2.twice = w.twice
  /\ w2.job[j].state = s /\ StateOnly(w.job[j], w2.job[j]) /\ w2.job[j].leader = w.job[j].leader

\* Only the state of one job is changed.
LEMMA StateFacts ==
  ASSUME NEW w \in TablesType, NEW j \in Jobs, NEW s \in States
  PROVE  Moved(w, [w EXCEPT !.job[j].state = s], j, s)
  <1> DEFINE r == [w.job[j] EXCEPT !.state = s]
             w2 == [w EXCEPT !.job[j] = r]
  <1>1. w.job[j] \in JobRec
    BY SMT DEF TablesType
  <1>2. r \in JobRec
    BY <1>1, RecTypes
  <1>3. r.state = s /\ StateOnly(w.job[j], r) /\ r.leader = w.job[j].leader
    BY SMT, <1>1 DEF JobRec, StateOnly
  <1>4. OnlyJob(w, w2, j) /\ w2.job[j] = r /\ w2.node = w.node /\ w2.twice = w.twice
    <2> HIDE DEF r
    <2> QED
      BY <1>2, JobFacts
  <1>5. [w EXCEPT !.job[j].state = s] = w2
    BY SMT DEF TablesType
  <1> HIDE DEF w2, r
  <1> QED
    BY <1>3, <1>4, <1>5 DEF Moved

\* The running job j has ended and its nodes are completing.
EndRec(r, r2) ==
  /\ r2.state = "ENDED" /\ r2.cg = r.nodes /\ (r2.completing <=> r.nodes # {})
  /\ r2.nodes = r.nodes /\ r2.cnt = r.cnt
Freed(w, w2, j) ==
  /\ OnlyJob(w, w2, j) /\ w2.twice = w.twice /\ EndRec(w.job[j], w2.job[j])
  /\ RunDown(w, w2, w.job[j].nodes) /\ CompUp(w, w2, w.job[j].nodes)

\* What deallocate_nodes does.
LEMMA FreeFacts ==
  ASSUME NEW w \in TablesType, NEW j \in Jobs
  PROVE  Freed(w, deallocate_nodes(w, j), j)
  <1> DEFINE ns == w.job[j].nodes
             b == ns # {}
             r == [w.job[j] EXCEPT !.state = "ENDED", !.cg = ns, !.completing = b]
             u == [w EXCEPT !.job[j] = r]
  <1>1. w.job[j] \in JobRec /\ ns \in SUBSET Nodes /\ b \in BOOLEAN
    BY SMT DEF TablesType, JobRec
  <1>2. deallocate_nodes(w, j) = make_node_comp(u, ns, FALSE)
    BY DEF deallocate_nodes
  <1>3. r \in JobRec /\ EndRec(w.job[j], r)
    <2>1. r \in JobRec
      <3> HIDE DEF ns, b
      <3> QED
        BY <1>1, RecTypes DEF States
    <2>2. r.state = "ENDED" /\ r.cg = ns /\ r.completing = b /\ r.nodes = ns /\ r.cnt = w.job[j].cnt
      <3> HIDE DEF b
      <3> QED
        BY SMT, <1>1 DEF JobRec
    <2> HIDE DEF r
    <2> QED
      BY <2>1, <2>2 DEF EndRec
  <1>4. OnlyJob(w, u, j) /\ u.job[j] = r /\ u.node = w.node /\ u.twice = w.twice
    <2> HIDE DEF r
    <2> QED
      BY <1>3, JobFacts
  <1>5. u \in TablesType
    BY <1>4 DEF OnlyJob
  <1> HIDE DEF u, r
  <1>6. LET w2 == make_node_comp(u, ns, FALSE) IN
        Counted(u, w2) /\ RunDown(u, w2, ns) /\ CompUp(u, w2, ns)
    <2> HIDE DEF ns
    <2> QED
      BY <1>1, <1>5, CompFacts
  <1> QED
    BY <1>1, <1>2, <1>3, <1>4, <1>6 DEF Freed, OnlyJob, Counted, RunDown, CompUp

\* The member j is backed out.
Returned(w, w2, j) ==
  /\ OnlyJob(w, w2, j) /\ w2.twice = w.twice
  /\ w2.job[j].state = "PENDING" /\ StateOnly(w.job[j], w2.job[j])
  /\ RunDown(w, w2, w.job[j].nodes) /\ CompSame(w, w2)

\* What _deallocate_jpck does.
LEMMA ReturnFacts ==
  ASSUME NEW w \in TablesType, NEW j \in Jobs
  PROVE  Returned(w, _deallocate_jpck(w, j), j)
  <1> DEFINE ns == w.job[j].nodes
             u == [w EXCEPT !.job[j].state = "PENDING"]
  <1>1. ns \in SUBSET Nodes
    BY SMT DEF TablesType, JobRec
  <1>2. Moved(w, u, j, "PENDING")
    <2>1. "PENDING" \in States
      BY DEF States
    <2> QED
      BY <2>1, StateFacts
  <1>3. _deallocate_jpck(w, j) = make_node_comp(u, ns, TRUE)
    BY DEF _deallocate_jpck
  <1> HIDE DEF u
  <1>4. u \in TablesType
    BY <1>2 DEF Moved, OnlyJob
  <1>5. LET w2 == make_node_comp(u, ns, TRUE) IN
        Counted(u, w2) /\ RunDown(u, w2, ns) /\ CompSame(u, w2)
    <2> HIDE DEF ns
    <2> QED
      BY <1>1, <1>4, CompFacts
  <1> QED
    BY <1>1, <1>2, <1>3, <1>5 DEF Returned, Moved, OnlyJob, Counted, RunDown, CompSame

-----------------------------------------------------------------------------
(* The counters of the nodes: each function keeps the tables sound.        *)

RunsOn(w, j, n) == w.job[j].state = "RUNNING" /\ n \in w.job[j].nodes
EndsOn(w, j, n) == w.job[j].state = "ENDED" /\ n \in w.job[j].cg

\* The counters of node n count the jobs on it, at most one.
NodeOK(w, n) ==
  /\ w.node[n].run = IF \E j \in Jobs : RunsOn(w, j, n) THEN 1 ELSE 0
  /\ w.node[n].comp = IF \E j \in Jobs : EndsOn(w, j, n) THEN 1 ELSE 0
  /\ \A j, k \in Jobs :
       (RunsOn(w, j, n) \/ EndsOn(w, j, n)) /\ (RunsOn(w, k, n) \/ EndsOn(w, k, n)) => j = k

\* The epilogs the record j still waits for, unless its nodes were taken twice.
JobOK(w, j) ==
  /\ w.job[j].cg \subseteq w.job[j].nodes
  /\ w.job[j].state \in {"none", "PENDING", "RUNNING"} =>
       w.job[j].cg = {} /\ ~ w.job[j].completing
  /\ w.job[j].state = "RUNNING" => w.job[j].cnt = Cardinality(w.job[j].nodes)
  /\ w.job[j].state = "ENDED" =>
       \/ w.job[j].nodes \subseteq w.twice
       \/ w.job[j].cg = {} /\ ~ w.job[j].completing
       \/ w.job[j].completing /\ w.job[j].cnt = Cardinality(w.job[j].cg)

Sound(w) == (\A n \in Nodes \ w.twice : NodeOK(w, n)) /\ (\A j \in Jobs : JobOK(w, j))

\* The jobs on node n are the same.
SameOn(w, w2, n) ==
  \A j \in Jobs : (RunsOn(w2, j, n) <=> RunsOn(w, j, n)) /\ (EndsOn(w2, j, n) <=> EndsOn(w, j, n))

\* A node with the same jobs and the same counters is as sound as it was.
LEMMA NodeSame ==
  ASSUME NEW w, NEW w2, NEW n, NodeOK(w, n), SameOn(w, w2, n),
         w2.node[n].run = w.node[n].run, w2.node[n].comp = w.node[n].comp
  PROVE  NodeOK(w2, n)
  <1>1. (\E j \in Jobs : RunsOn(w2, j, n)) <=> (\E j \in Jobs : RunsOn(w, j, n))
    BY DEF SameOn
  <1>2. (\E j \in Jobs : EndsOn(w2, j, n)) <=> (\E j \in Jobs : EndsOn(w, j, n))
    BY DEF SameOn
  <1>3. \A j, k \in Jobs :
          (RunsOn(w2, j, n) \/ EndsOn(w2, j, n)) /\ (RunsOn(w2, k, n) \/ EndsOn(w2, k, n)) => j = k
    BY DEF SameOn, NodeOK
  <1> QED
    BY <1>1, <1>2, <1>3 DEF NodeOK

\* Nobody is on n, or j alone.
LEMMA NodeFree ==
  ASSUME NEW w, NEW n, w.node[n].run = 0, w.node[n].comp = 0,
         \A j \in Jobs : ~ RunsOn(w, j, n) /\ ~ EndsOn(w, j, n)
  PROVE  NodeOK(w, n)
  BY DEF NodeOK

\* Only j is on n, and runs.
LEMMA NodeRuns ==
  ASSUME NEW w, NEW n, NEW j \in Jobs, w.node[n].run = 1, w.node[n].comp = 0, RunsOn(w, j, n),
         \A k \in Jobs : ~ EndsOn(w, k, n) /\ (RunsOn(w, k, n) => k = j)
  PROVE  NodeOK(w, n)
  BY DEF NodeOK

\* Only j is on n, and completes.
LEMMA NodeEnds ==
  ASSUME NEW w, NEW n, NEW j \in Jobs, w.node[n].run = 0, w.node[n].comp = 1, EndsOn(w, j, n),
         \A k \in Jobs : ~ RunsOn(w, k, n) /\ (EndsOn(w, k, n) => k = j)
  PROVE  NodeOK(w, n)
  BY DEF NodeOK

\* The other way round.
LEMMA NodeReads ==
  ASSUME NEW w, NEW n, NodeOK(w, n)
  PROVE  /\ w.node[n].run = 0 /\ w.node[n].comp = 0 =>
              \A j \in Jobs : ~ RunsOn(w, j, n) /\ ~ EndsOn(w, j, n)
         /\ \A j \in Jobs : RunsOn(w, j, n) =>
              /\ w.node[n].run = 1 /\ w.node[n].comp = 0
              /\ \A k \in Jobs : ~ EndsOn(w, k, n) /\ (RunsOn(w, k, n) => k = j)
         /\ \A j \in Jobs : EndsOn(w, j, n) =>
              /\ w.node[n].run = 0 /\ w.node[n].comp = 1
              /\ \A k \in Jobs : ~ RunsOn(w, k, n) /\ (EndsOn(w, k, n) => k = j)
  <1>0. 1 # 0
    BY SMT
  <1>1. w.node[n].run = 0 /\ w.node[n].comp = 0 =>
              \A j \in Jobs : ~ RunsOn(w, j, n) /\ ~ EndsOn(w, j, n)
    BY <1>0 DEF NodeOK
  <1>2. ASSUME NEW j \in Jobs, RunsOn(w, j, n)
        PROVE  /\ w.node[n].run = 1 /\ w.node[n].comp = 0
               /\ \A k \in Jobs : ~ EndsOn(w, k, n) /\ (RunsOn(w, k, n) => k = j)
    <2>1. \A k \in Jobs : ~ EndsOn(w, k, n)
      <3> SUFFICES ASSUME NEW k \in Jobs, EndsOn(w, k, n)
                   PROVE  FALSE
        OBVIOUS
      <3>1. k = j
        BY <1>2 DEF NodeOK
      <3>2. "RUNNING" # "ENDED"
        BY SMT
      <3> QED
        BY <1>2, <3>1, <3>2 DEF RunsOn, EndsOn
    <2> QED
      BY <1>2, <2>1 DEF NodeOK
  <1>3. ASSUME NEW j \in Jobs, EndsOn(w, j, n)
        PROVE  /\ w.node[n].run = 0 /\ w.node[n].comp = 1
               /\ \A k \in Jobs : ~ RunsOn(w, k, n) /\ (EndsOn(w, k, n) => k = j)
    <2>1. \A k \in Jobs : ~ RunsOn(w, k, n)
      BY <1>2, <1>3
    <2> QED
      BY <1>3, <2>1 DEF NodeOK
  <1> QED
    BY <1>1, <1>2, <1>3

\* A job changes no node it is on neither before nor after.
LEMMA OthersSame ==
  ASSUME NEW w, NEW w2, NEW j \in Jobs, NEW n, \A k \in Jobs : k # j => w2.job[k] = w.job[k],
         ~ RunsOn(w, j, n), ~ EndsOn(w, j, n), ~ RunsOn(w2, j, n), ~ EndsOn(w2, j, n)
  PROVE  SameOn(w, w2, n)
  BY DEF SameOn, RunsOn, EndsOn

\* The other jobs stay on their nodes.
LEMMA OthersOn ==
  ASSUME NEW w, NEW w2, NEW j, \A k \in Jobs : k # j => w2.job[k] = w.job[k]
  PROVE  \A k \in Jobs, n \in Nodes : k # j => /\ (RunsOn(w2, k, n) <=> RunsOn(w, k, n))
                                               /\ (EndsOn(w2, k, n) <=> EndsOn(w, k, n))
  BY DEF RunsOn, EndsOn

\* The other records stay sound.
LEMMA OthersOK ==
  ASSUME NEW w, NEW w2, NEW j, \A k \in Jobs : k # j => w2.job[k] = w.job[k],
         \A k \in Jobs : JobOK(w, k), w.twice \subseteq w2.twice
  PROVE  \A k \in Jobs : k # j => JobOK(w2, k)
  BY DEF JobOK

\* A job that held nothing may be started on idle nodes.
LEMMA SoundStart ==
  ASSUME NEW w, NEW w2, NEW j \in Jobs, NEW ns \in SUBSET Nodes, Sound(w), Started(w, w2, j, ns),
         w.job[j].state # "RUNNING", w.job[j].cg = {}
  PROVE  Sound(w2)
  <1>1. ASSUME NEW n \in Nodes \ w2.twice
        PROVE  NodeOK(w2, n)
    <2>0. NodeOK(w, n)
      BY DEF Sound, Started
    <2>1. ~ RunsOn(w, j, n) /\ ~ EndsOn(w, j, n) /\ ~ EndsOn(w2, j, n)
      BY DEF RunsOn, EndsOn, Started, RunRec
    <2>2. CASE n \in ns
      <3>1. w.node[n].run = 0 /\ w.node[n].comp = 0
        BY <2>2 DEF Started, idle_nodes
      <3>2. w2.node[n].run = 1 /\ w2.node[n].comp = 0
        <4>1. w2.node[n].run = w.node[n].run + 1 /\ w2.node[n].comp = w.node[n].comp
          BY <2>2 DEF Started, RunUp, CompSame
        <4> QED
          BY SMT, <3>1, <4>1
      <3>3. \A k \in Jobs : ~ RunsOn(w, k, n) /\ ~ EndsOn(w, k, n)
        BY <2>0, <3>1, NodeReads
      <3>4. RunsOn(w2, j, n)
        BY <2>2 DEF Started, RunRec, RunsOn
      <3>5. \A k \in Jobs : ~ EndsOn(w2, k, n) /\ (RunsOn(w2, k, n) => k = j)
        BY <2>1, <3>3, OthersOn DEF Started, OnlyJob
      <3> QED
        BY <3>2, <3>4, <3>5, NodeRuns
    <2>3. CASE n \notin ns
      <3>1. ~ RunsOn(w2, j, n)
        BY <2>3 DEF RunsOn, Started, RunRec
      <3>2. SameOn(w, w2, n)
        BY <2>1, <3>1, OthersSame DEF Started, OnlyJob
      <3>3. w2.node[n].run = w.node[n].run /\ w2.node[n].comp = w.node[n].comp
        BY <2>3 DEF Started, RunUp, CompSame
      <3> QED
        BY <2>0, <3>2, <3>3, NodeSame
    <2> QED
      BY <2>2, <2>3
  <1>2. JobOK(w2, j)
    <2>1. "RUNNING" # "ENDED"
      BY SMT
    <2> QED
      BY <2>1 DEF JobOK, Started, RunRec
  <1> QED
    BY <1>1, <1>2, OthersOK DEF Sound, Started, OnlyJob

\* A running job that ends hands its nodes over to the epilog.
LEMMA SoundFree ==
  ASSUME NEW w, NEW w2, NEW j \in Jobs, Sound(w), Freed(w, w2, j), w.job[j].state = "RUNNING"
  PROVE  Sound(w2)
  <1>0. "RUNNING" # "ENDED" /\ "ENDED" \notin {"none", "PENDING", "RUNNING"}
    BY SMT
  <1>1. ASSUME NEW n \in Nodes \ w2.twice
        PROVE  NodeOK(w2, n)
    <2>0. NodeOK(w, n)
      BY DEF Sound, Freed
    <2>1. ~ EndsOn(w, j, n) /\ ~ RunsOn(w2, j, n)
      BY <1>0 DEF RunsOn, EndsOn, Freed, EndRec
    <2>2. CASE n \in w.job[j].nodes
      <3>0. RunsOn(w, j, n)
        BY <2>2 DEF RunsOn
      <3>1. /\ w.node[n].run = 1 /\ w.node[n].comp = 0
            /\ \A k \in Jobs : ~ EndsOn(w, k, n) /\ (RunsOn(w, k, n) => k = j)
        BY <2>0, <3>0, NodeReads
      <3>2. w2.node[n].run = 0 /\ w2.node[n].comp = 1
        <4>1. /\ w2.node[n].run = IF w.node[n].run > 0 THEN w.node[n].run - 1 ELSE w.node[n].run
              /\ w2.node[n].comp = w.node[n].comp + 1
          BY <2>2 DEF Freed, RunDown, CompUp
        <4> QED
          BY SMT, <3>1, <4>1
      <3>4. EndsOn(w2, j, n)
        BY <2>2 DEF Freed, EndRec, EndsOn
      <3>5. ASSUME NEW k \in Jobs
            PROVE  ~ RunsOn(w2, k, n) /\ (EndsOn(w2, k, n) => k = j)
        <4>1. CASE k = j
          BY <2>1, <4>1
        <4>2. CASE k # j
          BY <3>1, <4>2, OthersOn DEF Freed, OnlyJob
        <4> QED
          BY <4>1, <4>2
      <3> QED
        BY <3>2, <3>4, <3>5, NodeEnds
    <2>3. CASE n \notin w.job[j].nodes
      <3>1. ~ RunsOn(w, j, n) /\ ~ EndsOn(w2, j, n)
        BY <2>3 DEF RunsOn, EndsOn, Freed, EndRec
      <3>2. SameOn(w, w2, n)
        BY <2>1, <3>1, OthersSame DEF Freed, OnlyJob
      <3>3. w2.node[n].run = w.node[n].run /\ w2.node[n].comp = w.node[n].comp
        BY <2>3 DEF Freed, RunDown, CompUp
      <3> QED
        BY <2>0, <3>2, <3>3, NodeSame
    <2> QED
      BY <2>2, <2>3
  <1>2. JobOK(w2, j)
    BY <1>0 DEF JobOK, Freed, EndRec, Sound
  <1> QED
    BY <1>1, <1>2, OthersOK DEF Sound, Freed, OnlyJob

\* A member that is backed out gives its nodes up.
LEMMA SoundReturn ==
  ASSUME NEW w, NEW w2, NEW j \in Jobs, Sound(w), Returned(w, w2, j), w.job[j].state = "RUNNING"
  PROVE  Sound(w2)
  <1>0. "RUNNING" # "ENDED" /\ "PENDING" # "ENDED" /\ "PENDING" # "RUNNING"
    BY SMT
  <1>1. ASSUME NEW n \in Nodes \ w2.twice
        PROVE  NodeOK(w2, n)
    <2>0. NodeOK(w, n)
      BY DEF Sound, Returned
    <2>1. ~ EndsOn(w, j, n) /\ ~ RunsOn(w2, j, n) /\ ~ EndsOn(w2, j, n)
      BY <1>0 DEF RunsOn, EndsOn, Returned
    <2>2. CASE n \in w.job[j].nodes
      <3>0. RunsOn(w, j, n)
        BY <2>2 DEF RunsOn
      <3>1. /\ w.node[n].run = 1 /\ w.node[n].comp = 0
            /\ \A k \in Jobs : ~ EndsOn(w, k, n) /\ (RunsOn(w, k, n) => k = j)
        BY <2>0, <3>0, NodeReads
      <3>2. w2.node[n].run = 0 /\ w2.node[n].comp = 0
        <4>1. /\ w2.node[n].run = IF w.node[n].run > 0 THEN w.node[n].run - 1 ELSE w.node[n].run
              /\ w2.node[n].comp = w.node[n].comp
          BY <2>2 DEF Returned, RunDown, CompSame
        <4> QED
          BY SMT, <3>1, <4>1
      <3>5. \A k \in Jobs : ~ RunsOn(w2, k, n) /\ ~ EndsOn(w2, k, n)
        BY <2>1, <3>1, OthersOn DEF Returned, OnlyJob
      <3> QED
        BY <3>2, <3>5, NodeFree
    <2>3. CASE n \notin w.job[j].nodes
      <3>1. ~ RunsOn(w, j, n)
        BY <2>3 DEF RunsOn
      <3>2. SameOn(w, w2, n)
        BY <2>1, <3>1, OthersSame DEF Returned, OnlyJob
      <3>3. w2.node[n].run = w.node[n].run /\ w2.node[n].comp = w.node[n].comp
        BY <2>3 DEF Returned, RunDown, CompSame
      <3> QED
        BY <2>0, <3>2, <3>3, NodeSame
    <2> QED
      BY <2>2, <2>3
  <1>2. JobOK(w2, j)
    BY <1>0 DEF JobOK, Returned, StateOnly, Sound
  <1> QED
    BY <1>1, <1>2, OthersOK DEF Sound, Returned, OnlyJob

\* _job_timed_out on a job that does not run: its nodes are taken once more.
Retaken(w, w2, j) ==
  /\ OnlyJob(w, w2, j) /\ w2.twice = w.twice \cup w.job[j].nodes /\ EndRec(w.job[j], w2.job[j])
  /\ \A n \in Nodes : n \notin w.job[j].nodes =>
       w2.node[n].run = w.node[n].run /\ w2.node[n].comp = w.node[n].comp

\* Where the nodes are taken a second time, only they become unsound.
LEMMA SoundRetaken ==
  ASSUME NEW w, NEW w2, NEW j \in Jobs, Sound(w), Retaken(w, w2, j)
  PROVE  Sound(w2)
  <1>0. "RUNNING" # "ENDED" /\ "ENDED" \notin {"none", "PENDING", "RUNNING"}
    BY SMT
  <1>1. ASSUME NEW n \in Nodes \ w2.twice
        PROVE  NodeOK(w2, n)
    <2>0. NodeOK(w, n) /\ n \notin w.job[j].nodes
      BY DEF Sound, Retaken
    <2>1. ~ RunsOn(w, j, n) /\ ~ EndsOn(w, j, n) /\ ~ RunsOn(w2, j, n) /\ ~ EndsOn(w2, j, n)
      BY <2>0 DEF RunsOn, EndsOn, Retaken, EndRec, Sound, JobOK
    <2>2. SameOn(w, w2, n)
      BY <2>1, OthersSame DEF Retaken, OnlyJob
    <2> QED
      BY <2>0, <2>2, NodeSame DEF Retaken
  <1>2. JobOK(w2, j)
    BY <1>0 DEF JobOK, Retaken, EndRec
  <1>3. w.twice \subseteq w2.twice
    BY DEF Retaken
  <1> QED
    BY <1>1, <1>2, <1>3, OthersOK DEF Sound, Retaken, OnlyJob

\* Steps that take and give no node: a job is submitted, ends while it waits, or is purged.
Quiet(w, w2) ==
  /\ w2.node = w.node /\ w2.twice = w.twice
  /\ \A k \in Jobs :
       /\ StateOnly(w.job[k], w2.job[k])
       /\ \/ w2.job[k].state = w.job[k].state
          \/ w.job[k].state \in {"none", "PENDING"} /\ w2.job[k].state \in {"PENDING", "ENDED"}
          \/ w.job[k].state = "ENDED" /\ ~ w.job[k].completing /\ w2.job[k].state = "purged"

\* Steps that take and give no node keep the tables sound.
LEMMA SoundQuiet ==
  ASSUME NEW w, NEW w2, Sound(w), Quiet(w, w2)
  PROVE  Sound(w2)
  <1>0. "RUNNING" # "ENDED" /\ "RUNNING" \notin {"none", "PENDING", "ENDED", "purged"}
        /\ "ENDED" \notin {"none", "PENDING", "RUNNING", "purged"}
        /\ "purged" \notin {"none", "PENDING", "RUNNING", "ENDED"}
    BY SMT
  <1>1. ASSUME NEW n \in Nodes \ w2.twice
        PROVE  NodeOK(w2, n)
    <2>0. NodeOK(w, n) /\ n \notin w.twice
      BY DEF Sound, Quiet
    <2>1. ASSUME NEW k \in Jobs
          PROVE  (RunsOn(w2, k, n) <=> RunsOn(w, k, n)) /\ (EndsOn(w2, k, n) <=> EndsOn(w, k, n))
      <3>1. StateOnly(w.job[k], w2.job[k]) /\ JobOK(w, k)
        BY DEF Quiet, Sound
      <3>2. CASE w2.job[k].state = w.job[k].state
        BY <3>1, <3>2 DEF RunsOn, EndsOn, StateOnly
      <3>3. CASE w.job[k].state \in {"none", "PENDING"} /\ w2.job[k].state \in {"PENDING", "ENDED"}
        BY <1>0, <3>1, <3>3 DEF RunsOn, EndsOn, StateOnly, JobOK
      <3>4. CASE w.job[k].state = "ENDED" /\ ~ w.job[k].completing /\ w2.job[k].state = "purged"
        BY <1>0, <2>0, <3>1, <3>4 DEF RunsOn, EndsOn, StateOnly, JobOK
      <3> QED
        BY <3>2, <3>3, <3>4 DEF Quiet
    <2> QED
      BY <2>0, <2>1, NodeSame DEF SameOn, Quiet
  <1>2. ASSUME NEW k \in Jobs
        PROVE  JobOK(w2, k)
    <2>1. StateOnly(w.job[k], w2.job[k]) /\ JobOK(w, k) /\ w2.twice = w.twice
      BY DEF Quiet, Sound
    <2>2. CASE w2.job[k].state = w.job[k].state
      BY <2>1, <2>2 DEF StateOnly, JobOK
    <2>3. CASE w.job[k].state \in {"none", "PENDING"} /\ w2.job[k].state \in {"PENDING", "ENDED"}
      BY <1>0, <2>1, <2>3 DEF StateOnly, JobOK
    <2>4. CASE w.job[k].state = "ENDED" /\ ~ w.job[k].completing /\ w2.job[k].state = "purged"
      BY <1>0, <2>1, <2>4 DEF StateOnly, JobOK
    <2> QED
      BY <2>2, <2>3, <2>4 DEF Quiet
  <1> QED
    BY <1>1, <1>2 DEF Sound

\* The epilog of the job j is over on node n.
IdleRec(r, r2, n) ==
  /\ r2.state = r.state /\ r2.nodes = r.nodes /\ r2.cg = r.cg \ {n}
  /\ r2.cnt = (IF r.cnt > 0 THEN r.cnt - 1 ELSE 0)
  /\ (r2.completing <=> r.completing /\ r.cnt # 1)
Idled(w, w2, j, n) ==
  /\ OnlyJob(w, w2, j) /\ w2.twice = w.twice /\ IdleRec(w.job[j], w2.job[j], n)
  /\ \A m \in Nodes :
       /\ w2.node[m].run = w.node[m].run
       /\ w2.node[m].comp = IF m = n /\ w.node[m].comp > 0 THEN w.node[m].comp - 1 ELSE w.node[m].comp

\* What make_node_idle does.
LEMMA IdleFacts ==
  ASSUME NEW w \in TablesType, NEW j \in Jobs, NEW n \in Nodes
  PROVE  Idled(w, make_node_idle(w, j, n), j, n)
  <1> DEFINE g == w.job[j].cg \ {n}
             c == IF w.job[j].cnt > 0 THEN w.job[j].cnt - 1 ELSE 0
             b == w.job[j].completing /\ w.job[j].cnt # 1
             r == [w.job[j] EXCEPT !.cg = g, !.cnt = c, !.completing = b]
             u == [w EXCEPT !.job[j] = r]
             d == IF w.node[n].comp > 0 THEN w.node[n].comp - 1 ELSE 0
             w2 == [u EXCEPT !.node[n].comp = d]
  <1>1. w.job[j] \in JobRec /\ w.job[j].cnt \in 0..N /\ w.job[j].cg \in SUBSET Nodes
    BY SMT DEF TablesType, JobRec
  <1>2. g \in SUBSET Nodes /\ b \in BOOLEAN
    BY <1>1
  <1>3. c \in 0..N
    <2>1. N \in Nat
      BY JobIds
    <2> QED
      BY SMT, <1>1, <2>1
  <1>4. w.node[n].comp \in Nat /\ d \in Nat
    BY SMT DEF TablesType, NodeRec
  <1>5. r \in JobRec /\ IdleRec(w.job[j], r, n)
    <2>1. r \in JobRec
      <3> HIDE DEF g, b, c
      <3> QED
        BY <1>1, <1>2, <1>3, RecTypes
    <2>2. r.state = w.job[j].state /\ r.cg = g /\ r.completing = b /\ r.nodes = w.job[j].nodes /\ r.cnt = c
      <3> HIDE DEF b, c
      <3> QED
        BY SMT, <1>1 DEF JobRec
    <2> HIDE DEF r
    <2> QED
      BY <2>1, <2>2 DEF IdleRec
  <1>6. make_node_idle(w, j, n) = w2
    BY DEF make_node_idle
  <1>7. OnlyJob(w, u, j) /\ u.job[j] = r /\ u.node = w.node /\ u.twice = w.twice
    <2> HIDE DEF r
    <2> QED
      BY <1>5, JobFacts
  <1> HIDE DEF u, r, d
  <1>8. Counted(u, w2) /\ \A m \in Nodes :
          /\ w2.node[m].run = u.node[m].run
          /\ w2.node[m].comp = IF m = n THEN d ELSE u.node[m].comp
    <2>1. u \in TablesType
      BY <1>7 DEF OnlyJob
    <2> DEFINE h == [u.node EXCEPT ![n] = [u.node[n] EXCEPT !.comp = d]]
    <2>2. h \in [Nodes -> NodeRec] /\ \A m \in Nodes :
            h[m].run = u.node[m].run /\ h[m].comp = IF m = n THEN d ELSE u.node[m].comp
      <3>1. u.node \in [Nodes -> NodeRec]
        BY SMT, <2>1 DEF TablesType
      <3>2. ASSUME NEW m \in Nodes
            PROVE  h[m] \in NodeRec /\ h[m].run = u.node[m].run
                   /\ h[m].comp = IF m = n THEN d ELSE u.node[m].comp
        <4>1. u.node[m] \in NodeRec /\ h[m] = IF m = n THEN [u.node[n] EXCEPT !.comp = d] ELSE u.node[m]
          BY <3>1
        <4> HIDE DEF h
        <4> QED
          BY SMT, <1>4, <4>1 DEF NodeRec
      <3> QED
        BY <3>1, <3>2
    <2>3. w2 = [u EXCEPT !.node = h]
      OBVIOUS
    <2> HIDE DEF h, w2
    <2>4. Counted(u, w2) /\ w2.node = h
      BY SMT, <2>1, <2>2, <2>3 DEF TablesType, Counted
    <2> HIDE DEF w2
    <2> QED
      BY <2>2, <2>4
  <1>9. ASSUME NEW m \in Nodes
        PROVE  /\ w2.node[m].run = w.node[m].run
               /\ w2.node[m].comp = IF m = n /\ w.node[m].comp > 0 THEN w.node[m].comp - 1 ELSE w.node[m].comp
    <2>1. w.node[n].comp = 0 \/ w.node[n].comp > 0
      BY SMT, <1>4
    <2> HIDE DEF w2
    <2> QED
      BY <1>7, <1>8, <2>1 DEF d
  <1> HIDE DEF w2
  <1> QED
    BY <1>5, <1>6, <1>7, <1>8, <1>9 DEF Idled, OnlyJob, Counted

\* The end of an epilog keeps the tables sound: the count of the record is the number of
\* nodes it waits for, so JOB_COMPLETING is reset by the last of them and by no other.
LEMMA SoundIdle ==
  ASSUME NEW w \in TablesType, NEW w2, NEW j \in Jobs, NEW n \in Nodes, Sound(w),
         Idled(w, w2, j, n), EndsOn(w, j, n)
  PROVE  Sound(w2)
  <1>0. "RUNNING" # "ENDED" /\ "ENDED" \notin {"none", "PENDING", "RUNNING"}
    BY SMT
  <1>1. ASSUME NEW m \in Nodes \ w2.twice
        PROVE  NodeOK(w2, m)
    <2>0. NodeOK(w, m)
      BY DEF Sound, Idled
    <2>1. CASE m = n
      <3>1. /\ w.node[n].run = 0 /\ w.node[n].comp = 1
            /\ \A k \in Jobs : ~ RunsOn(w, k, n) /\ (EndsOn(w, k, n) => k = j)
        BY <2>0, <2>1, NodeReads
      <3>2. w2.node[n].run = 0 /\ w2.node[n].comp = 0
        <4>1. w2.node[n].run = w.node[n].run
              /\ w2.node[n].comp = IF w.node[n].comp > 0 THEN w.node[n].comp - 1 ELSE w.node[n].comp
          BY DEF Idled
        <4> QED
          BY SMT, <3>1, <4>1
      <3>3. ASSUME NEW k \in Jobs
            PROVE  ~ RunsOn(w2, k, n) /\ ~ EndsOn(w2, k, n)
        <4>1. CASE k = j
          BY <3>1, <4>1 DEF RunsOn, EndsOn, Idled, IdleRec
        <4>2. CASE k # j
          BY <3>1, <4>2, OthersOn DEF Idled, OnlyJob
        <4> QED
          BY <4>1, <4>2
      <3> QED
        BY <2>1, <3>2, <3>3, NodeFree
    <2>2. CASE m # n
      <3>1. SameOn(w, w2, m)
        BY <2>2 DEF SameOn, RunsOn, EndsOn, Idled, OnlyJob, IdleRec
      <3>2. w2.node[m].run = w.node[m].run /\ w2.node[m].comp = w.node[m].comp
        BY <2>2 DEF Idled
      <3> QED
        BY <2>0, <3>1, <3>2, NodeSame
    <2> QED
      BY <2>1, <2>2
  <1>2. JobOK(w2, j)
    <2> DEFINE r == w.job[j]
               r2 == w2.job[j]
    <2>0. IdleRec(r, r2, n) /\ JobOK(w, j) /\ r.state = "ENDED" /\ n \in r.cg /\ w2.twice = w.twice
      BY DEF Idled, Sound, EndsOn
    <2>1. CASE r.nodes \subseteq w.twice
      BY <1>0, <2>0, <2>1 DEF JobOK, IdleRec
    <2>2. CASE r.completing /\ r.cnt = Cardinality(r.cg)
      <3>1. r.cg \in SUBSET Nodes
        BY SMT DEF TablesType, JobRec
      <3>2. IsFiniteSet(r.cg) /\ Cardinality(r.cg) \in 0..N
        BY <3>1, NodesCount
      <3>3. Cardinality(r2.cg) = Cardinality(r.cg) - 1 /\ IsFiniteSet(r2.cg)
        <4>1. r2.cg = r.cg \ {n} /\ n \in r.cg
          BY <2>0 DEF IdleRec
        <4>2. Cardinality(r.cg \ {n}) = Cardinality(r.cg) - 1 /\ IsFiniteSet(r.cg \ {n})
          BY SMTT(20), <3>2, <4>1, FS_RemoveElement
        <4> QED
          BY <4>1, <4>2
      <3>4. r2.cnt = Cardinality(r2.cg) /\ (r.cnt = 1 => Cardinality(r2.cg) = 0)
        <4>1. r2.cnt = IF r.cnt > 0 THEN r.cnt - 1 ELSE 0
          BY <2>0 DEF IdleRec
        <4>2. Cardinality(r2.cg) \in Nat
          BY <3>3, FS_CardinalityType
        <4>3. N \in Nat
          BY JobIds
        <4> HIDE DEF r, r2
        <4> QED
          BY SMT, <2>2, <3>2, <3>3, <4>1, <4>2, <4>3
      <3>5. r.cnt = 1 => r2.cg = {}
        BY <3>3, <3>4, FS_EmptySet
      <3>6. r2.completing <=> r.cnt # 1
        BY <2>0, <2>2 DEF IdleRec
      <3>7. r2.cg \subseteq r2.nodes /\ r2.state = "ENDED"
        BY <2>0 DEF IdleRec, JobOK
      <3> QED
        BY <1>0, <3>4, <3>5, <3>6, <3>7 DEF JobOK
    <2> QED
      BY <2>0, <2>1, <2>2 DEF JobOK
  <1> QED
    BY <1>1, <1>2, OthersOK DEF Sound, Idled, OnlyJob

-----------------------------------------------------------------------------
(* A pack stays together while jobs end.                                   *)

Waits(w) == w.job[Leader].state \in {"none", "PENDING"}

\* A pack that waits holds nothing; all the members of one that runs were started.
Together(w) ==
  /\ Waits(w) => /\ \A m \in MemberSet : w.job[m].state # "RUNNING" /\ w.job[m].cg = {}
                 /\ \A i \in DOMAIN w.list.deps : ~ w.list.deps[i].alloc
  /\ w.job[Leader].state = "RUNNING" =>
       \A i \in DOMAIN w.list.deps :
          w.list.deps[i].alloc /\ w.job[Members[i]].state \notin {"none", "PENDING"}

Good(w) == w \in TablesType /\ Sound(w) /\ Together(w)

\* The members are apart from each other and from the leader.
LEMMA MemberFacts ==
  /\ Len(Members) \in Nat /\ Len(Members) \in 0..Len(Members) /\ DOMAIN Members = 1..Len(Members)
  /\ \A i \in 1..Len(Members) : Members[i] \in MemberSet /\ Members[i] \in Jobs /\ Members[i] # Leader
  /\ \A i, k \in 1..Len(Members) : Members[i] = Members[k] => i = k
  /\ \A m \in MemberSet : m \in Jobs /\ m # Leader /\ \E i \in 1..Len(Members) : Members[i] = m
  /\ Leader \in Jobs
  <1>1. Len(Members) \in Nat /\ Len(Members) \in 0..Len(Members) /\ DOMAIN Members = 1..Len(Members)
    BY SMT, JobIds
  <1>2. Leader \notin MemberSet /\ \A i, k \in 1..Len(Members) : Members[i] = Members[k] => i = k
    BY <1>1, JobIds DEF IsInjective
  <1> QED
    BY <1>1, <1>2 DEF MemberSet, Range, Jobs

\* The entries of the list are places among the members.
LEMMA DepFacts ==
  ASSUME NEW w \in TablesType
  PROVE  /\ DOMAIN w.list.deps \subseteq 1..Len(Members)
         /\ w.list.deps \in [DOMAIN w.list.deps -> Dep]
         /\ \A i \in DOMAIN w.list.deps : w.list.deps[i].found \in BOOLEAN /\ w.list.deps[i].alloc \in BOOLEAN
  <1>1. w.list.deps \in Deps
    BY SMT DEF TablesType
  <1>2. PICK I \in SUBSET DOMAIN Members : w.list.deps \in [I -> Dep]
    BY <1>1 DEF Deps
  <1>3. DOMAIN w.list.deps \subseteq 1..Len(Members) /\ w.list.deps \in [DOMAIN w.list.deps -> Dep]
    BY <1>2, MemberFacts
  <1>4. \A d \in Dep : d.found \in BOOLEAN /\ d.alloc \in BOOLEAN
    BY SMT DEF Dep
  <1> QED
    BY <1>3, <1>4

-----------------------------------------------------------------------------
(* The ends of jobs.                                                       *)

\* From w to w2 some jobs have ended, and nothing else has happened to a state.
Winds(w, w2) ==
  /\ Good(w2) /\ w2.list = w.list
  /\ \A j \in Jobs : w2.job[j].state \in {w.job[j].state, "ENDED"}

\* One end after the other.
LEMMA WindsOn ==
  ASSUME NEW w, NEW t, NEW u, Winds(w, t), Winds(t, u)
  PROVE  Winds(w, u)
  BY DEF Winds

\* A job that ends does not separate a pack.
LEMMA TogetherEnds ==
  ASSUME NEW w \in TablesType, NEW w2, NEW j \in Jobs, OnlyJob(w, w2, j), Together(w),
         w2.job[j].state = "ENDED", j \in MemberSet /\ Waits(w) => w2.job[j].cg = {}
  PROVE  Together(w2)
  <1>0. "ENDED" \notin {"none", "PENDING"} /\ "ENDED" # "RUNNING"
    BY SMT
  <1>1. w2.list = w.list /\ \A k \in Jobs : k # j => w2.job[k] = w.job[k]
    BY DEF OnlyJob
  <1>2. CASE j = Leader
    BY <1>0, <1>2 DEF Together, Waits
  <1>3. CASE j # Leader
    <2>1. w2.job[Leader] = w.job[Leader]
      BY <1>1, <1>3, MemberFacts
    <2>2. ASSUME Waits(w2)
          PROVE  /\ \A m \in MemberSet : w2.job[m].state # "RUNNING" /\ w2.job[m].cg = {}
                 /\ \A i \in DOMAIN w2.list.deps : ~ w2.list.deps[i].alloc
      <3>1. Waits(w)
        BY <2>1, <2>2 DEF Waits
      <3>2. \A m \in MemberSet : m \in Jobs
        BY MemberFacts
      <3> QED
        BY <1>0, <1>1, <3>1, <3>2 DEF Together
    <2>3. ASSUME w2.job[Leader].state = "RUNNING", NEW i \in DOMAIN w2.list.deps
          PROVE  w2.list.deps[i].alloc /\ w2.job[Members[i]].state \notin {"none", "PENDING"}
      <3>1. Members[i] \in Jobs
        BY <1>1, <2>3, DepFacts, MemberFacts
      <3>2. w.list.deps[i].alloc /\ w.job[Members[i]].state \notin {"none", "PENDING"}
        BY <1>1, <2>1, <2>3 DEF Together
      <3> QED
        BY <1>0, <1>1, <3>1, <3>2
    <2> QED
      BY <2>2, <2>3 DEF Together
  <1> QED
    BY <1>2, <1>3

\* A job that waits, or has ended, ends.
LEMMA EndsWaiting ==
  ASSUME NEW w, Good(w), NEW j \in Jobs, w.job[j].state \in {"PENDING", "ENDED"}
  PROVE  Winds(w, Ended(w, j))
  <1> DEFINE w2 == Ended(w, j)
  <1>1. Moved(w, w2, j, "ENDED")
    <2>1. "ENDED" \in States
      BY DEF States
    <2> QED
      BY <2>1, StateFacts DEF Ended, Good
  <1> HIDE DEF w2
  <1>2. Quiet(w, w2)
    <2>1. ASSUME NEW k \in Jobs
          PROVE  StateOnly(w.job[k], w2.job[k]) /\ (k # j => w2.job[k].state = w.job[k].state)
      BY <1>1 DEF Moved, OnlyJob, StateOnly
    <2> QED
      BY <1>1, <2>1 DEF Moved, Quiet
  <1>3. Sound(w2)
    BY <1>2, SoundQuiet DEF Good
  <1>4. w2 \in TablesType /\ OnlyJob(w, w2, j) /\ w2.list = w.list /\ w2.job[j].state = "ENDED"
    BY <1>1 DEF Moved, OnlyJob
  <1>5. Together(w2)
    <2>1. j \in MemberSet /\ Waits(w) => w2.job[j].cg = {}
      BY <1>1 DEF Good, Together, Moved, StateOnly
    <2> QED
      BY <1>4, <2>1, TogetherEnds DEF Good
  <1> QED
    BY <1>3, <1>4, <1>5 DEF Winds, Good, OnlyJob, w2

\* A job that runs ends.
LEMMA EndsRunning ==
  ASSUME NEW w, Good(w), NEW j \in Jobs, w.job[j].state = "RUNNING", NEW w2, Freed(w, w2, j)
  PROVE  Winds(w, w2)
  <1>1. w2 \in TablesType /\ OnlyJob(w, w2, j) /\ w2.list = w.list /\ w2.job[j].state = "ENDED"
    BY DEF Freed, OnlyJob, EndRec
  <1>2. Sound(w2)
    BY SoundFree DEF Good
  <1>3. Together(w2)
    <2>1. j \in MemberSet /\ Waits(w) => w2.job[j].cg = {}
      BY DEF Good, Together
    <2> QED
      BY <1>1, <2>1, TogetherEnds DEF Good
  <1> QED
    BY <1>1, <1>2, <1>3 DEF Winds, Good, OnlyJob

\* Nothing happens.
LEMMA WindsSame ==
  ASSUME NEW w, Good(w)
  PROVE  Winds(w, w)
  BY DEF Winds

\* What _job_signal and _job_complete do to one job.
LEMMA EndsSignalled ==
  ASSUME NEW w, Good(w), NEW j \in Jobs
  PROVE  Winds(w, _job_signal(w, j)) /\ Winds(w, _job_complete(w, j))
  <1>0. "PENDING" # "RUNNING"
    BY SMT
  <1>1. CASE w.job[j].state = "PENDING"
    <2>1. Winds(w, Ended(w, j))
      BY <1>1, EndsWaiting
    <2> QED
      BY <1>0, <1>1, <2>1, WindsSame DEF _job_signal, _job_complete
  <1>2. CASE w.job[j].state = "RUNNING"
    <2>1. Winds(w, deallocate_nodes(w, j))
      BY <1>2, EndsRunning, FreeFacts DEF Good
    <2> QED
      BY <1>0, <1>2, <2>1 DEF _job_signal, _job_complete
  <1>3. CASE w.job[j].state # "PENDING" /\ w.job[j].state # "RUNNING"
    BY <1>3, WindsSame DEF _job_signal, _job_complete
  <1> QED
    BY <1>1, <1>2, <1>3

\* The time limit takes a job's nodes, a second time if it does not run.
LEMMA TimeOutFacts ==
  ASSUME NEW w \in TablesType, NEW j \in Jobs, Found(w, j)
  PROVE  LET w2 == _job_timed_out(w, j) IN
         IF w.job[j].state = "RUNNING" THEN Freed(w, w2, j) ELSE Retaken(w, w2, j)
  <1> DEFINE u == deallocate_nodes(w, j)
             t == IF w.job[j].state = "RUNNING" THEN u.twice ELSE u.twice \cup w.job[j].nodes
             w2 == [u EXCEPT !.twice = t]
  <1>1. _job_timed_out(w, j) = w2
    BY DEF _job_timed_out
  <1>2. Freed(w, u, j)
    BY FreeFacts
  <1> HIDE DEF u
  <1>3. u \in TablesType /\ u.twice = w.twice
    BY <1>2 DEF Freed, OnlyJob
  <1>4. t \in SUBSET Nodes
    <2>1. w.twice \in SUBSET Nodes /\ w.job[j].nodes \in SUBSET Nodes
      BY SMT DEF TablesType, JobRec
    <2> QED
      BY <1>3, <2>1
  <1>5. w2 \in TablesType /\ w2.job = u.job /\ w2.node = u.node /\ w2.list = u.list /\ w2.twice = t
    <2> HIDE DEF t
    <2> QED
      BY SMT, <1>3, <1>4 DEF TablesType
  <1> HIDE DEF w2
  <1>6. CASE w.job[j].state = "RUNNING"
    <2>1. Freed(w, w2, j)
      BY <1>2, <1>3, <1>5, <1>6 DEF Freed, OnlyJob, RunDown, CompUp
    <2> QED
      BY <1>1, <1>6, <2>1
  <1>7. CASE w.job[j].state # "RUNNING"
    <2>1. Retaken(w, w2, j)
      BY <1>2, <1>3, <1>5, <1>7 DEF Freed, Retaken, OnlyJob, RunDown, CompUp
    <2> QED
      BY <1>1, <1>7, <2>1
  <1> QED
    BY <1>6, <1>7

\* What _job_timed_out does to one job, a member only if its leader does not wait or it runs.
LEMMA EndsLate ==
  ASSUME NEW w, Good(w), NEW j \in Jobs, j \in MemberSet => ~ Waits(w) \/ w.job[j].state = "RUNNING"
  PROVE  Winds(w, _job_timed_out(w, j)) /\ (Found(w, j) => _job_timed_out(w, j).job[j].state = "ENDED")
  <1> DEFINE w2 == _job_timed_out(w, j)
  <1>1. CASE ~ Found(w, j)
    BY <1>1, WindsSame DEF _job_timed_out
  <1>2. CASE Found(w, j) /\ w.job[j].state = "RUNNING"
    <2>1. Freed(w, w2, j)
      BY <1>2, TimeOutFacts DEF Good
    <2> HIDE DEF w2
    <2> QED
      BY <1>2, <2>1, EndsRunning DEF Freed, EndRec, w2
  <1>3. CASE Found(w, j) /\ w.job[j].state # "RUNNING"
    <2>1. Retaken(w, w2, j)
      BY <1>3, TimeOutFacts DEF Good
    <2> HIDE DEF w2
    <2>2. w2 \in TablesType /\ OnlyJob(w, w2, j) /\ w2.list = w.list /\ w2.job[j].state = "ENDED"
      BY <2>1 DEF Retaken, OnlyJob, EndRec
    <2>3. Sound(w2)
      BY <2>1, SoundRetaken DEF Good
    <2>4. Together(w2)
      BY <1>3, <2>2, TogetherEnds DEF Good
    <2> QED
      BY <2>2, <2>3, <2>4 DEF Winds, Good, OnlyJob, w2
  <1> QED
    BY <1>1, <1>2, <1>3

-----------------------------------------------------------------------------
(* The loops over the entries of the depend_list.                          *)

\* What holds before a loop, and after each of its n rounds if it held before the round.
LEMMA Rounds ==
  ASSUME NEW n \in Nat, NEW S, 0 \in S, \A i \in 1..n : i - 1 \in S => i \in S
  PROVE  \A i \in 0..n : i \in S
  <1> SUFFICES ASSUME NEW k \in 0..n, k \notin S
               PROVE  FALSE
    OBVIOUS
  <1> DEFINE Bad == {i \in 0..n : i \notin S}
  <1>1. Bad \in SUBSET Nat /\ Bad # {}
    BY SMT
  <1>2. PICK m \in Bad : \A i \in Bad : m <= i
    <2> HIDE DEF Bad
    <2> QED
      BY <1>1, LeastNat
  <1>3. m \in 0..n /\ m \notin S /\ m # 0
    BY <1>2
  <1>4. m \in 1..n /\ m - 1 \in 0..n /\ ~ (m <= m - 1)
    BY SMT, <1>3
  <1>5. m - 1 \notin S
    BY <1>3, <1>4
  <1> QED
    BY <1>2, <1>4, <1>5

\* f has the results of the rounds of a loop that starts with w.
Runs(f, w, step, n) == f[0] = w /\ \A i \in 1..n : f[i] = step[i][f[i - 1]]

\* A loop whose rounds stay in T computes something.
LEMMA LoopExists ==
  ASSUME NEW n \in Nat, NEW T, NEW w \in T, NEW step \in [1..n -> [T -> T]]
  PROVE  \E f \in [0..n -> T] : Runs(f, w, step, n)
  <1> DEFINE Up(k, f) == f[0] = w /\ \A i \in 1..k : f[i] = step[i][f[i - 1]]
             S == {k \in 0..n : \E f \in [0..k -> T] : Up(k, f)}
  <1>1. 0 \in S
    <2>1. [i \in 0..0 |-> w] \in [0..0 -> T] /\ Up(0, [i \in 0..0 |-> w])
      BY SMT
    <2>2. 0 \in 0..n
      BY SMT
    <2> HIDE DEF Up
    <2> QED
      BY <2>1, <2>2
  <1>2. ASSUME NEW k \in 1..n, k - 1 \in S
        PROVE  k \in S
    <2>1. PICK f \in [0..(k - 1) -> T] : Up(k - 1, f)
      BY <1>2
    <2> DEFINE g == [i \in 0..k |-> IF i = k THEN step[k][f[k - 1]] ELSE f[i]]
    <2>2. f[k - 1] \in T /\ step[k][f[k - 1]] \in T
      BY SMT
    <2>3. g \in [0..k -> T]
      BY SMT, <2>2
    <2>4. g[0] = w
      BY SMT, <2>1
    <2>5. ASSUME NEW i \in 1..k
          PROVE  g[i] = step[i][g[i - 1]]
      <3>1. CASE i = k
        <4>1. g[i] = step[k][f[k - 1]] /\ g[i - 1] = f[k - 1]
          BY SMT, <3>1
        <4> QED
          BY <4>1, <3>1
      <3>2. CASE i # k
        <4>1. i \in 1..(k - 1) /\ g[i] = f[i] /\ g[i - 1] = f[i - 1]
          BY SMT, <3>2
        <4> QED
          BY <4>1, <2>1
      <3> QED
        BY <3>1, <3>2
    <2>6. Up(k, g)
      BY <2>4, <2>5
    <2>7. k \in 0..n
      BY SMT
    <2> HIDE DEF g, Up
    <2> QED
      BY <2>3, <2>6, <2>7
  <1>3. n \in S
    <2> HIDE DEF S
    <2>1. \A i \in 1..n : i - 1 \in S => i \in S
      BY <1>2
    <2>2. \A i \in 0..n : i \in S
      BY <1>1, <2>1, Rounds
    <2> QED
      BY SMT, <2>2
  <1>4. PICK f \in [0..n -> T] : Up(n, f)
    BY <1>3
  <1> QED
    BY <1>4 DEF Runs

\* The rounds of a loop.
LEMMA Indices ==
  ASSUME NEW n \in Nat
  PROVE  /\ 0 \in 0..n /\ n \in 0..n
         /\ \A i \in 1..n : i - 1 \in 0..n /\ i # 0 /\ i \in 0..n
         /\ \A i \in 0..n : i # 0 => i \in 1..n
  BY SMT

\* Each round of a loop keeps its result in T.
LEMMA LoopStays ==
  ASSUME NEW n \in Nat, NEW f, NEW T, f[0] \in T, \A i \in 1..n : f[i - 1] \in T => f[i] \in T
  PROVE  \A i \in 0..n : f[i] \in T
  <1> DEFINE S == {i \in 0..n : f[i] \in T}
  <1>1. 0 \in S /\ \A i \in 1..n : i - 1 \in S => i \in S
    BY Indices
  <1>2. \A i \in 0..n : i \in S
    <2> HIDE DEF S
    <2> QED
      BY <1>1, Rounds
  <1> QED
    BY <1>2

DeallocateRounds(f, w) ==
  /\ f[0] = w /\ Loop(DeallocateEntry, w, Len(Members)) = f[Len(Members)]
  /\ \A i \in 1..Len(Members) : f[i] = DeallocateEntry(f[i - 1], i)

\* The loop of _deallocate_packmbrs.
LEMMA DeallocateLoop ==
  ASSUME NEW T, NEW w \in T, \A t \in T, i \in 1..Len(Members) : DeallocateEntry(t, i) \in T
  PROVE  /\ Loop(DeallocateEntry, w, Len(Members)) \in T
         /\ \E f \in [0..Len(Members) -> T] : DeallocateRounds(f, w)
  <1> DEFINE n == Len(Members)
             step == [i \in 1..n |-> [t \in T |-> DeallocateEntry(t, i)]]
             f == CHOOSE f : f = [i \in 0..n |-> IF i = 0 THEN w ELSE DeallocateEntry(f[i - 1], i)]
  <1>1. PICK g \in [0..n -> T] : Runs(g, w, step, n)
    <2>1. step \in [1..n -> [T -> T]]
      OBVIOUS
    <2> HIDE DEF n, step
    <2> QED
      BY <2>1, LoopExists, MemberFacts DEF n
  <1>2. \A i \in 0..n : g[i] = IF i = 0 THEN w ELSE DeallocateEntry(g[i - 1], i)
    BY <1>1, Indices, MemberFacts DEF Runs
  <1>3. g = [i \in 0..n |-> IF i = 0 THEN w ELSE DeallocateEntry(g[i - 1], i)]
    BY <1>2
  <1>4. f = [i \in 0..n |-> IF i = 0 THEN w ELSE DeallocateEntry(f[i - 1], i)]
    BY <1>3
  <1>5. Loop(DeallocateEntry, w, Len(Members)) = f[n]
    BY DEF Loop
  <1> HIDE DEF f
  <1>6. f[0] = w /\ \A i \in 1..n : f[i] = DeallocateEntry(f[i - 1], i)
    BY <1>4, Indices, MemberFacts
  <1>7. \A i \in 0..n : f[i] \in T
    <2>1. f[0] \in T /\ \A i \in 1..n : f[i - 1] \in T => f[i] \in T
      BY <1>6
    <2> HIDE DEF n
    <2> QED
      BY <2>1, LoopStays, MemberFacts DEF n
  <1>8. f \in [0..n -> T]
    BY <1>4, <1>7
  <1> QED
    BY <1>5, <1>6, <1>7, <1>8, MemberFacts DEF DeallocateRounds

AllocateRounds(f, w) ==
  /\ f[0] = w /\ Loop(AllocateEntry, w, Len(Members)) = f[Len(Members)]
  /\ \A i \in 1..Len(Members) : f[i] = AllocateEntry(f[i - 1], i)

\* The loop of _allocate_packmbrs.
LEMMA AllocateLoop ==
  ASSUME NEW T, NEW w \in T, \A t \in T, i \in 1..Len(Members) : AllocateEntry(t, i) \in T
  PROVE  /\ Loop(AllocateEntry, w, Len(Members)) \in T
         /\ \E f \in [0..Len(Members) -> T] : AllocateRounds(f, w)
  <1> DEFINE n == Len(Members)
             step == [i \in 1..n |-> [t \in T |-> AllocateEntry(t, i)]]
             f == CHOOSE f : f = [i \in 0..n |-> IF i = 0 THEN w ELSE AllocateEntry(f[i - 1], i)]
  <1>1. PICK g \in [0..n -> T] : Runs(g, w, step, n)
    <2>1. step \in [1..n -> [T -> T]]
      OBVIOUS
    <2> HIDE DEF n, step
    <2> QED
      BY <2>1, LoopExists, MemberFacts DEF n
  <1>2. \A i \in 0..n : g[i] = IF i = 0 THEN w ELSE AllocateEntry(g[i - 1], i)
    BY <1>1, Indices, MemberFacts DEF Runs
  <1>3. g = [i \in 0..n |-> IF i = 0 THEN w ELSE AllocateEntry(g[i - 1], i)]
    BY <1>2
  <1>4. f = [i \in 0..n |-> IF i = 0 THEN w ELSE AllocateEntry(f[i - 1], i)]
    BY <1>3
  <1>5. Loop(AllocateEntry, w, Len(Members)) = f[n]
    BY DEF Loop
  <1> HIDE DEF f
  <1>6. f[0] = w /\ \A i \in 1..n : f[i] = AllocateEntry(f[i - 1], i)
    BY <1>4, Indices, MemberFacts
  <1>7. \A i \in 0..n : f[i] \in T
    <2>1. f[0] \in T /\ \A i \in 1..n : f[i - 1] \in T => f[i] \in T
      BY <1>6
    <2> HIDE DEF n
    <2> QED
      BY <2>1, LoopStays, MemberFacts DEF n
  <1>8. f \in [0..n -> T]
    BY <1>4, <1>7
  <1> QED
    BY <1>5, <1>6, <1>7, <1>8, MemberFacts DEF AllocateRounds

\* The loop of _kill_job_pack.
LEMMA SignalLoop ==
  ASSUME NEW T, NEW w \in T, \A t \in T, i \in 1..Len(Members) : SignalEntry(t, i) \in T
  PROVE  Loop(SignalEntry, w, Len(Members)) \in T
  <1> DEFINE n == Len(Members)
             step == [i \in 1..n |-> [t \in T |-> SignalEntry(t, i)]]
             f == CHOOSE f : f = [i \in 0..n |-> IF i = 0 THEN w ELSE SignalEntry(f[i - 1], i)]
  <1>1. PICK g \in [0..n -> T] : Runs(g, w, step, n)
    <2>1. step \in [1..n -> [T -> T]]
      OBVIOUS
    <2> HIDE DEF n, step
    <2> QED
      BY <2>1, LoopExists, MemberFacts DEF n
  <1>2. \A i \in 0..n : g[i] = IF i = 0 THEN w ELSE SignalEntry(g[i - 1], i)
    BY <1>1, Indices, MemberFacts DEF Runs
  <1>3. g = [i \in 0..n |-> IF i = 0 THEN w ELSE SignalEntry(g[i - 1], i)]
    BY <1>2
  <1>4. f = [i \in 0..n |-> IF i = 0 THEN w ELSE SignalEntry(f[i - 1], i)]
    BY <1>3
  <1>5. Loop(SignalEntry, w, Len(Members)) = f[n]
    BY DEF Loop
  <1> HIDE DEF f
  <1>6. f[0] = w /\ \A i \in 1..n : f[i] = SignalEntry(f[i - 1], i)
    BY <1>4, Indices, MemberFacts
  <1>7. \A i \in 0..n : f[i] \in T
    <2>1. f[0] \in T /\ \A i \in 1..n : f[i - 1] \in T => f[i] \in T
      BY <1>6
    <2> HIDE DEF n
    <2> QED
      BY <2>1, LoopStays, MemberFacts DEF n
  <1> QED
    BY <1>5, <1>7, MemberFacts

\* The loop of the leader's job_complete.
LEMMA CompleteLoop ==
  ASSUME NEW T, NEW w \in T, \A t \in T, i \in 1..Len(Members) : CompleteEntry(t, i) \in T
  PROVE  Loop(CompleteEntry, w, Len(Members)) \in T
  <1> DEFINE n == Len(Members)
             step == [i \in 1..n |-> [t \in T |-> CompleteEntry(t, i)]]
             f == CHOOSE f : f = [i \in 0..n |-> IF i = 0 THEN w ELSE CompleteEntry(f[i - 1], i)]
  <1>1. PICK g \in [0..n -> T] : Runs(g, w, step, n)
    <2>1. step \in [1..n -> [T -> T]]
      OBVIOUS
    <2> HIDE DEF n, step
    <2> QED
      BY <2>1, LoopExists, MemberFacts DEF n
  <1>2. \A i \in 0..n : g[i] = IF i = 0 THEN w ELSE CompleteEntry(g[i - 1], i)
    BY <1>1, Indices, MemberFacts DEF Runs
  <1>3. g = [i \in 0..n |-> IF i = 0 THEN w ELSE CompleteEntry(g[i - 1], i)]
    BY <1>2
  <1>4. f = [i \in 0..n |-> IF i = 0 THEN w ELSE CompleteEntry(f[i - 1], i)]
    BY <1>3
  <1>5. Loop(CompleteEntry, w, Len(Members)) = f[n]
    BY DEF Loop
  <1> HIDE DEF f
  <1>6. f[0] = w /\ \A i \in 1..n : f[i] = CompleteEntry(f[i - 1], i)
    BY <1>4, Indices, MemberFacts
  <1>7. \A i \in 0..n : f[i] \in T
    <2>1. f[0] \in T /\ \A i \in 1..n : f[i - 1] \in T => f[i] \in T
      BY <1>6
    <2> HIDE DEF n
    <2> QED
      BY <2>1, LoopStays, MemberFacts DEF n
  <1> QED
    BY <1>5, <1>7, MemberFacts

\* The loop of the leader's time limit.
LEMMA TimeOutLoop ==
  ASSUME NEW T, NEW w \in T, \A t \in T, i \in 1..Len(Members) : TimeOutEntry(t, i) \in T
  PROVE  Loop(TimeOutEntry, w, Len(Members)) \in T
  <1> DEFINE n == Len(Members)
             step == [i \in 1..n |-> [t \in T |-> TimeOutEntry(t, i)]]
             f == CHOOSE f : f = [i \in 0..n |-> IF i = 0 THEN w ELSE TimeOutEntry(f[i - 1], i)]
  <1>1. PICK g \in [0..n -> T] : Runs(g, w, step, n)
    <2>1. step \in [1..n -> [T -> T]]
      OBVIOUS
    <2> HIDE DEF n, step
    <2> QED
      BY <2>1, LoopExists, MemberFacts DEF n
  <1>2. \A i \in 0..n : g[i] = IF i = 0 THEN w ELSE TimeOutEntry(g[i - 1], i)
    BY <1>1, Indices, MemberFacts DEF Runs
  <1>3. g = [i \in 0..n |-> IF i = 0 THEN w ELSE TimeOutEntry(g[i - 1], i)]
    BY <1>2
  <1>4. f = [i \in 0..n |-> IF i = 0 THEN w ELSE TimeOutEntry(f[i - 1], i)]
    BY <1>3
  <1>5. Loop(TimeOutEntry, w, Len(Members)) = f[n]
    BY DEF Loop
  <1> HIDE DEF f
  <1>6. f[0] = w /\ \A i \in 1..n : f[i] = TimeOutEntry(f[i - 1], i)
    BY <1>4, Indices, MemberFacts
  <1>7. \A i \in 0..n : f[i] \in T
    <2>1. f[0] \in T /\ \A i \in 1..n : f[i - 1] \in T => f[i] \in T
      BY <1>6
    <2> HIDE DEF n
    <2> QED
      BY <2>1, LoopStays, MemberFacts DEF n
  <1> QED
    BY <1>5, <1>7, MemberFacts

-----------------------------------------------------------------------------
(* _kill_job_pack, the completions and the time limits only end jobs.      *)

\* _kill_job_pack on the members only ends jobs.
LEMMA SignalAll ==
  ASSUME NEW w, Good(w)
  PROVE  Winds(w, Loop(SignalEntry, w, Len(Members)))
  <1> DEFINE T == {t \in TablesType : Winds(w, t)}
  <1>1. w \in T
    BY WindsSame DEF Good
  <1>2. ASSUME NEW t \in T, NEW i \in 1..Len(Members)
        PROVE  SignalEntry(t, i) \in T
    <2>1. Winds(w, t) /\ Good(t) /\ Members[i] \in Jobs
      BY MemberFacts DEF Winds
    <2>2. Winds(t, SignalEntry(t, i))
      BY <2>1, EndsSignalled, WindsSame DEF SignalEntry
    <2>3. Winds(w, SignalEntry(t, i))
      BY <2>1, <2>2, WindsOn
    <2> QED
      BY <2>3 DEF Winds, Good
  <1>3. Loop(SignalEntry, w, Len(Members)) \in T
    <2> HIDE DEF T
    <2> QED
      BY <1>1, <1>2, SignalLoop
  <1> QED
    BY <1>3

\* The leader's job_complete on the members only ends jobs.
LEMMA CompleteAll ==
  ASSUME NEW w, Good(w)
  PROVE  Winds(w, Loop(CompleteEntry, w, Len(Members)))
  <1> DEFINE T == {t \in TablesType : Winds(w, t)}
  <1>1. w \in T
    BY WindsSame DEF Good
  <1>2. ASSUME NEW t \in T, NEW i \in 1..Len(Members)
        PROVE  CompleteEntry(t, i) \in T
    <2>1. Winds(w, t) /\ Good(t) /\ Members[i] \in Jobs
      BY MemberFacts DEF Winds
    <2>2. Winds(t, CompleteEntry(t, i))
      BY <2>1, EndsSignalled, WindsSame DEF CompleteEntry
    <2>3. Winds(w, CompleteEntry(t, i))
      BY <2>1, <2>2, WindsOn
    <2> QED
      BY <2>3 DEF Winds, Good
  <1>3. Loop(CompleteEntry, w, Len(Members)) \in T
    <2> HIDE DEF T
    <2> QED
      BY <1>1, <1>2, CompleteLoop
  <1> QED
    BY <1>3

\* The leader's time limit on the members only ends jobs.
LEMMA TimeOutAll ==
  ASSUME NEW w, Good(w), w.job[Leader].state = "ENDED"
  PROVE  Winds(w, Loop(TimeOutEntry, w, Len(Members)))
  <1> DEFINE T == {t \in TablesType : Winds(w, t)}
  <1>1. w \in T
    BY WindsSame DEF Good
  <1>2. ASSUME NEW t \in T, NEW i \in 1..Len(Members)
        PROVE  TimeOutEntry(t, i) \in T
    <2>1. Winds(w, t) /\ Good(t) /\ Members[i] \in Jobs
      BY MemberFacts DEF Winds
    <2>2. ~ Waits(t)
      <3>1. t.job[Leader].state = "ENDED"
        BY <2>1, MemberFacts DEF Winds
      <3>2. "ENDED" \notin {"none", "PENDING"}
        BY SMT
      <3> QED
        BY <3>1, <3>2 DEF Waits
    <2>3. Winds(t, TimeOutEntry(t, i))
      BY <2>1, <2>2, EndsLate, WindsSame DEF TimeOutEntry
    <2>4. Winds(w, TimeOutEntry(t, i))
      BY <2>1, <2>3, WindsOn
    <2> QED
      BY <2>4 DEF Winds, Good
  <1>3. Loop(TimeOutEntry, w, Len(Members)) \in T
    <2> HIDE DEF T
    <2> QED
      BY <1>1, <1>2, TimeOutLoop
  <1> QED
    BY <1>3

\* Killing a pack, or another job, only ends jobs.
LEMMA SignalWinds ==
  ASSUME NEW w, Good(w), NEW j \in Jobs
  PROVE  Winds(w, job_signal(w, j))
  <1>1. Winds(w, _job_signal(w, j))
    BY EndsSignalled
  <1>2. Winds(w, _kill_job_pack(w))
    <2> DEFINE u == Loop(SignalEntry, w, Len(Members))
    <2>1. Winds(w, u)
      BY SignalAll
    <2>2. _kill_job_pack(w) = _job_signal(u, Leader)
      BY DEF _kill_job_pack
    <2> HIDE DEF u
    <2>3. Winds(u, _job_signal(u, Leader))
      BY <2>1, EndsSignalled, MemberFacts DEF Winds
    <2> QED
      BY <2>1, <2>2, <2>3, WindsOn
  <1> QED
    BY <1>1, <1>2 DEF job_signal

\* The completion of the leader only ends jobs.
LEMMA CompletedWinds ==
  ASSUME NEW w, Good(w), NEW rc
  PROVE  Winds(w, LeaderCompleted(w, rc))
  <1> DEFINE u == IF ask.batch \/ rc # 0 THEN Loop(CompleteEntry, w, Len(Members)) ELSE w
  <1>1. Winds(w, u)
    BY CompleteAll, WindsSame
  <1>2. LeaderCompleted(w, rc) = _job_complete(u, Leader)
    BY DEF LeaderCompleted
  <1> HIDE DEF u
  <1>3. Winds(u, _job_complete(u, Leader))
    BY <1>1, EndsSignalled, MemberFacts DEF Winds
  <1> QED
    BY <1>1, <1>2, <1>3, WindsOn

\* The time limit of one job only ends jobs.
LEMMA TimeOutWinds ==
  ASSUME NEW w, Good(w), NEW j \in Jobs
  PROVE  Winds(w, TimeOut(w, j))
  <1>1. CASE w.job[j].state # "RUNNING"
    BY <1>1, WindsSame DEF TimeOut
  <1>2. CASE w.job[j].state = "RUNNING" /\ j # Leader
    BY <1>2, EndsLate DEF TimeOut
  <1>3. CASE w.job[j].state = "RUNNING" /\ j = Leader
    <2> DEFINE u == _job_timed_out(w, Leader)
    <2>1. Found(w, Leader)
      <3>1. "RUNNING" \notin {"none", "purged"}
        BY SMT
      <3> QED
        BY <1>3, <3>1 DEF Found
    <2>2. Winds(w, u) /\ u.job[Leader].state = "ENDED"
      BY <1>3, <2>1, EndsLate, MemberFacts
    <2>3. TimeOut(w, j) = Loop(TimeOutEntry, u, Len(Members))
      BY <1>3 DEF TimeOut
    <2> HIDE DEF u
    <2>4. Winds(u, Loop(TimeOutEntry, u, Len(Members)))
      BY <2>2, TimeOutAll DEF Winds
    <2> QED
      BY <2>2, <2>3, <2>4, WindsOn
  <1> QED
    BY <1>1, <1>2, <1>3

\* One pass over all jobs.
LEMMA TimeLimitWinds ==
  ASSUME Good(Tables), NEW late, job_time_limit(late)
  PROVE  \E w : Winds(Tables, w) /\ Become(w)
  <1> DEFINE l == Members \o <<Leader>> \o Others
             n == Len(l)
             T == {t \in TablesType : Winds(Tables, t)}
             step == [i \in 1..n |-> [t \in T |-> IF l[i] \in late THEN TimeOut(t, l[i]) ELSE t]]
             f == CHOOSE f : f = [i \in 0..n |->
                    IF i = 0 THEN Tables
                    ELSE IF l[i] \in late THEN TimeOut(f[i - 1], l[i]) ELSE f[i - 1]]
  <1>1. Become(f[n])
    BY DEF job_time_limit
  <1>2. n \in Nat /\ \A i \in 1..n : l[i] \in Jobs
    <2>1. Members \in Seq(Jobs) /\ <<Leader>> \in Seq(Jobs) /\ Others \in Seq(Jobs)
      BY SMT, JobIds DEF Jobs
    <2>2. l \in Seq(Jobs)
      BY SMT, <2>1
    <2> HIDE DEF l
    <2> QED
      BY SMT, <2>2
  <1>3. Tables \in T
    BY WindsSame DEF Good
  <1>4. ASSUME NEW t \in T, NEW i \in 1..n
        PROVE  (IF l[i] \in late THEN TimeOut(t, l[i]) ELSE t) \in T
    <2>1. Winds(Tables, t) /\ Good(t) /\ l[i] \in Jobs
      BY <1>2 DEF Winds
    <2>2. Winds(t, TimeOut(t, l[i]))
      <3> HIDE DEF l
      <3> QED
        BY <2>1, TimeOutWinds
    <2>3. Winds(Tables, TimeOut(t, l[i]))
      BY <2>1, <2>2, WindsOn
    <2> QED
      BY <2>3 DEF Winds, Good
  <1> HIDE DEF l, T
  <1>5. PICK g \in [0..n -> T] : Runs(g, Tables, step, n)
    <2>1. step \in [1..n -> [T -> T]]
      BY <1>4
    <2> HIDE DEF n, step
    <2> QED
      BY <1>2, <1>3, <2>1, LoopExists
  <1>6. \A i \in 0..n : g[i] = IF i = 0 THEN Tables
          ELSE IF l[i] \in late THEN TimeOut(g[i - 1], l[i]) ELSE g[i - 1]
    BY <1>2, <1>5, Indices DEF Runs
  <1>7. g = [i \in 0..n |-> IF i = 0 THEN Tables
          ELSE IF l[i] \in late THEN TimeOut(g[i - 1], l[i]) ELSE g[i - 1]]
    BY <1>6
  <1>8. f = [i \in 0..n |-> IF i = 0 THEN Tables
          ELSE IF l[i] \in late THEN TimeOut(f[i - 1], l[i]) ELSE f[i - 1]]
    BY <1>7
  <1> HIDE DEF f
  <1>9. f[0] \in T /\ \A i \in 1..n : f[i - 1] \in T => f[i] \in T
    <2>1. f[0] = Tables
      BY <1>2, <1>8, Indices
    <2>2. ASSUME NEW i \in 1..n, f[i - 1] \in T
          PROVE  f[i] \in T
      <3>1. i \in 0..n /\ i # 0
        BY <1>2, Indices
      <3>2. f[i] = IF l[i] \in late THEN TimeOut(f[i - 1], l[i]) ELSE f[i - 1]
        BY <1>8, <3>1
      <3> QED
        BY <1>4, <2>2, <3>2
    <2> QED
      BY <1>3, <2>1, <2>2
  <1>10. f[n] \in T
    <2> HIDE DEF n
    <2>1. \A i \in 0..n : f[i] \in T
      BY <1>2, <1>9, LoopStays
    <2> QED
      BY <1>2, <2>1, Indices
  <1> QED
    BY <1>1, <1>10 DEF T

-----------------------------------------------------------------------------
(* Between the first allocation and the last: what the pack holds, and the back-out.*)

\* The entries of the depend_list that hold nodes, and those with a record.
Allocs(w) == {i \in DOMAIN w.list.deps : w.list.deps[i].alloc}
Founds(w) == {i \in DOMAIN w.list.deps : w.list.deps[i].found}

\* While a pack is being allocated or backed out: a member runs just where its entry
\* says so, and the loop that backs out reaches all of these.
Holding(w) ==
  /\ w \in TablesType /\ Sound(w) /\ w.job[Leader].state = "PENDING"
  /\ \A m \in MemberSet : w.job[m].cg = {}
  /\ Allocs(w) \subseteq Reached(w)
  /\ \A i \in Allocs(w) : w.job[Members[i]].state = "RUNNING"
  /\ \A m \in MemberSet : w.job[m].state = "RUNNING" => \E i \in Allocs(w) : Members[i] = m

\* The leader and the jobs outside the pack are as they were.
Apart(w, w2) == \A j \in Jobs : j \notin MemberSet => w2.job[j] = w.job[j]

\* A pack that holds nothing and waits.
LEMMA HoldingGood ==
  ASSUME NEW w
  PROVE  Holding(w) /\ Allocs(w) = {} <=> Good(w) /\ w.job[Leader].state = "PENDING"
  <1>0. "PENDING" # "RUNNING" /\ "PENDING" \in {"none", "PENDING"}
    BY SMT
  <1>1. ASSUME Holding(w), Allocs(w) = {}
        PROVE  Good(w) /\ w.job[Leader].state = "PENDING"
    BY <1>0, <1>1 DEF Holding, Good, Together, Waits, Allocs
  <1>2. ASSUME Good(w), w.job[Leader].state = "PENDING"
        PROVE  Holding(w) /\ Allocs(w) = {}
    <2>1. Allocs(w) = {} /\ \A m \in MemberSet : w.job[m].state # "RUNNING" /\ w.job[m].cg = {}
      BY <1>0, <1>2 DEF Good, Together, Waits, Allocs
    <2> QED
      BY <1>2, <2>1 DEF Holding, Good
  <1> QED
    BY <1>1, <1>2

\* alloc of one entry is set or reset.
Marked(w, w2) ==
  /\ w2 \in TablesType /\ w2.job = w.job /\ w2.node = w.node /\ w2.twice = w.twice
  /\ DOMAIN w2.list.deps = DOMAIN w.list.deps /\ Founds(w2) = Founds(w)

\* The entries reached depend on the NULL pointers only.
LEMMA ReachedSame ==
  ASSUME NEW w, NEW w2, DOMAIN w2.list.deps = DOMAIN w.list.deps, Founds(w2) = Founds(w)
  PROVE  Reached(w2) = Reached(w)
  <1>1. \A i \in DOMAIN w.list.deps : w2.list.deps[i].found <=> w.list.deps[i].found
    BY DEF Founds
  <1> QED
    BY <1>1 DEF Reached

\* What setting or resetting alloc does.
LEMMA MarkFacts ==
  ASSUME NEW w \in TablesType, NEW i \in DOMAIN w.list.deps
  PROVE  /\ LET w2 == [w EXCEPT !.list.deps[i].alloc = TRUE] IN
            Marked(w, w2) /\ Allocs(w2) = Allocs(w) \cup {i}
         /\ LET w2 == [w EXCEPT !.list.deps[i].alloc = FALSE] IN
            Marked(w, w2) /\ Allocs(w2) = Allocs(w) \ {i}
  <1>1. ASSUME NEW b \in BOOLEAN
        PROVE  LET w2 == [w EXCEPT !.list.deps[i].alloc = b] IN
               Marked(w, w2) /\ Allocs(w2) = IF b THEN Allocs(w) \cup {i} ELSE Allocs(w) \ {i}
    <2> DEFINE e == [w.list.deps[i] EXCEPT !.alloc = b]
               d == [w.list.deps EXCEPT ![i] = e]
               w2 == [w EXCEPT !.list.deps = d]
    <2>1. w.list.deps \in [DOMAIN w.list.deps -> Dep] /\ DOMAIN w.list.deps \in SUBSET DOMAIN Members
      BY DepFacts, MemberFacts
    <2>2. e \in Dep /\ e.alloc = b /\ e.found = w.list.deps[i].found
      <3>1. w.list.deps[i] \in Dep
        BY <2>1
      <3> QED
        BY SMT, <3>1 DEF Dep
    <2> HIDE DEF e
    <2>3. /\ d \in [DOMAIN w.list.deps -> Dep]
          /\ \A k \in DOMAIN w.list.deps : d[k] = IF k = i THEN e ELSE w.list.deps[k]
      BY <2>1, <2>2
    <2>4. [w EXCEPT !.list.deps[i].alloc = b] = w2
      BY DEF e
    <2> HIDE DEF d
    <2>5. d \in Deps
      BY <2>1, <2>3 DEF Deps
    <2>6. /\ w2 \in TablesType /\ w2.job = w.job /\ w2.node = w.node /\ w2.twice = w.twice
          /\ w2.list.deps = d
      BY SMT, <2>5 DEF TablesType
    <2> HIDE DEF w2
    <2>7. Founds(w2) = Founds(w) /\ DOMAIN w2.list.deps = DOMAIN w.list.deps
      BY <2>2, <2>3, <2>6 DEF Founds
    <2>8. Allocs(w2) = IF b THEN Allocs(w) \cup {i} ELSE Allocs(w) \ {i}
      BY <2>2, <2>3, <2>6 DEF Allocs
    <2> QED
      BY <2>4, <2>6, <2>7, <2>8 DEF Marked
  <1> QED
    BY <1>1

\* Sound does not depend on the list.
LEMMA SoundMarked ==
  ASSUME NEW w, NEW w2, Sound(w), w2.job = w.job, w2.node = w.node, w2.twice = w.twice
  PROVE  Sound(w2)
  <1>1. Quiet(w, w2)
    BY DEF Quiet, StateOnly
  <1> QED
    BY <1>1, SoundQuiet

-----------------------------------------------------------------------------
(* Backing out.                                                            *)

\* _deallocate_packmbrs keeps the shape of the tables.
LEMMA DeallocateTyped ==
  ASSUME NEW w \in TablesType
  PROVE  _deallocate_packmbrs(w) \in TablesType
  <1>1. ASSUME NEW t \in TablesType, NEW i \in 1..Len(Members)
        PROVE  DeallocateEntry(t, i) \in TablesType
    <2> DEFINE u == _deallocate_jpck(t, Members[i])
    <2>1. CASE i \in Reached(t) /\ t.list.deps[i].alloc
      <3>1. u \in TablesType /\ u.list = t.list
        BY ReturnFacts, MemberFacts DEF Returned, OnlyJob
      <3>2. i \in DOMAIN u.list.deps
        BY <2>1, <3>1 DEF Reached
      <3>3. DeallocateEntry(t, i) = [u EXCEPT !.list.deps[i].alloc = FALSE]
        BY <2>1 DEF DeallocateEntry
      <3> HIDE DEF u
      <3>4. Marked(u, [u EXCEPT !.list.deps[i].alloc = FALSE])
        BY <3>1, <3>2, MarkFacts
      <3> QED
        BY <3>3, <3>4 DEF Marked
    <2> QED
      BY <2>1 DEF DeallocateEntry
  <1> QED
    BY <1>1, DeallocateLoop DEF _deallocate_packmbrs

\* One round of the loop.
LEMMA DeallocateStep ==
  ASSUME NEW w, Holding(w), NEW i \in 1..Len(Members)
  PROVE  LET w2 == DeallocateEntry(w, i) IN
         Holding(w2) /\ Apart(w, w2) /\ Allocs(w2) = Allocs(w) \ {i}
  <1> DEFINE u == _deallocate_jpck(w, Members[i])
             w2 == DeallocateEntry(w, i)
  <1>1. CASE ~ (i \in Reached(w) /\ w.list.deps[i].alloc)
    <2>1. i \notin Allocs(w)
      BY <1>1 DEF Holding, Allocs
    <2>2. w2 = w
      BY <1>1 DEF DeallocateEntry
    <2> QED
      BY <2>1, <2>2 DEF Apart
  <1>2. CASE i \in Reached(w) /\ w.list.deps[i].alloc
    <2>0. w \in TablesType /\ i \in Allocs(w) /\ w.job[Members[i]].state = "RUNNING"
      BY <1>2 DEF Holding, Allocs, Reached
    <2>1. Returned(w, u, Members[i])
      BY <2>0, ReturnFacts, MemberFacts
    <2>2. w2 = [u EXCEPT !.list.deps[i].alloc = FALSE]
      BY <1>2 DEF DeallocateEntry
    <2> HIDE DEF u, w2
    <2>3. /\ u \in TablesType /\ u.list = w.list /\ i \in DOMAIN u.list.deps
          /\ \A k \in Jobs : k # Members[i] => u.job[k] = w.job[k]
      BY <2>0, <2>1 DEF Returned, OnlyJob, Allocs
    <2>4. Marked(u, w2) /\ Allocs(w2) = Allocs(w) \ {i}
      <3>1. Marked(u, w2) /\ Allocs(w2) = Allocs(u) \ {i}
        BY <2>2, <2>3, MarkFacts
      <3> QED
        BY <2>3, <3>1 DEF Allocs
    <2>5. Sound(w2)
      <3>1. Sound(u)
        BY <2>0, <2>1, SoundReturn, MemberFacts DEF Holding
      <3> QED
        BY <2>4, <3>1, SoundMarked DEF Marked
    <2>6. w2.job[Leader] = w.job[Leader] /\ Apart(w, w2)
      BY <2>3, <2>4, MemberFacts DEF Marked, Apart
    <2>7. \A m \in MemberSet : w2.job[m].cg = {}
      <3>1. w2.job[Members[i]].cg = w.job[Members[i]].cg
        BY <2>1, <2>4 DEF Returned, StateOnly, Marked
      <3>2. ASSUME NEW m \in MemberSet
            PROVE  w2.job[m].cg = w.job[m].cg
        BY <2>3, <2>4, <3>1, MemberFacts DEF Marked
      <3> QED
        BY <3>2 DEF Holding
    <2>8. Allocs(w2) \subseteq Reached(w2)
      <3>1. Reached(w2) = Reached(u) /\ Reached(u) = Reached(w)
        BY <2>3, <2>4, ReachedSame DEF Marked, Reached
      <3> QED
        BY <2>4, <3>1 DEF Holding
    <2>9. ASSUME NEW k \in Allocs(w2)
          PROVE  w2.job[Members[k]].state = "RUNNING"
      <3>1. k \in Allocs(w) /\ k # i
        BY <2>4, <2>9
      <3>2. k \in 1..Len(Members)
        BY <2>0, <3>1, DepFacts DEF Allocs
      <3>3. Members[k] # Members[i] /\ Members[k] \in Jobs
        BY <3>1, <3>2, MemberFacts
      <3>4. w2.job[Members[k]] = w.job[Members[k]]
        BY <2>3, <2>4, <3>3 DEF Marked
      <3> QED
        BY <3>1, <3>4 DEF Holding
    <2>10. ASSUME NEW m \in MemberSet, w2.job[m].state = "RUNNING"
           PROVE  \E k \in Allocs(w2) : Members[k] = m
      <3>1. m # Members[i]
        <4>1. "PENDING" # "RUNNING"
          BY SMT
        <4> QED
          BY <2>1, <2>4, <2>10, <4>1 DEF Returned, Marked
      <3>2. w.job[m].state = "RUNNING"
        BY <2>3, <2>4, <2>10, <3>1, MemberFacts DEF Marked
      <3> QED
        BY <2>4, <3>1, <3>2 DEF Holding
    <2>11. Holding(w2)
      BY <2>4, <2>5, <2>6, <2>7, <2>8, <2>9, <2>10 DEF Holding, Marked
    <2> QED
      BY <2>4, <2>6, <2>11 DEF w2
  <1> QED
    BY <1>1, <1>2

\* _deallocate_packmbrs gives everything back.
LEMMA DeallocateAll ==
  ASSUME NEW w, Holding(w)
  PROVE  LET w2 == _deallocate_packmbrs(w) IN Holding(w2) /\ Apart(w, w2) /\ Allocs(w2) = {}
  <1> DEFINE T == {t \in TablesType : Holding(t) /\ Apart(w, t)}
             n == Len(Members)
  <1>1. w \in T
    BY DEF Holding, Apart
  <1>2. ASSUME NEW t \in T, NEW i \in 1..Len(Members)
        PROVE  DeallocateEntry(t, i) \in T
    <2>1. LET u == DeallocateEntry(t, i) IN Holding(u) /\ Apart(t, u)
      BY DeallocateStep
    <2> QED
      BY <2>1 DEF Holding, Apart
  <1>3. PICK f \in [0..n -> T] : /\ f[0] = w /\ _deallocate_packmbrs(w) = f[n]
                                 /\ \A i \in 1..n : f[i] = DeallocateEntry(f[i - 1], i)
    <2>1. _deallocate_packmbrs(w) = Loop(DeallocateEntry, w, Len(Members))
      BY DEF _deallocate_packmbrs
    <2> HIDE DEF T
    <2>2. \E f \in [0..Len(Members) -> T] : DeallocateRounds(f, w)
      BY <1>1, <1>2, DeallocateLoop
    <2> QED
      BY <2>1, <2>2 DEF DeallocateRounds
  <1> DEFINE S == {k \in 0..n : Allocs(f[k]) \cap (1..k) = {}}
  <1>4. 0 \in S
    <2>1. 0 \in 0..n /\ 1..0 = {}
      BY SMT, MemberFacts
    <2> QED
      BY <2>1
  <1>5. ASSUME NEW k \in 1..n, k - 1 \in S
        PROVE  k \in S
    <2>1. k - 1 \in 0..n /\ k \in 0..n /\ \A i \in 1..k : i # k => i \in 1..(k - 1)
      BY SMT, MemberFacts
    <2>2. f[k - 1] \in T
      BY <2>1
    <2>3. Allocs(f[k]) = Allocs(f[k - 1]) \ {k}
      BY <1>3, <2>2, DeallocateStep
    <2> QED
      BY <1>5, <2>1, <2>3
  <1>6. n \in S
    <2> HIDE DEF S
    <2>1. \A i \in 0..n : i \in S
      BY <1>4, <1>5, Rounds, MemberFacts
    <2> QED
      BY <2>1, MemberFacts
  <1>7. f[n] \in T
    BY MemberFacts
  <1>8. Allocs(f[n]) = {}
    <2>1. Allocs(f[n]) \subseteq 1..n
      BY <1>7, DepFacts DEF Allocs
    <2> QED
      BY <1>6, <2>1
  <1> QED
    BY <1>3, <1>7, <1>8

-----------------------------------------------------------------------------
(* _allocate_packmbrs.                                                     *)

-----------------------------------------------------------------------------
(* Allocation.                                                             *)

Codes == {"SUCCESS", "BAD_MEMBER", "NEVER_RUN", "NODES_BUSY", "BAD_DEPENDENCY", "CONFIG_UNAVAILABLE"}
ResType == [rc : Codes, w : TablesType]

\* The shape of a result.
LEMMA ResultFacts ==
  ASSUME NEW rc \in Codes, NEW w \in TablesType
  PROVE  Result(rc, w) \in ResType
  BY SMT DEF Result, ResType

\* The fields of a result.
LEMMA ResultFields ==
  ASSUME NEW rc, NEW w
  PROVE  Result(rc, w).rc = rc /\ Result(rc, w).w = w
  BY SMT DEF Result

\* The fields of a result, by their types.
LEMMA ResFields ==
  ASSUME NEW r \in ResType
  PROVE  r.w \in TablesType /\ r.rc \in Codes
  BY SMT DEF ResType

\* The members forget their leader, and the list is freed.
LEMMA OrphanFacts ==
  ASSUME NEW w \in TablesType
  PROVE  LET w2 == _orphan_members(w) IN
         /\ w2 \in TablesType /\ Quiet(w, w2) /\ Apart(w, w2) /\ Allocs(w2) = {}
         /\ \A j \in Jobs : w2.job[j].state = w.job[j].state
  <1> DEFINE mine == {Members[i] : i \in {k \in DOMAIN w.list.deps : w.list.deps[k].found}}
             g == [j \in Jobs |-> IF j \in mine THEN [w.job[j] EXCEPT !.leader = NoJob]
                                  ELSE w.job[j]]
             w2 == [w EXCEPT !.job = g, !.list = NoList]
  <1>1. mine \subseteq MemberSet
    <2> SUFFICES ASSUME NEW i \in DOMAIN w.list.deps
                 PROVE  Members[i] \in MemberSet
      OBVIOUS
    <2>1. i \in 1..Len(Members)
      BY DepFacts
    <2> QED
      BY <2>1, MemberFacts
  <1>2. ASSUME NEW j \in Jobs
        PROVE  g[j] \in JobRec /\ StateOnly(w.job[j], g[j]) /\ g[j].state = w.job[j].state
    <2>1. w.job[j] \in JobRec
      BY SMT DEF TablesType
    <2> DEFINE r == [w.job[j] EXCEPT !.leader = NoJob]
    <2>2. r \in JobRec
      BY <2>1, RecTypes
    <2>3. StateOnly(w.job[j], r) /\ r.state = w.job[j].state
      BY SMT, <2>1 DEF JobRec, StateOnly
    <2>4. g[j] = r \/ g[j] = w.job[j]
      OBVIOUS
    <2> HIDE DEF g, r
    <2> QED
      BY <2>1, <2>2, <2>3, <2>4 DEF StateOnly
  <1>3. g \in [Jobs -> JobRec] /\ \A j \in Jobs : j \notin MemberSet => g[j] = w.job[j]
    BY <1>1, <1>2
  <1>4. NoList \in [there : BOOLEAN, deps : Deps] /\ NoList.deps = [i \in {} |-> {}]
    <2>1. [i \in {} |-> {}] \in Deps
      <3>1. [i \in {} |-> {}] \in [{} -> Dep] /\ {} \in SUBSET DOMAIN Members
        OBVIOUS
      <3> QED
        BY <3>1 DEF Deps
    <2> QED
      BY SMT, <2>1 DEF NoList
  <1>5. _orphan_members(w) = w2
    BY DEF _orphan_members
  <1> HIDE DEF g
  <1>6. /\ w2 \in TablesType /\ w2.job = g /\ w2.list = NoList
        /\ w2.node = w.node /\ w2.twice = w.twice
    <2> DEFINE u == [w EXCEPT !.job = g]
    <2>1. u \in TablesType /\ u.job = g /\ u.node = w.node /\ u.twice = w.twice
      BY SMT, <1>3 DEF TablesType
    <2>2. w2 = [u EXCEPT !.list = NoList]
      OBVIOUS
    <2> HIDE DEF NoList, u, w2
    <2> QED
      BY SMT, <1>4, <2>1, <2>2 DEF TablesType
  <1> HIDE DEF w2
  <1>7. Quiet(w, w2)
    BY <1>2, <1>6 DEF Quiet
  <1>8. Allocs(w2) = {}
    <2>1. DOMAIN w2.list.deps = {}
      BY <1>4, <1>6
    <2> QED
      BY <2>1 DEF Allocs
  <1> QED
    BY <1>2, <1>3, <1>5, <1>6, <1>7, <1>8 DEF Apart

\* A pack that is found never to run holds nothing.
LEMMA OrphanHolds ==
  ASSUME NEW w, Holding(w), Allocs(w) = {}
  PROVE  LET w2 == _orphan_members(w) IN Holding(w2) /\ Apart(w, w2) /\ Allocs(w2) = {}
  <1> DEFINE w2 == _orphan_members(w)
  <1>1. /\ w2 \in TablesType /\ Quiet(w, w2) /\ Apart(w, w2) /\ Allocs(w2) = {}
        /\ \A j \in Jobs : w2.job[j].state = w.job[j].state
    BY OrphanFacts DEF Holding
  <1> HIDE DEF w2
  <1>2. Sound(w2)
    BY <1>1, SoundQuiet DEF Holding
  <1>3. \A m \in MemberSet : w2.job[m].cg = {} /\ w2.job[m].state # "RUNNING"
    <2>1. \A m \in MemberSet : w2.job[m].cg = w.job[m].cg /\ w2.job[m].state = w.job[m].state
      BY <1>1, MemberFacts DEF Quiet, StateOnly
    <2> QED
      BY <2>1 DEF Holding
  <1>4. w2.job[Leader].state = "PENDING"
    BY <1>1, MemberFacts DEF Holding
  <1> QED
    BY <1>1, <1>2, <1>3, <1>4 DEF Holding, w2

\* One round of _allocate_packmbrs keeps the shape of the tables.
LEMMA AllocateTyped ==
  ASSUME NEW r \in ResType, NEW i \in 1..Len(Members)
  PROVE  AllocateEntry(r, i) \in ResType
  <1> DEFINE out == _deallocate_packmbrs(r.w)
             u == StartJob(r.w, Members[i])
             v == [u EXCEPT !.list.deps[i].alloc = TRUE]
  <1>1. r.w \in TablesType
    BY ResFields
  <1>2. out \in TablesType /\ _orphan_members(out) \in TablesType
    BY <1>1, DeallocateTyped, OrphanFacts
  <1>3. u \in TablesType /\ u.list = r.w.list
    BY <1>1, StartFacts, MemberFacts DEF Started, OnlyJob
  <1>4. i \in DOMAIN r.w.list.deps => v \in TablesType
    <2> HIDE DEF u
    <2>1. i \in DOMAIN r.w.list.deps => Marked(u, v)
      BY <1>3, MarkFacts
    <2> QED
      BY <2>1 DEF Marked
  <1>5. AllocateEntry(r, i) =
          IF r.rc # "SUCCESS" \/ i \notin DOMAIN r.w.list.deps THEN r
          ELSE IF ~ r.w.list.deps[i].found THEN Result("BAD_MEMBER", r.w)
          ELSE IF Fits(r.w, Members[i]) THEN Result("SUCCESS", v)
          ELSE IF is_cluster_idle(out) THEN Result("NEVER_RUN", _orphan_members(out))
          ELSE Result("NODES_BUSY", out)
    BY DEF AllocateEntry
  <1> HIDE DEF out, v
  <1>6. /\ Result("BAD_MEMBER", r.w) \in ResType /\ Result("NODES_BUSY", out) \in ResType
        /\ Result("NEVER_RUN", _orphan_members(out)) \in ResType
        /\ i \in DOMAIN r.w.list.deps => Result("SUCCESS", v) \in ResType
    BY <1>1, <1>2, <1>4, ResultFacts DEF Codes
  <1> QED
    BY <1>5, <1>6

\* The member i starts; those after it wait.
LEMMA AllocateStart ==
  ASSUME NEW w, Holding(w), NEW i \in 1..Len(Members), i \in Founds(w),
         Allocs(w) = DOMAIN w.list.deps \cap (1..(i - 1)), Allocs(w) \subseteq Founds(w)
  PROVE  LET w2 == [StartJob(w, Members[i]) EXCEPT !.list.deps[i].alloc = TRUE] IN
         /\ Holding(w2) /\ Apart(w, w2) /\ Allocs(w2) \subseteq Founds(w2)
         /\ Allocs(w2) = DOMAIN w2.list.deps \cap (1..i)
  <1> DEFINE u == StartJob(w, Members[i])
             w2 == [u EXCEPT !.list.deps[i].alloc = TRUE]
  <1>0. w \in TablesType /\ Members[i] \in Jobs /\ Members[i] \in MemberSet /\ Members[i] # Leader
    BY MemberFacts DEF Holding
  <1>1. PICK ns \in SUBSET Nodes : Started(w, u, Members[i], ns)
    BY <1>0, StartFacts
  <1> HIDE DEF u
  <1>2. /\ u \in TablesType /\ u.list = w.list /\ i \in DOMAIN u.list.deps /\ i \in DOMAIN w.list.deps
        /\ \A k \in Jobs : k # Members[i] => u.job[k] = w.job[k]
    BY <1>1 DEF Started, OnlyJob, Founds
  <1>3. Marked(u, w2) /\ Allocs(w2) = Allocs(u) \cup {i}
    BY <1>2, MarkFacts
  <1> HIDE DEF w2
  <1>4. Allocs(w2) = Allocs(w) \cup {i} /\ Founds(w2) = Founds(w) /\ DOMAIN w2.list.deps = DOMAIN w.list.deps
    BY <1>2, <1>3 DEF Marked, Allocs, Founds
  <1>5. w.job[Members[i]].state # "RUNNING"
    <2> SUFFICES ASSUME w.job[Members[i]].state = "RUNNING"
                 PROVE  FALSE
      OBVIOUS
    <2>1. PICK k \in Allocs(w) : Members[k] = Members[i]
      BY <1>0 DEF Holding
    <2>2. k \in 1..(i - 1) /\ k \in DOMAIN w.list.deps
      OBVIOUS
    <2>3. k \in 1..Len(Members)
      BY <1>0, <2>2, DepFacts
    <2>4. k = i
      BY <2>1, <2>3, MemberFacts
    <2> QED
      BY SMT, <2>2, <2>4
  <1>6. Sound(w2)
    <2>1. Sound(u)
      BY <1>0, <1>1, <1>5, SoundStart DEF Holding
    <2> QED
      BY <1>3, <2>1, SoundMarked DEF Marked
  <1>7. Apart(w, w2) /\ w2.job[Leader].state = "PENDING"
    <2>1. Apart(w, w2)
      BY <1>0, <1>2, <1>3 DEF Apart, Marked
    <2>2. w2.job[Leader].state = "PENDING"
      BY <1>0, <1>2, <1>3, MemberFacts DEF Marked, Holding
    <2> QED
      BY <2>1, <2>2
  <1>8. w2.job[Members[i]].state = "RUNNING" /\ w2.job[Members[i]].cg = w.job[Members[i]].cg
    BY <1>1, <1>3 DEF Started, RunRec, Marked
  <1>9. \A m \in MemberSet : m # Members[i] => w2.job[m] = w.job[m]
    BY <1>2, <1>3, MemberFacts DEF Marked
  <1>10. \A m \in MemberSet : w2.job[m].cg = {}
    BY <1>8, <1>9 DEF Holding
  <1>11. \A k \in Allocs(w2) : w2.job[Members[k]].state = "RUNNING"
    <2> SUFFICES ASSUME NEW k \in Allocs(w2), k # i
                 PROVE  w2.job[Members[k]].state = "RUNNING"
      BY <1>8
    <2>1. k \in Allocs(w) /\ k \in 1..Len(Members)
      BY <1>0, <1>4, DepFacts
    <2>2. Members[k] # Members[i] /\ Members[k] \in MemberSet
      BY <2>1, MemberFacts
    <2> QED
      BY <1>9, <2>1, <2>2 DEF Holding
  <1>12. ASSUME NEW m \in MemberSet, w2.job[m].state = "RUNNING"
         PROVE  \E k \in Allocs(w2) : Members[k] = m
    <2>1. CASE m = Members[i]
      BY <1>4, <2>1
    <2>2. CASE m # Members[i]
      BY <1>4, <1>9, <1>12, <2>2 DEF Holding
    <2> QED
      BY <2>1, <2>2
  <1>13. Allocs(w2) \subseteq Reached(w2)
    <2>1. Reached(w2) = Reached(w)
      BY <1>4, ReachedSame
    <2>2. i \in Reached(w)
      <3> SUFFICES ASSUME NEW k \in DOMAIN w.list.deps, k \notin Founds(w)
                   PROVE  i < k
        BY <1>2 DEF Reached, Founds
      <3>1. k \notin 1..(i - 1) /\ k # i
        OBVIOUS
      <3>2. k \in 1..Len(Members)
        BY <1>0, DepFacts
      <3>3. Len(Members) \in Nat
        BY MemberFacts
      <3> QED
        BY SMT, <3>1, <3>2, <3>3
    <2> QED
      BY <1>4, <2>1, <2>2 DEF Holding
  <1>14. Holding(w2)
    BY <1>3, <1>6, <1>7, <1>10, <1>11, <1>12, <1>13 DEF Holding, Marked
  <1>15. Allocs(w2) = DOMAIN w2.list.deps \cap (1..i)
    <2>1. \A k \in 1..Len(Members) : k \in 1..i <=> k \in 1..(i - 1) \/ k = i
      <3>1. Len(Members) \in Nat
        BY MemberFacts
      <3> QED
        BY SMT, <3>1
    <2>2. DOMAIN w.list.deps \subseteq 1..Len(Members)
      BY <1>0, DepFacts
    <2> QED
      BY <1>2, <1>4, <2>1, <2>2
  <1>16. Allocs(w2) \subseteq Founds(w2)
    BY <1>4
  <1> QED
    BY <1>7, <1>14, <1>15, <1>16 DEF w2, u

\* After i rounds: as long as there was no error, just the entries up to i hold nodes.
Allocated(w, r, i) ==
  /\ r \in ResType /\ Holding(r.w) /\ Apart(w, r.w)
  /\ r.rc = "SUCCESS" => /\ Allocs(r.w) \subseteq Founds(r.w)
                         /\ Allocs(r.w) = DOMAIN r.w.list.deps \cap (1..i)

\* One round of _allocate_packmbrs.
LEMMA AllocateStep ==
  ASSUME NEW w, NEW r, NEW i \in 1..Len(Members), Allocated(w, r, i - 1)
  PROVE  Allocated(w, AllocateEntry(r, i), i)
  <1> DEFINE out == _deallocate_packmbrs(r.w)
             v == [StartJob(r.w, Members[i]) EXCEPT !.list.deps[i].alloc = TRUE]
             r2 == AllocateEntry(r, i)
  <1>0. r2 \in ResType /\ r.w \in TablesType
    BY AllocateTyped, ResFields DEF Allocated
  <1>1. r2 = IF r.rc # "SUCCESS" \/ i \notin DOMAIN r.w.list.deps THEN r
             ELSE IF ~ r.w.list.deps[i].found THEN Result("BAD_MEMBER", r.w)
             ELSE IF Fits(r.w, Members[i]) THEN Result("SUCCESS", v)
             ELSE IF is_cluster_idle(out) THEN Result("NEVER_RUN", _orphan_members(out))
             ELSE Result("NODES_BUSY", out)
    BY DEF AllocateEntry
  <1>2. Holding(out) /\ Apart(r.w, out) /\ Allocs(out) = {}
    BY DeallocateAll DEF Allocated
  <1>3. "BAD_MEMBER" # "SUCCESS" /\ "NEVER_RUN" # "SUCCESS" /\ "NODES_BUSY" # "SUCCESS"
    BY SMT
  <1> HIDE DEF r2, v, out
  <1>4. CASE r.rc # "SUCCESS" \/ i \notin DOMAIN r.w.list.deps
    <2>1. r2 = r
      BY <1>1, <1>4
    <2>2. ASSUME i \notin DOMAIN r.w.list.deps
          PROVE  DOMAIN r.w.list.deps \cap (1..(i - 1)) = DOMAIN r.w.list.deps \cap (1..i)
      <3>1. \A k \in 1..Len(Members) : k # i => (k \in 1..i <=> k \in 1..(i - 1))
        BY SMT, MemberFacts
      <3>2. DOMAIN r.w.list.deps \subseteq 1..Len(Members)
        BY <1>0, DepFacts
      <3> QED
        BY <2>2, <3>1, <3>2
    <2> QED
      BY <1>4, <2>1, <2>2 DEF Allocated, r2
  <1>5. CASE r.rc = "SUCCESS" /\ i \in DOMAIN r.w.list.deps /\ ~ r.w.list.deps[i].found
    <2>0. r2 = Result("BAD_MEMBER", r.w)
      BY <1>1, <1>5
    <2>1. r2.rc = "BAD_MEMBER" /\ r2.w = r.w
      BY <2>0, ResultFields
    <2> QED
      BY <1>0, <1>3, <2>1 DEF Allocated, r2
  <1>6. CASE /\ r.rc = "SUCCESS" /\ i \in DOMAIN r.w.list.deps /\ r.w.list.deps[i].found
             /\ Fits(r.w, Members[i])
    <2>1. r2.rc = "SUCCESS" /\ r2.w = v
      BY <1>1, <1>6, ResultFields
    <2>2. i \in Founds(r.w)
      BY <1>6 DEF Founds
    <2>3. /\ Holding(v) /\ Apart(r.w, v) /\ Allocs(v) \subseteq Founds(v)
          /\ Allocs(v) = DOMAIN v.list.deps \cap (1..i)
      BY <1>6, <2>2, AllocateStart DEF Allocated, v
    <2>4. Apart(w, v)
      BY <2>3 DEF Allocated, Apart
    <2> QED
      BY <1>0, <2>1, <2>3, <2>4 DEF Allocated, r2
  <1>7. CASE /\ r.rc = "SUCCESS" /\ i \in DOMAIN r.w.list.deps /\ r.w.list.deps[i].found
             /\ ~ Fits(r.w, Members[i]) /\ is_cluster_idle(out)
    <2> DEFINE o == _orphan_members(out)
    <2>1. r2.rc = "NEVER_RUN" /\ r2.w = o
      BY <1>1, <1>7, ResultFields
    <2>2. Holding(o) /\ Apart(out, o)
      BY <1>2, OrphanHolds
    <2> HIDE DEF o
    <2>3. Apart(w, o)
      BY <1>2, <2>2 DEF Allocated, Apart
    <2> QED
      BY <1>0, <1>3, <2>1, <2>2, <2>3 DEF Allocated, r2
  <1>8. CASE /\ r.rc = "SUCCESS" /\ i \in DOMAIN r.w.list.deps /\ r.w.list.deps[i].found
             /\ ~ Fits(r.w, Members[i]) /\ ~ is_cluster_idle(out)
    <2>1. r2.rc = "NODES_BUSY" /\ r2.w = out
      BY <1>1, <1>8, ResultFields
    <2>3. Apart(w, out)
      BY <1>2 DEF Allocated, Apart
    <2> QED
      BY <1>0, <1>2, <1>3, <2>1, <2>3 DEF Allocated, r2
  <1> QED
    BY <1>4, <1>5, <1>6, <1>7, <1>8

\* _allocate_packmbrs starts all the members of the list or reports an error.
LEMMA AllocateAll ==
  ASSUME NEW w, Holding(w), Allocs(w) = {}
  PROVE  LET r == _allocate_packmbrs(w) IN
         /\ r \in ResType /\ Holding(r.w) /\ Apart(w, r.w)
         /\ r.rc = "SUCCESS" => Allocs(r.w) = DOMAIN r.w.list.deps
  <1> DEFINE n == Len(Members)
             r0 == Result("SUCCESS", w)
  <1>1. r0 \in ResType /\ r0.rc = "SUCCESS" /\ r0.w = w
    <2>1. r0.rc = "SUCCESS" /\ r0.w = w
      BY ResultFields
    <2>2. r0 \in ResType
      BY ResultFacts DEF Codes, Holding
    <2> QED
      BY <2>1, <2>2
  <1> HIDE DEF r0
  <1>2. PICK f \in [0..n -> ResType] : AllocateRounds(f, r0)
    BY <1>1, AllocateTyped, AllocateLoop
  <1>3. _allocate_packmbrs(w) = f[n]
    BY <1>2 DEF _allocate_packmbrs, AllocateRounds, r0
  <1> DEFINE S == {k \in 0..n : Allocated(w, f[k], k)}
  <1>4. 0 \in S
    <2>1. 0 \in 0..n /\ 1..0 = {}
      BY SMT, MemberFacts
    <2> QED
      BY <1>1, <1>2, <2>1 DEF Allocated, AllocateRounds, Apart
  <1>5. ASSUME NEW k \in 1..n, k - 1 \in S
        PROVE  k \in S
    <2>1. k \in 0..n
      BY Indices, MemberFacts
    <2>2. f[k] = AllocateEntry(f[k - 1], k)
      BY <1>2 DEF AllocateRounds
    <2>3. Allocated(w, f[k - 1], k - 1)
      BY <1>5
    <2>4. Allocated(w, f[k], k)
      <3> HIDE DEF S
      <3> QED
        BY <2>2, <2>3, AllocateStep
    <2> QED
      BY <2>1, <2>4
  <1>6. n \in S
    <2> HIDE DEF S
    <2>1. \A i \in 0..n : i \in S
      BY <1>4, <1>5, Rounds, MemberFacts
    <2> QED
      BY <2>1, MemberFacts
  <1>7. Allocated(w, f[n], n)
    BY <1>6
  <1>8. f[n].rc = "SUCCESS" => Allocs(f[n].w) = DOMAIN f[n].w.list.deps
    <2>1. DOMAIN f[n].w.list.deps \subseteq 1..n
      BY <1>7, DepFacts DEF Allocated, Holding
    <2> QED
      BY <1>7, <2>1 DEF Allocated
  <1> QED
    BY <1>3, <1>7, <1>8 DEF Allocated

-----------------------------------------------------------------------------
(* select_nodes.                                                           *)

\* The leader starts after its members, or they are left to be backed out.
LEMMA LeaderStarts ==
  ASSUME NEW w, Holding(w), Allocs(w) = DOMAIN w.list.deps, NEW test_only,
         NEW r, r = select_nodes_leader(w, test_only)
  PROVE  \/ /\ r.rc = "SUCCESS" /\ ~ test_only /\ Good(r.w) /\ r.w.job[Leader].state = "RUNNING"
            /\ \A j \in Jobs : j \notin MemberSet \cup {Leader} => r.w.job[j] = w.job[j]
         \/ (r.rc = "SUCCESS" => test_only) /\ Holding(r.w) /\ Apart(w, r.w)
  <1> DEFINE out == _deallocate_packmbrs(w)
             u == StartJob(w, Leader)
  <1>0. w \in TablesType /\ "NODES_BUSY" # "SUCCESS" /\ "CONFIG_UNAVAILABLE" # "SUCCESS"
    BY SMT DEF Holding
  <1>1. r = IF Fits(w, Leader) THEN Result("SUCCESS", IF test_only THEN w ELSE u)
            ELSE IF _will_jpck_ldr_run(w) THEN Result("NODES_BUSY", w)
            ELSE Result("CONFIG_UNAVAILABLE", _orphan_members(out))
    BY DEF select_nodes_leader
  <1>2. CASE Fits(w, Leader) /\ ~ test_only
    <2>0. r = Result("SUCCESS", u)
      BY <1>1, <1>2
    <2>1. r.rc = "SUCCESS" /\ r.w = u
      BY SMT, <2>0 DEF Result
    <2>2. PICK ns \in SUBSET Nodes : Started(w, u, Leader, ns)
      BY <1>0, StartFacts, MemberFacts
    <2> HIDE DEF u
    <2>3. Sound(u)
      <3>1. w.job[Leader].cg = {} /\ w.job[Leader].state # "RUNNING"
        <4>1. "PENDING" # "RUNNING"
          BY SMT
        <4> QED
          BY <4>1, MemberFacts DEF Holding, Sound, JobOK
      <3> QED
        BY <2>2, <3>1, SoundStart, MemberFacts DEF Holding
    <2>4. /\ u \in TablesType /\ u.list = w.list /\ u.job[Leader].state = "RUNNING"
          /\ \A k \in Jobs : k # Leader => u.job[k] = w.job[k]
      BY <2>2 DEF Started, OnlyJob, RunRec
    <2>5. Together(u)
      <3>1. "RUNNING" \notin {"none", "PENDING"}
        BY SMT
      <3>2. ASSUME NEW i \in DOMAIN u.list.deps
            PROVE  u.list.deps[i].alloc /\ u.job[Members[i]].state = "RUNNING"
        <4>1. i \in Allocs(w)
          BY <2>4, <3>2
        <4>2. Members[i] \in Jobs /\ Members[i] # Leader
          BY <1>0, <4>1, DepFacts, MemberFacts
        <4>3. w.list.deps[i].alloc /\ w.job[Members[i]].state = "RUNNING"
          BY <4>1 DEF Holding, Allocs
        <4> QED
          BY <2>4, <4>2, <4>3
      <3> QED
        BY <2>4, <3>1, <3>2 DEF Together, Waits
    <2> QED
      BY <1>2, <2>1, <2>3, <2>4, <2>5 DEF Good
  <1>3. CASE Fits(w, Leader) /\ test_only
    <2>0. r = Result("SUCCESS", w)
      BY <1>1, <1>3
    <2>1. r.rc = "SUCCESS" /\ r.w = w
      BY SMT, <2>0 DEF Result
    <2> QED
      BY <1>3, <2>1 DEF Apart
  <1>4. CASE ~ Fits(w, Leader) /\ _will_jpck_ldr_run(w)
    <2>0. r = Result("NODES_BUSY", w)
      BY <1>1, <1>4
    <2>1. r.rc = "NODES_BUSY" /\ r.w = w
      BY SMT, <2>0 DEF Result
    <2> QED
      BY <1>0, <2>1 DEF Apart
  <1>5. CASE ~ Fits(w, Leader) /\ ~ _will_jpck_ldr_run(w)
    <2> DEFINE o == _orphan_members(out)
    <2>0. r = Result("CONFIG_UNAVAILABLE", o)
      BY <1>1, <1>5
    <2>1. r.rc = "CONFIG_UNAVAILABLE" /\ r.w = o
      BY SMT, <2>0 DEF Result
    <2>2. Holding(out) /\ Apart(w, out) /\ Allocs(out) = {}
      BY DeallocateAll
    <2> HIDE DEF out
    <2>3. Holding(o) /\ Apart(out, o)
      BY <2>2, OrphanHolds
    <2> HIDE DEF o
    <2> QED
      BY <1>0, <2>1, <2>2, <2>3 DEF Apart
  <1> QED
    BY <1>2, <1>3, <1>4, <1>5

\* What an attempt to start the pack comes to: it runs, or it waits as before.
Tried(w, r) ==
  /\ Good(r.w) /\ \A j \in Jobs : j \notin MemberSet \cup {Leader} => r.w.job[j] = w.job[j]
  /\ \/ r.w.job[Leader].state = "PENDING"
     \/ r.rc = "SUCCESS" /\ r.w.job[Leader].state = "RUNNING"

\* After the members are backed out the pack waits, whatever was allocated.
LEMMA BackedOut ==
  ASSUME NEW w, NEW v, NEW rc, Holding(v), Apart(w, v)
  PROVE  Tried(w, Result(rc, _deallocate_packmbrs(v)))
  <1> DEFINE out == _deallocate_packmbrs(v)
  <1>1. Holding(out) /\ Apart(v, out) /\ Allocs(out) = {}
    BY DeallocateAll
  <1> HIDE DEF out
  <1>2. Good(out) /\ out.job[Leader].state = "PENDING"
    BY <1>1, HoldingGood
  <1>3. Tried(w, Result(rc, out))
    <2>1. Result(rc, out).w = out
      BY SMT DEF Result
    <2> QED
      BY <1>1, <1>2, <2>1 DEF Tried, Apart
  <1> QED
    BY <1>3 DEF out

\* select_nodes starts the whole pack or nothing of it.
LEMMA SelectTries ==
  ASSUME NEW w, Good(w), w.job[Leader].state = "PENDING", NEW test_only
  PROVE  Tried(w, select_nodes(w, test_only))
  <1> DEFINE mbrs == _allocate_packmbrs(w)
             all == select_nodes_leader(mbrs.w, test_only)
             r == select_nodes(w, test_only)
  <1>0. Holding(w) /\ Allocs(w) = {}
    BY HoldingGood
  <1>1. r = IF ~ w.list.there \/ DOMAIN w.list.deps = {} THEN Result("BAD_DEPENDENCY", w)
            ELSE IF mbrs.rc # "SUCCESS"
            THEN Result(mbrs.rc, _deallocate_packmbrs(mbrs.w))
            ELSE IF all.rc # "SUCCESS" \/ test_only
            THEN Result(all.rc, _deallocate_packmbrs(all.w))
            ELSE all
    BY DEF select_nodes
  <1>2. /\ Holding(mbrs.w) /\ Apart(w, mbrs.w)
        /\ mbrs.rc = "SUCCESS" => Allocs(mbrs.w) = DOMAIN mbrs.w.list.deps
    BY <1>0, AllocateAll
  <1> HIDE DEF r, mbrs
  <1>3. CASE ~ w.list.there \/ DOMAIN w.list.deps = {}
    <2>1. r.w = w
      BY <1>1, <1>3, ResultFields
    <2> QED
      BY <2>1 DEF Tried, r
  <1>4. CASE ~ (~ w.list.there \/ DOMAIN w.list.deps = {}) /\ mbrs.rc # "SUCCESS"
    <2>1. r = Result(mbrs.rc, _deallocate_packmbrs(mbrs.w))
      BY <1>1, <1>4
    <2>2. Tried(w, r)
      BY <1>2, <2>1, BackedOut
    <2> QED
      BY <2>2 DEF r
  <1>5. CASE ~ (~ w.list.there \/ DOMAIN w.list.deps = {}) /\ mbrs.rc = "SUCCESS"
    <2>1. \/ /\ all.rc = "SUCCESS" /\ ~ test_only /\ Good(all.w) /\ all.w.job[Leader].state = "RUNNING"
             /\ \A j \in Jobs : j \notin MemberSet \cup {Leader} => all.w.job[j] = mbrs.w.job[j]
          \/ (all.rc = "SUCCESS" => test_only) /\ Holding(all.w) /\ Apart(mbrs.w, all.w)
      BY <1>2, <1>5, LeaderStarts
    <2> HIDE DEF all
    <2>2. CASE /\ all.rc = "SUCCESS" /\ ~ test_only /\ Good(all.w) /\ all.w.job[Leader].state = "RUNNING"
               /\ \A j \in Jobs : j \notin MemberSet \cup {Leader} => all.w.job[j] = mbrs.w.job[j]
      <3>1. r = all
        BY <1>1, <1>5, <2>2
      <3>2. Tried(w, all)
        BY <1>2, <2>2 DEF Tried, Apart
      <3> QED
        BY <3>1, <3>2 DEF r
    <2>3. CASE (all.rc = "SUCCESS" => test_only) /\ Holding(all.w) /\ Apart(mbrs.w, all.w)
      <3>1. r = Result(all.rc, _deallocate_packmbrs(all.w))
        BY <1>1, <1>5, <2>3
      <3>2. Apart(w, all.w)
        BY <1>2, <2>3 DEF Apart
      <3>3. Tried(w, r)
        BY <2>3, <3>1, <3>2, BackedOut
      <3> QED
        BY <3>3 DEF r
    <2> QED
      BY <2>1, <2>2, <2>3
  <1> QED
    BY <1>3, <1>4, <1>5

-----------------------------------------------------------------------------
(* Steps that start nothing.                                               *)

-----------------------------------------------------------------------------
(* Steps that allocate nothing.                                            *)

\* The entries hold what they held.
SameList(w, w2) ==
  /\ DOMAIN w2.list.deps = DOMAIN w.list.deps
  /\ \A i \in DOMAIN w.list.deps : w2.list.deps[i].alloc <=> w.list.deps[i].alloc

Later(s, s2) == s2 = s \/ s2 \in {"ENDED", "purged"} \/ (s = "none" /\ s2 = "PENDING")

\* Submission, the end and the purge of jobs do not separate a pack.
LEMMA TogetherLater ==
  ASSUME NEW w \in TablesType, NEW w2, Together(w), SameList(w, w2),
         \A j \in Jobs : Later(w.job[j].state, w2.job[j].state) /\ w2.job[j].cg \subseteq w.job[j].cg
  PROVE  Together(w2)
  <1>0. /\ "ENDED" \notin {"none", "PENDING", "RUNNING"} /\ "purged" \notin {"none", "PENDING", "RUNNING"}
        /\ "PENDING" # "RUNNING"
    BY SMT
  <1>1. Later(w.job[Leader].state, w2.job[Leader].state)
    BY MemberFacts
  <1>2. ASSUME Waits(w2)
        PROVE  /\ \A m \in MemberSet : w2.job[m].state # "RUNNING" /\ w2.job[m].cg = {}
               /\ \A i \in DOMAIN w2.list.deps : ~ w2.list.deps[i].alloc
    <2>1. Waits(w)
      BY <1>0, <1>1, <1>2 DEF Waits, Later
    <2>2. ASSUME NEW m \in MemberSet
          PROVE  w2.job[m].state # "RUNNING" /\ w2.job[m].cg = {}
      <3>1. w.job[m].state # "RUNNING" /\ w.job[m].cg = {} /\ m \in Jobs
        BY <2>1, MemberFacts DEF Together
      <3>2. Later(w.job[m].state, w2.job[m].state) /\ w2.job[m].cg \subseteq w.job[m].cg
        BY <3>1
      <3> QED
        BY <1>0, <3>1, <3>2 DEF Later
    <2> QED
      BY <2>1, <2>2 DEF Together, SameList
  <1>3. ASSUME w2.job[Leader].state = "RUNNING", NEW i \in DOMAIN w2.list.deps
        PROVE  w2.list.deps[i].alloc /\ w2.job[Members[i]].state \notin {"none", "PENDING"}
    <2>1. w.job[Leader].state = "RUNNING"
      BY <1>0, <1>1, <1>3 DEF Later
    <2>2. w.list.deps[i].alloc /\ w.job[Members[i]].state \notin {"none", "PENDING"}
      BY <1>3, <2>1 DEF Together, SameList
    <2>3. i \in 1..Len(Members) /\ i \in DOMAIN w.list.deps
      BY DepFacts DEF SameList
    <2>4. Later(w.job[Members[i]].state, w2.job[Members[i]].state)
      BY <2>3, MemberFacts
    <2> QED
      BY <1>0, <2>2, <2>3, <2>4 DEF Later, SameList
  <1> QED
    BY <1>2, <1>3 DEF Together

\* The same with the counters of the nodes.
LEMMA QuietGood ==
  ASSUME NEW w, Good(w), NEW w2 \in TablesType, Quiet(w, w2), SameList(w, w2),
         \A j \in Jobs : Later(w.job[j].state, w2.job[j].state)
  PROVE  Good(w2)
  <1>1. Sound(w2)
    BY SoundQuiet DEF Good
  <1>2. \A j \in Jobs : w2.job[j].cg \subseteq w.job[j].cg
    BY DEF Quiet, StateOnly
  <1>3. Together(w2)
    BY <1>2, TogetherLater DEF Good
  <1> QED
    BY <1>1, <1>3 DEF Good

\* A job is submitted.
LEMMA SubmitGood ==
  ASSUME NEW w, Good(w), NEW j \in Jobs, w.job[j].state = "none"
  PROVE  LET w2 == [w EXCEPT !.job[j].state = "PENDING"] IN
         /\ Good(w2) /\ w2.list = w.list /\ w2.job[j].state = "PENDING"
         /\ \A k \in Jobs : k # j => w2.job[k] = w.job[k]
  <1> DEFINE w2 == [w EXCEPT !.job[j].state = "PENDING"]
  <1>1. Moved(w, w2, j, "PENDING")
    <2>1. "PENDING" \in States
      BY DEF States
    <2> QED
      BY <2>1, StateFacts DEF Good
  <1> HIDE DEF w2
  <1>2. /\ w2 \in TablesType /\ w2.list = w.list /\ w2.job[j].state = "PENDING"
        /\ \A k \in Jobs : k # j => w2.job[k] = w.job[k]
    BY <1>1 DEF Moved, OnlyJob
  <1>3. Quiet(w, w2)
    <2>1. \A k \in Jobs : StateOnly(w.job[k], w2.job[k])
      BY <1>1, <1>2 DEF Moved, StateOnly
    <2> QED
      BY <1>1, <1>2, <2>1 DEF Moved, Quiet
  <1>4. Good(w2)
    BY <1>2, <1>3, QuietGood DEF SameList, Later
  <1> QED
    BY <1>2, <1>4 DEF w2

\* The member forgets its leader.
LEMMA ForgetGood ==
  ASSUME NEW w, Good(w), NEW j \in Jobs
  PROVE  LET w2 == [w EXCEPT !.job[j].leader = NoJob] IN
         Good(w2) /\ \A k \in Jobs : w2.job[k].state = w.job[k].state
  <1> DEFINE r == [w.job[j] EXCEPT !.leader = NoJob]
             w2 == [w EXCEPT !.job[j] = r]
  <1>0. w \in TablesType
    BY DEF Good
  <1>1. w.job[j] \in JobRec
    BY SMT, <1>0 DEF TablesType
  <1>2. r \in JobRec /\ StateOnly(w.job[j], r) /\ r.state = w.job[j].state
    <2>1. r \in JobRec
      BY <1>1, RecTypes
    <2> QED
      BY SMT, <1>1, <2>1 DEF JobRec, StateOnly
  <1>3. [w EXCEPT !.job[j].leader = NoJob] = w2
    OBVIOUS
  <1> HIDE DEF r
  <1>4. OnlyJob(w, w2, j) /\ w2.job[j] = r /\ w2.node = w.node /\ w2.twice = w.twice
    BY <1>0, <1>2, JobFacts
  <1> HIDE DEF w2
  <1>5. \A k \in Jobs : StateOnly(w.job[k], w2.job[k]) /\ w2.job[k].state = w.job[k].state
    BY <1>2, <1>4 DEF OnlyJob, StateOnly
  <1>6. Quiet(w, w2) /\ SameList(w, w2) /\ w2 \in TablesType
    BY <1>4, <1>5 DEF Quiet, SameList, OnlyJob
  <1>7. Good(w2)
    BY <1>5, <1>6, QuietGood DEF Later
  <1> QED
    BY <1>3, <1>5, <1>7

\* The leader's list is looked up again.
LEMMA RefreshGood ==
  ASSUME NEW w, Good(w)
  PROVE  LET w2 == RefreshList(w) IN
         Good(w2) /\ w2.job = w.job /\ w2.node = w.node /\ w2.twice = w.twice /\ SameList(w, w2)
  <1> DEFINE d == [i \in DOMAIN w.list.deps |->
                     [w.list.deps[i] EXCEPT !.found = Found(w, Members[i])]]
             w2 == [w EXCEPT !.list.deps = d]
  <1>0. w \in TablesType
    BY DEF Good
  <1>1. RefreshList(w) = w2
    BY DEF RefreshList
  <1>2. ASSUME NEW i \in DOMAIN w.list.deps
        PROVE  d[i] \in Dep /\ d[i].alloc = w.list.deps[i].alloc
    <2> DEFINE b == Found(w, Members[i])
    <2>1. w.list.deps[i] \in Dep
      BY <1>0, DepFacts
    <2>2. b \in BOOLEAN
      BY DEF Found
    <2>3. d[i] = [w.list.deps[i] EXCEPT !.found = b]
      OBVIOUS
    <2> HIDE DEF d, b
    <2> QED
      BY SMT, <2>1, <2>2, <2>3 DEF Dep
  <1>3. d \in Deps
    <2>1. d \in [DOMAIN w.list.deps -> Dep]
      BY <1>2
    <2>2. DOMAIN w.list.deps \in SUBSET DOMAIN Members
      BY <1>0, DepFacts, MemberFacts
    <2> HIDE DEF d
    <2> QED
      BY <2>1, <2>2 DEF Deps
  <1>4. DOMAIN d = DOMAIN w.list.deps
    OBVIOUS
  <1> HIDE DEF d
  <1>5. /\ w2 \in TablesType /\ w2.job = w.job /\ w2.node = w.node /\ w2.twice = w.twice
        /\ w2.list.deps = d
    BY SMT, <1>0, <1>3 DEF TablesType
  <1> HIDE DEF w2
  <1>6. SameList(w, w2) /\ Quiet(w, w2) /\ \A j \in Jobs : Later(w.job[j].state, w2.job[j].state)
    BY <1>2, <1>4, <1>5 DEF SameList, Quiet, StateOnly, Later
  <1>7. Good(w2)
    BY <1>5, <1>6, QuietGood
  <1> QED
    BY <1>1, <1>5, <1>6, <1>7

\* The leader gets its list.
LEMMA XrefGood ==
  ASSUME NEW w, Good(w), w.job[Leader].state = "PENDING"
  PROVE  LET w2 == XrefPackleader(w) IN
         Good(w2) /\ \A j \in Jobs : w2.job[j].state = w.job[j].state
  <1> DEFINE found == {i \in DOMAIN Members : Found(w, Members[i])}
             g == [j \in Jobs |-> IF j = Leader \/ \E i \in found : Members[i] = j
                                  THEN [w.job[j] EXCEPT !.leader = Leader]
                                  ELSE w.job[j]]
             d == [i \in found |-> [found |-> TRUE, alloc |-> FALSE]]
             l == [there |-> TRUE, deps |-> d]
             w2 == [w EXCEPT !.job = g, !.list = l]
  <1>0. w \in TablesType
    BY DEF Good
  <1>1. XrefPackleader(w) = w2
    BY DEF XrefPackleader
  <1>2. ASSUME NEW j \in Jobs
        PROVE  g[j] \in JobRec /\ StateOnly(w.job[j], g[j]) /\ g[j].state = w.job[j].state
    <2>1. w.job[j] \in JobRec
      BY SMT, <1>0 DEF TablesType
    <2> DEFINE r == [w.job[j] EXCEPT !.leader = Leader]
    <2>2. r \in JobRec
      BY <2>1, RecTypes
    <2>3. StateOnly(w.job[j], r) /\ r.state = w.job[j].state
      BY SMT, <2>1 DEF JobRec, StateOnly
    <2>4. g[j] = r \/ g[j] = w.job[j]
      OBVIOUS
    <2> HIDE DEF g, r
    <2> QED
      BY <2>1, <2>2, <2>3, <2>4 DEF StateOnly
  <1>3. g \in [Jobs -> JobRec]
    BY <1>2
  <1>4. d \in Deps /\ \A i \in DOMAIN d : ~ d[i].alloc
    <2>1. [found |-> TRUE, alloc |-> FALSE] \in Dep /\ ~ [found |-> TRUE, alloc |-> FALSE].alloc
      BY SMT DEF Dep
    <2>2. d \in [found -> Dep] /\ found \in SUBSET DOMAIN Members
      BY <2>1
    <2> QED
      BY <2>1, <2>2 DEF Deps
  <1>5. l \in [there : BOOLEAN, deps : Deps] /\ l.deps = d
    <2> HIDE DEF d
    <2> QED
      BY SMT, <1>4
  <1> HIDE DEF g, d, l
  <1>6. /\ w2 \in TablesType /\ w2.job = g /\ w2.list = l
        /\ w2.node = w.node /\ w2.twice = w.twice
    <2> DEFINE u == [w EXCEPT !.job = g]
    <2>1. u \in TablesType /\ u.job = g /\ u.node = w.node /\ u.twice = w.twice
      BY SMT, <1>0, <1>3 DEF TablesType
    <2>2. w2 = [u EXCEPT !.list = l]
      OBVIOUS
    <2> HIDE DEF u, w2
    <2> QED
      BY SMTT(20), <1>5, <2>1, <2>2 DEF TablesType
  <1> HIDE DEF w2
  <1>7. Quiet(w, w2)
    BY <1>2, <1>6 DEF Quiet
  <1>8. Sound(w2)
    BY <1>7, SoundQuiet DEF Good
  <1>9. Together(w2)
    <2>0. "PENDING" # "RUNNING" /\ "PENDING" \in {"none", "PENDING"}
      BY SMT
    <2>1. \A m \in MemberSet : w2.job[m].state # "RUNNING" /\ w2.job[m].cg = {}
      <3>1. \A m \in MemberSet : w.job[m].state # "RUNNING" /\ w.job[m].cg = {}
        BY <2>0 DEF Good, Together, Waits
      <3>2. \A m \in MemberSet : w2.job[m].state = w.job[m].state /\ w2.job[m].cg = w.job[m].cg
        BY <1>2, <1>6, MemberFacts DEF StateOnly
      <3> QED
        BY <3>1, <3>2
    <2>2. w2.job[Leader].state = "PENDING"
      BY <1>2, <1>6, MemberFacts
    <2> QED
      BY <1>4, <1>5, <1>6, <2>0, <2>1, <2>2 DEF Together, Waits
  <1> QED
    BY <1>1, <1>2, <1>6, <1>8, <1>9 DEF Good

-----------------------------------------------------------------------------
(* The actions, one at a time.                                             *)

-----------------------------------------------------------------------------
(* The actions.                                                            *)

\* What a step from w to w2 keeps, and the one way a job comes back.
StepOK(w, w2) ==
  /\ Good(w2)
  /\ \A j \in Jobs : w.job[j].state = "ENDED" /\ w2.job[j].state \in {"PENDING", "RUNNING"}
       => /\ j \in MemberSet /\ Waits(w)
          /\ w.job[Leader].state = "PENDING" \/ w.job[Leader] # w2.job[Leader]

\* A step that only ends jobs revives none.
LEMMA WindsOK ==
  ASSUME NEW w, NEW u, NEW w2, Winds(u, w2), \A j \in Jobs : u.job[j].state = w.job[j].state
  PROVE  StepOK(w, w2)
  <1>1. "ENDED" \notin {"PENDING", "RUNNING"}
    BY SMT
  <1> QED
    BY <1>1 DEF Winds, StepOK

\* A job of no pack starts, or does not.
LEMMA OtherStarts ==
  ASSUME NEW w, Good(w), NEW j \in OtherSet, w.job[j].state = "PENDING", NEW test_only
  PROVE  LET w2 == select_nodes_other(w, j, test_only).w IN
         Good(w2) /\ \A k \in Jobs : k # j => w2.job[k] = w.job[k]
  <1> DEFINE u == StartJob(w, j)
             w2 == select_nodes_other(w, j, test_only).w
  <1>1. w2 = w \/ w2 = u
    <2>1. \A x : Result("SUCCESS", x).w = x /\ Result("NODES_BUSY", x).w = x
      BY SMT DEF Result
    <2> HIDE DEF u
    <2> QED
      BY <2>1 DEF select_nodes_other, u
  <1>2. j \in Jobs /\ j # Leader /\ j \notin MemberSet
    BY JobIds DEF Jobs
  <1>3. PICK ns \in SUBSET Nodes : Started(w, u, j, ns)
    BY <1>2, StartFacts DEF Good
  <1> HIDE DEF u, w2
  <1>4. /\ u \in TablesType /\ u.list = w.list
        /\ \A k \in Jobs : k # j => u.job[k] = w.job[k]
    BY <1>3 DEF Started, OnlyJob
  <1>5. Sound(u)
    <2>1. w.job[j].cg = {} /\ w.job[j].state # "RUNNING"
      <3>1. "PENDING" # "RUNNING"
        BY SMT
      <3> QED
        BY <1>2, <3>1 DEF Good, Sound, JobOK
    <2> QED
      BY <1>2, <1>3, <2>1, SoundStart DEF Good
  <1>6. Together(u)
    <2>1. u.job[Leader] = w.job[Leader] /\ \A m \in MemberSet : u.job[m] = w.job[m]
      BY <1>2, <1>4, MemberFacts
    <2>2. \A i \in DOMAIN u.list.deps : u.job[Members[i]] = w.job[Members[i]]
      <3>1. \A i \in DOMAIN u.list.deps : i \in 1..Len(Members)
        BY <1>4, DepFacts
      <3> QED
        BY <2>1, <3>1, MemberFacts
    <2> QED
      BY <1>4, <2>1, <2>2 DEF Together, Waits, Good
  <1> QED
    BY <1>1, <1>4, <1>5, <1>6 DEF Good, w2

\* submit_member.
LEMMA SubmitMemberOK ==
  ASSUME Good(Tables), NEW i \in DOMAIN Members, submit_member(i)
  PROVE  \E w : Become(w) /\ StepOK(Tables, w)
  <1> DEFINE w == Tables
             w2 == [w EXCEPT !.job[Members[i]].state = "PENDING"]
  <1>0. w.job = job
    BY DEF Tables
  <1>1. Become(w2) /\ w.job[Members[i]].state = "none" /\ Members[i] \in Jobs
    BY <1>0, MemberFacts DEF submit_member
  <1> HIDE DEF w
  <1>2. /\ Good(w2) /\ \A k \in Jobs : k # Members[i] => w2.job[k] = w.job[k]
    BY <1>1, SubmitGood DEF w
  <1>3. StepOK(w, w2)
    <2>1. "none" # "ENDED" /\ "ENDED" \notin {"PENDING", "RUNNING"}
      BY SMT
    <2> HIDE DEF w2
    <2> QED
      BY <1>1, <1>2, <2>1 DEF StepOK
  <1> QED
    BY <1>1, <1>3 DEF w

\* submit_other.
LEMMA SubmitOtherOK ==
  ASSUME Good(Tables), NEW j \in OtherSet, NEW no_alloc, submit_other(j, no_alloc)
  PROVE  \E w : Become(w) /\ StepOK(Tables, w)
  <1> DEFINE w == Tables
             u == [w EXCEPT !.job[j].state = "PENDING"]
             w2 == select_nodes_other(u, j, no_alloc).w
  <1>0. w.job = job /\ j \in Jobs
    BY DEF Tables, Jobs
  <1>1. Become(w2) /\ w.job[j].state = "none"
    BY <1>0 DEF submit_other
  <1> HIDE DEF w
  <1>2. Good(u) /\ u.job[j].state = "PENDING" /\ \A k \in Jobs : k # j => u.job[k] = w.job[k]
    BY <1>0, <1>1, SubmitGood DEF w
  <1> HIDE DEF u
  <1>3. Good(w2) /\ \A k \in Jobs : k # j => w2.job[k] = u.job[k]
    BY <1>2, OtherStarts
  <1>4. StepOK(w, w2)
    <2>1. "none" # "ENDED" /\ "ENDED" \notin {"PENDING", "RUNNING"}
      BY SMT
    <2> HIDE DEF w2
    <2> QED
      BY <1>1, <1>2, <1>3, <2>1 DEF StepOK
  <1> QED
    BY <1>1, <1>4 DEF w

\* schedule_other.
LEMMA ScheduleOtherOK ==
  ASSUME Good(Tables), NEW j \in OtherSet, schedule_other(j)
  PROVE  \E w : Become(w) /\ StepOK(Tables, w)
  <1> DEFINE w == Tables
             w2 == select_nodes_other(w, j, FALSE).w
  <1>0. w.job = job /\ j \in Jobs
    BY DEF Tables, Jobs
  <1>1. Become(w2) /\ w.job[j].state = "PENDING"
    BY <1>0 DEF schedule_other
  <1> HIDE DEF w
  <1>3. Good(w2) /\ \A k \in Jobs : k # j => w2.job[k] = w.job[k]
    BY <1>1, OtherStarts DEF w
  <1>4. StepOK(w, w2)
    <2>1. "ENDED" \notin {"PENDING", "RUNNING"}
      BY SMT
    <2> HIDE DEF w2
    <2> QED
      BY <1>1, <1>3, <2>1 DEF StepOK
  <1> QED
    BY <1>1, <1>4 DEF w

\* scancel.
LEMMA ScancelOK ==
  ASSUME Good(Tables), NEW j \in Jobs, NEW pack_member, scancel(j, pack_member)
  PROVE  \E w : Become(w) /\ StepOK(Tables, w)
  <1> DEFINE w == Tables
             u == IF j \in MemberSet THEN [w EXCEPT !.job[j].leader = NoJob] ELSE w
             w2 == job_signal(u, j)
  <1>1. Become(w2)
    BY DEF scancel
  <1> HIDE DEF w
  <1>2. Good(u) /\ \A k \in Jobs : u.job[k].state = w.job[k].state
    BY ForgetGood DEF w
  <1> HIDE DEF u
  <1>3. Winds(u, w2)
    BY <1>2, SignalWinds
  <1>4. StepOK(w, w2)
    BY <1>2, <1>3, WindsOK
  <1> QED
    BY <1>1, <1>4 DEF w

\* The completions and the time limits.
LEMMA CompleteOK ==
  ASSUME Good(Tables),
         \/ \E j \in Jobs : Become(_job_complete(Tables, j))
         \/ \E rc \in {0, 1} : complete_leader(rc)
         \/ \E late \in SUBSET Jobs : job_time_limit(late)
  PROVE  \E w : Become(w) /\ StepOK(Tables, w)
  <1>1. ASSUME NEW w, Winds(Tables, w), Become(w)
        PROVE  \E u : Become(u) /\ StepOK(Tables, u)
    <2>1. StepOK(Tables, w)
      BY <1>1, WindsOK
    <2> QED
      BY <1>1, <2>1
  <1>2. ASSUME NEW j \in Jobs, Become(_job_complete(Tables, j))
        PROVE  \E u : Become(u) /\ StepOK(Tables, u)
    BY <1>1, <1>2, EndsSignalled
  <1>3. ASSUME NEW rc \in {0, 1}, complete_leader(rc)
        PROVE  \E u : Become(u) /\ StepOK(Tables, u)
    <2>1. Become(LeaderCompleted(Tables, rc))
      BY <1>3 DEF complete_leader
    <2> QED
      BY <1>1, <2>1, CompletedWinds
  <1>4. ASSUME NEW late, job_time_limit(late)
        PROVE  \E u : Become(u) /\ StepOK(Tables, u)
    BY <1>1, <1>4, TimeLimitWinds
  <1> QED
    BY <1>2, <1>3, <1>4

\* submit_leader: the pack is tried at once.
LEMMA SubmitLeaderOK ==
  ASSUME Good(Tables), NEW no_alloc, submit_leader(no_alloc)
  PROVE  \E w : Become(w) /\ StepOK(Tables, w)
  <1> DEFINE w == Tables
             u == [w EXCEPT !.job[Leader].state = "PENDING"]
             x == XrefPackleader(u)
             r == select_nodes(x, no_alloc)
             w2 == IF r.rc \in {"SUCCESS", "NODES_BUSY"} THEN r.w ELSE Ended(r.w, Leader)
  <1>0. /\ "none" # "ENDED" /\ "none" # "PENDING" /\ "none" # "RUNNING" /\ "none" \in {"none", "PENDING"}
        /\ "SUCCESS" \in {"SUCCESS", "NODES_BUSY"}
    BY SMT
  <1>1. Become(w2) /\ w.job[Leader].state = "none"
    BY DEF submit_leader, Tables
  <1> HIDE DEF w
  <1>2. Good(u) /\ u.job[Leader].state = "PENDING" /\ \A k \in Jobs : k # Leader => u.job[k] = w.job[k]
    BY <1>1, SubmitGood, MemberFacts DEF w
  <1> HIDE DEF u
  <1>3. Good(x) /\ \A k \in Jobs : x.job[k].state = u.job[k].state
    BY <1>2, XrefGood
  <1>4. x.job[Leader].state = "PENDING"
    BY <1>2, <1>3, MemberFacts
  <1> HIDE DEF x
  <1>5. Tried(x, r)
    BY <1>3, <1>4, SelectTries
  <1> HIDE DEF r
  <1>6. Good(w2) /\ w2.job[Leader].state \in {"PENDING", "RUNNING", "ENDED"}
        /\ \A k \in Jobs : w2.job[k].state \in {r.w.job[k].state, "ENDED"}
    <2>1. CASE r.rc \in {"SUCCESS", "NODES_BUSY"}
      BY <1>5, <2>1 DEF Tried
    <2>2. CASE r.rc \notin {"SUCCESS", "NODES_BUSY"}
      <3>1. r.w.job[Leader].state = "PENDING" /\ Good(r.w)
        BY <1>0, <1>5, <2>2 DEF Tried
      <3>2. Winds(r.w, Ended(r.w, Leader))
        BY <3>1, EndsWaiting, MemberFacts
      <3>3. w2 = Ended(r.w, Leader)
        BY <2>2
      <3> HIDE DEF w2
      <3> QED
        BY <3>1, <3>2, <3>3, MemberFacts DEF Winds
    <2> QED
      BY <2>1, <2>2
  <1> HIDE DEF w2
  <1>7. w2.job[Leader] # w.job[Leader]
    BY <1>0, <1>1, <1>6
  <1>8. ASSUME NEW j \in Jobs, w.job[j].state = "ENDED", w2.job[j].state \in {"PENDING", "RUNNING"}
        PROVE  j \in MemberSet
    <2>1. j # Leader
      BY <1>0, <1>1, <1>8
    <2>2. x.job[j].state = "ENDED"
      BY <1>2, <1>3, <1>8, <2>1
    <2>3. "ENDED" \notin {"PENDING", "RUNNING"}
      BY SMT
    <2>4. r.w.job[j].state # "ENDED"
      BY <1>6, <1>8, <2>3
    <2> QED
      BY <1>5, <2>1, <2>2, <2>4 DEF Tried
  <1>9. StepOK(w, w2)
    BY <1>0, <1>1, <1>6, <1>7, <1>8 DEF StepOK, Waits
  <1> QED
    BY <1>1, <1>9 DEF w

\* schedule_leader: the pack is tried again, and killed if it can never run.
LEMMA ScheduleLeaderOK ==
  ASSUME Good(Tables), schedule_leader
  PROVE  \E w : Become(w) /\ StepOK(Tables, w)
  <1> DEFINE w == Tables
             x == RefreshList(w)
             r == select_nodes(x, FALSE)
             s == job_signal(r.w, Leader)
             w2 == IF r.rc \in {"SUCCESS", "NODES_BUSY"} THEN r.w ELSE Ended(s, Leader)
  <1>0. /\ "ENDED" \notin {"PENDING", "RUNNING"} /\ "PENDING" \in {"none", "PENDING"}
        /\ "SUCCESS" \in {"SUCCESS", "NODES_BUSY"}
    BY SMT
  <1>1. Become(w2) /\ w.job[Leader].state = "PENDING"
    BY DEF schedule_leader, LeaderScheduled, Tables
  <1> HIDE DEF w
  <1>2. Good(x) /\ x.job = w.job
    BY RefreshGood DEF w
  <1>3. x.job[Leader].state = "PENDING"
    BY <1>1, <1>2
  <1> HIDE DEF x
  <1>5. Tried(x, r)
    BY <1>2, <1>3, SelectTries
  <1> HIDE DEF r
  <1>6. Good(w2) /\ \A k \in Jobs : w2.job[k].state \in {r.w.job[k].state, "ENDED"}
    <2>1. CASE r.rc \in {"SUCCESS", "NODES_BUSY"}
      BY <1>5, <2>1 DEF Tried
    <2>2. CASE r.rc \notin {"SUCCESS", "NODES_BUSY"}
      <3>1. r.w.job[Leader].state = "PENDING" /\ Good(r.w)
        BY <1>0, <1>5, <2>2 DEF Tried
      <3>2. Winds(r.w, s)
        BY <3>1, SignalWinds, MemberFacts
      <3>3. w2 = Ended(s, Leader)
        BY <2>2
      <3> HIDE DEF w2, s
      <3>4. s.job[Leader].state \in {"PENDING", "ENDED"} /\ Good(s)
        BY <3>1, <3>2, MemberFacts DEF Winds
      <3>5. Winds(s, w2)
        BY <3>3, <3>4, EndsWaiting, MemberFacts
      <3> QED
        BY <3>2, <3>5 DEF Winds
    <2> QED
      BY <2>1, <2>2
  <1> HIDE DEF w2
  <1>8. ASSUME NEW j \in Jobs, w.job[j].state = "ENDED", w2.job[j].state \in {"PENDING", "RUNNING"}
        PROVE  j \in MemberSet
    <2>1. j # Leader
      BY <1>0, <1>1, <1>8
    <2>4. r.w.job[j].state # "ENDED"
      BY <1>0, <1>6, <1>8
    <2> QED
      BY <1>2, <1>5, <1>8, <2>1, <2>4 DEF Tried
  <1>9. StepOK(w, w2)
    BY <1>0, <1>1, <1>6, <1>8 DEF StepOK, Waits
  <1> QED
    BY <1>1, <1>9 DEF w

\* job_epilog_complete.
LEMMA EpilogOK ==
  ASSUME Good(Tables), NEW j \in Jobs, NEW n \in Nodes, job_epilog_complete(j, n)
  PROVE  \E w : Become(w) /\ StepOK(Tables, w)
  <1> DEFINE w == Tables
             w2 == make_node_idle(w, j, n)
  <1>1. Become(w2) /\ EndsOn(w, j, n)
    BY DEF job_epilog_complete, Tables, EndsOn
  <1>2. Good(w) /\ w \in TablesType
    BY DEF Good
  <1> HIDE DEF w
  <1>3. Idled(w, w2, j, n)
    BY <1>2, IdleFacts
  <1> HIDE DEF w2
  <1>4. Sound(w2)
    BY <1>1, <1>2, <1>3, SoundIdle DEF Good
  <1>5. /\ w2 \in TablesType /\ SameList(w, w2)
        /\ \A k \in Jobs : w2.job[k].state = w.job[k].state /\ w2.job[k].cg \subseteq w.job[k].cg
    BY <1>3 DEF Idled, OnlyJob, IdleRec, SameList
  <1>6. Together(w2)
    BY <1>2, <1>5, TogetherLater DEF Good, Later
  <1>7. "ENDED" \notin {"PENDING", "RUNNING"}
    BY SMT
  <1>8. StepOK(w, w2)
    BY <1>4, <1>5, <1>6, <1>7 DEF StepOK, Good
  <1> QED
    BY <1>1, <1>8 DEF w

\* purge_old_job.
LEMMA PurgeOK ==
  ASSUME Good(Tables), NEW old, purge_old_job(old)
  PROVE  \E w : Become(w) /\ StepOK(Tables, w)
  <1> DEFINE w == IF job[Leader].state = "PENDING" THEN RefreshList(Tables) ELSE Tables
             bad == {m \in MemberSet : Invalid(w, m, old)}
             gone == {j \in old : job[j].state = "ENDED" /\ ~ job[j].completing}
             g == [j \in Jobs |->
                     IF j \in bad THEN [w.job[j] EXCEPT !.state = "ENDED", !.leader = NoJob]
                     ELSE IF j \in gone THEN [w.job[j] EXCEPT !.state = "purged"]
                     ELSE w.job[j]]
             w2 == [w EXCEPT !.job = g]
  <1>0. "ENDED" \in States /\ "purged" \in States /\ "purged" # "RUNNING" /\ "ENDED" # "RUNNING"
        /\ "ENDED" # "PENDING" /\ "purged" # "PENDING"
    BY SMT DEF States
  <1>1. Become(w2)
    BY DEF purge_old_job
  <1>2. Good(w) /\ w.job = job
    <2>1. Tables.job = job
      BY DEF Tables
    <2> QED
      BY <2>1, RefreshGood
  <1> HIDE DEF w
  <1>3. /\ \A j \in bad : w.job[j].state = "PENDING"
        /\ \A j \in gone : w.job[j].state = "ENDED" /\ ~ w.job[j].completing
    BY <1>2 DEF Invalid
  <1>4. w \in TablesType
    BY <1>2 DEF Good
  <1> HIDE DEF bad, gone
  <1>5. ASSUME NEW j \in Jobs
        PROVE  /\ g[j] \in JobRec /\ StateOnly(w.job[j], g[j])
               /\ \/ g[j].state = w.job[j].state
                  \/ w.job[j].state = "PENDING" /\ g[j].state = "ENDED"
                  \/ w.job[j].state = "ENDED" /\ ~ w.job[j].completing /\ g[j].state = "purged"
    <2> DEFINE a == [w.job[j] EXCEPT !.state = "ENDED", !.leader = NoJob]
               b == [w.job[j] EXCEPT !.state = "purged"]
    <2>1. w.job[j] \in JobRec
      BY SMT, <1>4 DEF TablesType
    <2>2. a \in JobRec /\ b \in JobRec
      BY <1>0, <2>1, RecTypes
    <2>3. StateOnly(w.job[j], a) /\ a.state = "ENDED" /\ StateOnly(w.job[j], b) /\ b.state = "purged"
      BY SMT, <2>1 DEF JobRec, StateOnly
    <2>4. g[j] = IF j \in bad THEN a ELSE IF j \in gone THEN b ELSE w.job[j]
      OBVIOUS
    <2> HIDE DEF a, b, g
    <2>5. CASE j \in bad
      BY <1>3, <2>2, <2>3, <2>4, <2>5
    <2>6. CASE j \notin bad /\ j \in gone
      BY <1>3, <2>2, <2>3, <2>4, <2>6
    <2>7. CASE j \notin bad /\ j \notin gone
      BY <2>1, <2>4, <2>7 DEF StateOnly
    <2> QED
      BY <2>5, <2>6, <2>7
  <1>6. g \in [Jobs -> JobRec]
    BY <1>5
  <1> HIDE DEF g
  <1>7. /\ w2 \in TablesType /\ w2.job = g /\ w2.list = w.list
        /\ w2.node = w.node /\ w2.twice = w.twice
    BY SMT, <1>4, <1>6 DEF TablesType
  <1> HIDE DEF w2
  <1>8. Quiet(w, w2) /\ SameList(w, w2) /\ \A j \in Jobs : Later(w.job[j].state, w2.job[j].state)
    BY <1>5, <1>7 DEF Quiet, SameList, Later
  <1>9. Good(w2)
    BY <1>2, <1>7, <1>8, QuietGood
  <1>10. StepOK(Tables, w2)
    <2>1. Tables.job = w.job
      BY <1>2 DEF Tables
    <2> QED
      BY <1>0, <1>5, <1>7, <1>9, <2>1 DEF StepOK
  <1> QED
    BY <1>1, <1>10

\* Every action of the controller.
LEMMA PackStep ==
  ASSUME Good(Tables), PackNext
  PROVE  \E w : Become(w) /\ StepOK(Tables, w)
  <1>1. \A j \in MemberSet \cup OtherSet : j \in Jobs
    BY DEF Jobs
  <1>2. CASE \E i \in DOMAIN Members : submit_member(i)
    BY <1>2, SubmitMemberOK
  <1>3. CASE \E no_alloc \in BOOLEAN : submit_leader(no_alloc)
    BY <1>3, SubmitLeaderOK
  <1>4. CASE \E j \in OtherSet, no_alloc \in BOOLEAN : submit_other(j, no_alloc)
    BY <1>4, SubmitOtherOK
  <1>5. CASE schedule_leader
    BY <1>5, ScheduleLeaderOK
  <1>6. CASE \E j \in OtherSet : schedule_other(j)
    BY <1>6, ScheduleOtherOK
  <1>7. CASE \E j \in Jobs, pack_member \in BOOLEAN : scancel(j, pack_member)
    BY <1>7, ScancelOK
  <1>8. CASE \/ \E j \in MemberSet : complete_member(j)
             \/ \E j \in OtherSet : complete_other(j)
    <2>1. \E j \in Jobs : Become(_job_complete(Tables, j))
      BY <1>1, <1>8 DEF complete_member, complete_other
    <2> QED
      BY <2>1, CompleteOK
  <1>9. CASE \E rc \in {0, 1} : complete_leader(rc)
    BY <1>9, CompleteOK
  <1>10. CASE \E j \in Jobs, n \in Nodes : job_epilog_complete(j, n)
    BY <1>10, EpilogOK
  <1>11. CASE \E late \in SUBSET {j \in Jobs : job[j].state = "RUNNING"} : job_time_limit(late)
    <2>1. \E late \in SUBSET Jobs : job_time_limit(late)
      BY <1>11
    <2> QED
      BY <2>1, CompleteOK
  <1>12. CASE \E old \in SUBSET {j \in Jobs : job[j].state \in {"PENDING", "ENDED"}} :
                purge_old_job(old)
    BY <1>12, PurgeOK
  <1> QED
    BY <1>2, <1>3, <1>4, <1>5, <1>6, <1>7, <1>8, <1>9, <1>10, <1>11, <1>12 DEF PackNext

-----------------------------------------------------------------------------
(* The inductive invariant and the theorems.                               *)

\* What every reachable state satisfies: the request is one of Asks, and between two
\* actions the tables are good.
PackInv == ask \in Asks /\ Good(Tables)

\* The record of the tables is what Become makes it.
LEMMA BecomeTables ==
  ASSUME NEW w \in TablesType, Become(w)
  PROVE  Tables' = w
  <1>1. w = [job |-> w.job, node |-> w.node, list |-> w.list, twice |-> w.twice]
    BY SMT DEF TablesType
  <1> QED
    BY <1>1 DEF Become, Tables

\* The tables start empty.
LEMMA PackInitInv == PackInit => PackInv
  <1> SUFFICES ASSUME PackInit
               PROVE  Good(Tables)
    BY DEF PackInit, PackInv
  <1> DEFINE w == Tables
  <1>1. /\ w.job = [j \in Jobs |-> NewJob] /\ w.node = [n \in Nodes |-> [run |-> 0, comp |-> 0]]
        /\ w.list = NoList /\ w.twice = {}
    BY DEF Tables, PackInit
  <1>2. w = [job |-> w.job, node |-> w.node, list |-> w.list, twice |-> w.twice]
    BY <1>1 DEF Tables
  <1>3. NewJob \in JobRec /\ NewJob.state = "none" /\ NewJob.cg = {} /\ NewJob.nodes = {} /\ ~ NewJob.completing
    BY SMT, JobIds DEF NewJob, JobRec, States
  <1>4. [run |-> 0, comp |-> 0] \in NodeRec /\ [run |-> 0, comp |-> 0].run = 0 /\ [run |-> 0, comp |-> 0].comp = 0
    BY SMT DEF NodeRec
  <1>5. NoList \in [there : BOOLEAN, deps : Deps] /\ DOMAIN NoList.deps = {}
    <2>1. [i \in {} |-> {}] \in Deps
      <3>1. [i \in {} |-> {}] \in [{} -> Dep] /\ {} \in SUBSET DOMAIN Members
        OBVIOUS
      <3> QED
        BY <3>1 DEF Deps
    <2>2. NoList \in [there : BOOLEAN, deps : Deps] /\ NoList.deps = [i \in {} |-> {}]
      BY SMT, <2>1 DEF NoList
    <2> QED
      BY <2>2
  <1> HIDE DEF w
  <1>6. \A j \in Jobs : w.job[j] = NewJob
    BY <1>1
  <1>7. \A n \in Nodes : w.node[n].run = 0 /\ w.node[n].comp = 0
    BY <1>1, <1>4
  <1>8. w \in TablesType
    <2>1. w.job \in [Jobs -> JobRec] /\ w.node \in [Nodes -> NodeRec] /\ w.twice \in SUBSET Nodes
      BY <1>1, <1>3, <1>4
    <2> HIDE DEF NoList
    <2> QED
      BY SMTT(20), <1>1, <1>2, <1>5, <2>1 DEF TablesType
  <1>9. Sound(w)
    <2>0. "none" # "RUNNING" /\ "none" # "ENDED"
      BY SMT
    <2>1. \A n \in Nodes, j \in Jobs : ~ RunsOn(w, j, n) /\ ~ EndsOn(w, j, n)
      BY <1>3, <1>6, <2>0 DEF RunsOn, EndsOn
    <2>2. \A n \in Nodes : NodeOK(w, n)
      BY <1>7, <2>1, NodeFree
    <2>3. \A j \in Jobs : JobOK(w, j)
      BY <1>3, <1>6, <2>0 DEF JobOK
    <2> QED
      BY <2>2, <2>3 DEF Sound
  <1>10. Together(w)
    <2>0. "none" # "RUNNING"
      BY SMT
    <2>1. w.job[Leader].state = "none" /\ \A m \in MemberSet : w.job[m].state = "none" /\ w.job[m].cg = {}
      BY <1>3, <1>6, MemberFacts
    <2> QED
      BY <1>1, <1>5, <2>0, <2>1 DEF Together
  <1> QED
    BY <1>8, <1>9, <1>10 DEF Good, w

\* Every step keeps the invariant.
LEMMA PackNextInv == PackInv /\ [PackNext]_pack_vars => PackInv'
  <1> SUFFICES ASSUME PackInv, [PackNext]_pack_vars
               PROVE  PackInv'
    OBVIOUS
  <1>1. CASE PackNext
    <2>1. PICK w : Become(w) /\ StepOK(Tables, w)
      BY <1>1, PackStep DEF PackInv
    <2>2. Good(w) /\ w \in TablesType
      BY <2>1 DEF StepOK, Good
    <2>3. Tables' = w
      BY <2>1, <2>2, BecomeTables
    <2>4. ask' = ask
      BY <2>1 DEF Become
    <2> QED
      BY <2>2, <2>3, <2>4 DEF PackInv
  <1>2. CASE UNCHANGED pack_vars
    <2>1. Tables' = Tables /\ ask' = ask
      BY <1>2 DEF Tables, pack_vars
    <2> QED
      BY <2>1 DEF PackInv
  <1> QED
    BY <1>1, <1>2

\* The inductive invariant holds in every reachable state of the job and node tables.
THEOREM PackInvariant == PackSpec => []PackInv
  BY PackInitInv, PackNextInv, PTL DEF PackSpec

\* Every record of the job and node tables keeps its shape; in particular node_cnt of a
\* job never wraps below zero nor grows past the number of nodes.
THEOREM PackTyped == PackSpec => []PackTypeOK
  <1>1. PackInv => PackTypeOK
    <2> SUFFICES ASSUME PackInv
                 PROVE  PackTypeOK
      OBVIOUS
    <2>1. Tables \in TablesType /\ ask \in Asks
      BY DEF PackInv, Good
    <2>2. Tables.job = job /\ Tables.node = node /\ Tables.list = list /\ Tables.twice = twice
      BY DEF Tables
    <2>3. job \in [Jobs -> JobRec] /\ node \in [Nodes -> NodeRec] /\ twice \subseteq Nodes
      BY SMT, <2>1, <2>2 DEF TablesType
    <2>4. list.there \in BOOLEAN /\ list.deps \in Deps
      BY SMT, <2>1, <2>2 DEF TablesType
    <2>5. DOMAIN list.deps \subseteq DOMAIN Members /\ list.deps \in [DOMAIN list.deps -> Dep]
      BY <2>4 DEF Deps
    <2> QED
      BY <2>1, <2>3, <2>4, <2>5 DEF PackTypeOK, JobRec, States, NodeRec, Dep
  <1> QED
    BY <1>1, PackInvariant, PTL

\* A pack starts all together or not at all: _allocate_packmbrs and select_nodes back out
\* everything on the first failure, for any number of members, jobs and nodes.
THEOREM PackStartsTogether == PackSpec => []PackTogether
  <1>1. PackInv => PackTogether
    <2>1. Tables.job = job /\ Tables.list = list
      BY DEF Tables
    <2> QED
      BY <2>1 DEF PackInv, Good, Together, Waits, PackTogether
  <1> QED
    BY <1>1, PackInvariant, PTL

\* run_job_cnt and comp_job_cnt of a node count the jobs on it, on every node that no leader's
\* time limit has taken a second time.
THEOREM PackCounts == PackSpec => []NodeCountsApart
  <1>1. ASSUME PackInv, NEW n \in Nodes \ twice
        PROVE  CountsExactOn(n)
    <2>1. Tables.job = job /\ Tables.node = node /\ Tables.twice = twice
      BY DEF Tables
    <2>2. NodeOK(Tables, n)
      BY <1>1, <2>1 DEF PackInv, Good, Sound
    <2>3. /\ \A j \in Jobs : j \in Running(n) <=> RunsOn(Tables, j, n)
          /\ \A j \in Jobs : j \in Completing(n) <=> EndsOn(Tables, j, n)
          /\ Running(n) \subseteq Jobs /\ Completing(n) \subseteq Jobs
      BY <2>1 DEF Running, Completing, RunsOn, EndsOn
    <2>4. node[n].run = Cardinality(Running(n)) /\ node[n].run \in {0, 1}
      <3>1. CASE \E j \in Jobs : RunsOn(Tables, j, n)
        <4>1. PICK j \in Jobs : RunsOn(Tables, j, n)
          BY <3>1
        <4>2. Running(n) = {j}
          BY <2>2, <2>3, <4>1 DEF NodeOK
        <4>3. node[n].run = 1
          BY <2>1, <2>2, <3>1 DEF NodeOK
        <4> QED
          BY <4>2, <4>3, FS_Singleton
      <3>2. CASE ~ \E j \in Jobs : RunsOn(Tables, j, n)
        <4>1. Running(n) = {}
          BY <2>3, <3>2
        <4>2. node[n].run = 0
          BY <2>1, <2>2, <3>2 DEF NodeOK
        <4> QED
          BY <4>1, <4>2, FS_EmptySet
      <3> QED
        BY <3>1, <3>2
    <2>5. node[n].comp = Cardinality(Completing(n))
      <3>1. CASE \E j \in Jobs : EndsOn(Tables, j, n)
        <4>1. PICK j \in Jobs : EndsOn(Tables, j, n)
          BY <3>1
        <4>2. Completing(n) = {j}
          BY <2>2, <2>3, <4>1 DEF NodeOK
        <4>3. node[n].comp = 1
          BY <2>1, <2>2, <3>1 DEF NodeOK
        <4> QED
          BY <4>2, <4>3, FS_Singleton
      <3>2. CASE ~ \E j \in Jobs : EndsOn(Tables, j, n)
        <4>1. Completing(n) = {}
          BY <2>3, <3>2
        <4>2. node[n].comp = 0
          BY <2>1, <2>2, <3>2 DEF NodeOK
        <4> QED
          BY <4>1, <4>2, FS_EmptySet
      <3> QED
        BY <3>1, <3>2
    <2>6. node[n].run <= 1
      BY SMT, <2>4
    <2> QED
      BY <2>4, <2>5, <2>6 DEF CountsExactOn
  <1>2. PackInv => NodeCountsApart
    BY <1>1 DEF NodeCountsApart
  <1> QED
    BY <1>2, PackInvariant, PTL

\* No job comes back after it has ended, except a member that the leader starts or backs out
\* (select_nodes_pack does not look at the state of a member).
THEOREM PackNoRevival == PackSpec => NoRevival
  <1> DEFINE Back(j) == job[j].state = "ENDED" /\ job'[j].state \in {"PENDING", "RUNNING"}
        => /\ j \in MemberSet
           /\ job[Leader].state = "PENDING" \/ job[Leader] # job'[Leader]
           /\ job[Leader].state \in {"none", "PENDING"}
  <1>1. ASSUME PackInv, PackNext, NEW j \in Jobs
        PROVE  Back(j)
    <2>1. PICK w : Become(w) /\ StepOK(Tables, w)
      BY <1>1, PackStep DEF PackInv
    <2>2. job' = w.job /\ Tables.job = job
      BY <2>1 DEF Become, Tables
    <2> QED
      BY <2>1, <2>2 DEF StepOK, Waits
  <1>2. PackInv /\ [PackNext]_pack_vars => [\A j \in Jobs : Back(j)]_pack_vars
    BY <1>1
  <1> QED
    BY <1>2, PackInvariant, PTL DEF PackSpec, NoRevival
=============================================================================
