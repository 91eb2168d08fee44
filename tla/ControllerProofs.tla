-------------------------- MODULE ControllerProofs --------------------------
(***************************************************************************)
(* Proofs about two parts of slurmctld: its queue of requests to nodes     *)
(* (module AgentQueue), for any number of requests, threads and messages   *)
(* by mail, and its state files (module StateFiles), for any jobs and any  *)
(* number of files.  The budget of the queue is a sum over the agents that *)
(* run; the lemmas about sums over finite sets come first.                 *)
(***************************************************************************)
EXTENDS AgentQueue, StateFiles, ListProofs

\* Zenon proves most leaves; a leaf that needs arithmetic names SMT.
USE Zenon

\* The least of a set of numbers is in it.
LEMMA MinIn ==
  ASSUME NEW S \in SUBSET Nat, S # {}
  PROVE  Min(S) \in S /\ \A k \in S : Min(S) <= k
  BY LeastNat DEF Min

LEMMA MinMaxOfTwo ==
  ASSUME NEW a \in Int, NEW b \in Int
  PROVE  /\ Min({a, b}) = IF a <= b THEN a ELSE b
         /\ Max({a, b}) = IF a >= b THEN a ELSE b
  BY SMT DEF Min, Max

-----------------------------------------------------------------------------
(* Sums over a set of requests.                                              *)

Any(s) == CHOOSE x \in s : TRUE

LEMMA AnyIn ==
  ASSUME NEW s, s # {}
  PROVE  Any(s) \in s
  BY DEF Any

\* g[s] is the sum of f over s, for the sets s of D.
SummingOn(g, D, f) ==
    g = [s \in D |-> IF s = {} THEN 0 ELSE f[Any(s)] + g[s \ {Any(s)}]]

Summing(g, S, f) == SummingOn(g, SUBSET S, f)

\* The recursion that MapThenSumSet describes has a solution.
LEMMA SumExists ==
  ASSUME NEW S, IsFiniteSet(S), NEW f
  PROVE  \E g : Summing(g, S, f)
  <1> DEFINE Upto(n) == {s \in SUBSET S : Cardinality(s) <= n}
             Bad == {n \in Nat : ~ \E g : SummingOn(g, Upto(n), f)}
  <1>1. \A s \in SUBSET S : /\ IsFiniteSet(s) /\ Cardinality(s) \in Nat
                            /\ Cardinality(s) <= Cardinality(S)
    BY FS_Subset, FS_CardinalityType
  <1>2. Bad = {}
    <2> SUFFICES ASSUME Bad # {} PROVE FALSE
      OBVIOUS
    <2>0. Bad \in SUBSET Nat
      OBVIOUS
    <2>1. PICK n \in Bad : \A k \in Bad : n <= k
      <3> HIDE DEF Bad
      <3> QED
        BY <2>0, LeastNat
    <2>2. CASE n = 0
      <3> DEFINE g == [s \in Upto(0) |-> 0]
      <3>1. \A s \in Upto(0) : s = {}
        BY SMT, <1>1, FS_EmptySet
      <3>2. SummingOn(g, Upto(0), f)
        BY <3>1 DEF SummingOn
      <3> QED
        BY <2>1, <2>2, <3>2
    <2>3. CASE n # 0
      <3>1. n - 1 \in Nat /\ n - 1 \notin Bad
        <4> HIDE DEF Bad
        <4> QED
          BY SMT, <2>0, <2>1, <2>3
      <3>2. PICK h : SummingOn(h, Upto(n - 1), f)
        BY <3>1
      <3> DEFINE g == [s \in Upto(n) |->
                         IF s = {} THEN 0 ELSE f[Any(s)] + h[s \ {Any(s)}]]
      <3>3. ASSUME NEW s \in Upto(n), s # {}
            PROVE  g[s \ {Any(s)}] = h[s \ {Any(s)}]
        <4> DEFINE t == s \ {Any(s)}
        <4>1. Any(s) \in s
          BY <3>3, AnyIn
        <4>2. Cardinality(t) = Cardinality(s) - 1
          BY <1>1, <4>1, FS_RemoveElement
        <4>3. t \in Upto(n - 1) /\ t \in Upto(n)
          BY SMT, <1>1, <4>2, <3>1
        <4>4. h[t] = IF t = {} THEN 0 ELSE f[Any(t)] + h[t \ {Any(t)}]
          <5> HIDE DEF t, Upto
          <5> QED
            BY <3>2, <4>3 DEF SummingOn
        <4>5. g[t] = IF t = {} THEN 0 ELSE f[Any(t)] + h[t \ {Any(t)}]
          <5> HIDE DEF t, Upto
          <5> QED
            BY <4>3
        <4> QED
          BY <4>4, <4>5
      <3>4. SummingOn(g, Upto(n), f)
        <4> HIDE DEF Upto
        <4> QED
          BY <3>3 DEF SummingOn
      <3> QED
        BY <2>1, <3>4
    <2> QED
      BY <2>2, <2>3
  <1>3. Upto(Cardinality(S)) = SUBSET S
    BY <1>1
  <1>4. Cardinality(S) \in Nat
    BY FS_CardinalityType
  <1>5. Cardinality(S) \notin Bad
    BY <1>2
  <1> QED
    <2>1. \E g : SummingOn(g, Upto(Cardinality(S)), f)
      BY <1>4, <1>5
    <2> HIDE DEF Upto
    <2> QED
      BY <1>3, <2>1 DEF Summing

\* The sum does not depend on the order in which the members are taken.
LEMMA SumOrder ==
  ASSUME NEW S, IsFiniteSet(S), NEW f \in [S -> Nat], NEW g, Summing(g, S, f)
  PROVE  /\ g \in [SUBSET S -> Nat]
         /\ \A T \in SUBSET S : \A y \in T : g[T] = f[y] + g[T \ {y}]
  <1> DEFINE P(T) == g[T] \in Nat /\ \A y \in T : g[T] = f[y] + g[T \ {y}]
             Bad == {n \in Nat : \E T \in SUBSET S : Cardinality(T) = n /\ ~ P(T)}
  <1>1. \A s \in SUBSET S : IsFiniteSet(s) /\ Cardinality(s) \in Nat
    BY FS_Subset, FS_CardinalityType
  <1>2. \A s \in SUBSET S : g[s] = IF s = {} THEN 0 ELSE f[Any(s)] + g[s \ {Any(s)}]
    BY DEF Summing, SummingOn
  <1>3. Bad = {}
    <2> SUFFICES ASSUME Bad # {} PROVE FALSE
      OBVIOUS
    <2>0. Bad \in SUBSET Nat
      OBVIOUS
    <2>1. PICK n \in Bad : \A k \in Bad : n <= k
      <3> HIDE DEF Bad
      <3> QED
        BY <2>0, LeastNat
    <2>2. PICK T \in SUBSET S : Cardinality(T) = n /\ ~ P(T)
      BY <2>1
    <2>3. T # {}
      <3>1. g[{}] = 0
        BY <1>2
      <3>2. P({})
        BY SMT, <3>1
      <3> QED
        BY <2>2, <3>2
    <2>4. ASSUME NEW y \in T PROVE P(T \ {y})
      <3>1. Cardinality(T \ {y}) = n - 1 /\ T \ {y} \in SUBSET S
        BY <1>1, <2>2, FS_RemoveElement
      <3>2. Cardinality(T \ {y}) \in Nat
        BY <1>1, <3>1
      <3>3. n - 1 \notin Bad
        <4> HIDE DEF Bad
        <4> QED
          BY SMT, <2>0, <2>1, <3>1, <3>2
      <3> QED
        BY <3>1, <3>2, <3>3
    <2> DEFINE z == Any(T)
    <2>5. z \in T /\ f[z] \in Nat
      BY <2>3, AnyIn
    <2>6. g[T] = f[z] + g[T \ {z}]
      BY <1>2, <2>3
    <2>7. g[T \ {z}] \in Nat
      BY <2>4, <2>5
    <2>8. ASSUME NEW y \in T PROVE g[T] = f[y] + g[T \ {y}]
      <3> HIDE DEF z
      <3>1. CASE y = z
        BY <2>6, <3>1
      <3>2. CASE y # z
        <4>1. g[T \ {z}] = f[y] + g[(T \ {z}) \ {y}]
          BY <2>4, <2>5, <3>2
        <4>2. g[T \ {y}] = f[z] + g[(T \ {y}) \ {z}]
          BY <2>4, <2>5, <3>2
        <4>3. (T \ {z}) \ {y} = (T \ {y}) \ {z}
          OBVIOUS
        <4>4. g[(T \ {y}) \ {z}] \in Nat
          <5>1. P((T \ {y}) \ {z})
            <6>1. /\ T \ {y} \in SUBSET S /\ z \in T \ {y}
                  /\ (T \ {y}) \ {z} \in SUBSET S
              BY <2>5, <3>2
            <6>2. /\ Cardinality(T \ {y}) = n - 1
                  /\ Cardinality((T \ {y}) \ {z}) = n - 1 - 1
              <7>1. Cardinality(T \ {y}) = n - 1
                BY <1>1, <2>2, FS_RemoveElement
              <7>2. Cardinality((T \ {y}) \ {z}) = Cardinality(T \ {y}) - 1
                BY ZenonT(30), <1>1, <6>1, FS_RemoveElement
              <7> QED
                BY <7>1, <7>2
            <6>3. Cardinality((T \ {y}) \ {z}) \in Nat
              BY <1>1, <6>1
            <6>4. n - 1 - 1 \notin Bad
              <7> HIDE DEF Bad
              <7> QED
                BY SMT, <2>0, <2>1, <6>2, <6>3
            <6> QED
              BY <6>1, <6>2, <6>3, <6>4
          <5> QED
            BY <5>1
        <4>5. f[y] \in Nat /\ f[z] \in Nat
          BY <2>5
        <4>6. g[T] = f[z] + (f[y] + g[(T \ {y}) \ {z}])
          BY <2>6, <4>1, <4>3
        <4>7. \A a, b, c \in Nat : a + (b + c) = b + (a + c)
          BY SMT
        <4>8. g[T] = f[y] + (f[z] + g[(T \ {y}) \ {z}])
          BY SMT, <4>4, <4>5, <4>6, <4>7
        <4> QED
          BY <4>2, <4>8
      <3> QED
        BY <3>1, <3>2
    <2>9. g[T] \in Nat
      BY SMT, <2>5, <2>6, <2>7
    <2> QED
      BY <2>2, <2>8, <2>9
  <1>4. ASSUME NEW T \in SUBSET S PROVE P(T)
    <2>1. Cardinality(T) \in Nat
      BY <1>1
    <2> QED
      BY <1>3, <2>1
  <1>5. \A T \in SUBSET S : \A y \in T : g[T] = f[y] + g[T \ {y}]
    BY <1>4
  <1>6. g \in [SUBSET S -> Nat]
    BY <1>4 DEF Summing, SummingOn
  <1> QED
    BY <1>5, <1>6

\* Two such sums agree wherever both are defined.
LEMMA SumAgree ==
  ASSUME NEW S, IsFiniteSet(S), NEW U \in SUBSET S, NEW f \in [S -> Nat],
         NEW g, Summing(g, S, f), NEW h, Summing(h, U, f)
  PROVE  h[U] = g[U]
  <1> DEFINE Bad == {n \in Nat : \E T \in SUBSET U : Cardinality(T) = n /\ h[T] # g[T]}
  <1>1. \A s \in SUBSET S : IsFiniteSet(s) /\ Cardinality(s) \in Nat
    BY FS_Subset, FS_CardinalityType
  <1>2. \A s \in SUBSET S : g[s] = IF s = {} THEN 0 ELSE f[Any(s)] + g[s \ {Any(s)}]
    BY DEF Summing, SummingOn
  <1>3. \A s \in SUBSET U : h[s] = IF s = {} THEN 0 ELSE f[Any(s)] + h[s \ {Any(s)}]
    BY DEF Summing, SummingOn
  <1>4. Bad = {}
    <2> SUFFICES ASSUME Bad # {} PROVE FALSE
      OBVIOUS
    <2>0. Bad \in SUBSET Nat
      OBVIOUS
    <2>1. PICK n \in Bad : \A k \in Bad : n <= k
      <3> HIDE DEF Bad
      <3> QED
        BY <2>0, LeastNat
    <2>2. PICK T \in SUBSET U : Cardinality(T) = n /\ h[T] # g[T]
      BY <2>1
    <2>3. T \in SUBSET S /\ T # {}
      BY <1>2, <1>3, <2>2
    <2> DEFINE t == T \ {Any(T)}
    <2>4. Any(T) \in T
      BY <2>3, AnyIn
    <2>5. t \in SUBSET S /\ t \in SUBSET U /\ Cardinality(t) = n - 1
      BY <1>1, <2>2, <2>3, <2>4, FS_RemoveElement
    <2>6. Cardinality(t) \in Nat
      BY <1>1, <2>5
    <2>7. n - 1 \notin Bad
      <3> HIDE DEF Bad, t
      <3> QED
        BY SMT, <2>0, <2>1, <2>5, <2>6
    <2>8. h[t] = g[t]
      BY <2>5, <2>6, <2>7
    <2> QED
      BY <1>2, <1>3, <2>2, <2>3, <2>8
  <1>5. Cardinality(U) \in Nat
    BY <1>1
  <1> QED
    BY <1>4, <1>5


\* The threads reserved by a set of agents.
Reserved(S) == MapThenSumSet(rpc_thread_cnt, S)

LEMMA ThreadsOfOne ==
  ASSUME NEW r \in Requests
  PROVE  /\ rpc_thread_cnt(r) \in Nat
         /\ rpc_thread_cnt(r) <= AGENT_THREAD_COUNT + 2
  BY SMT, LoadAssumption, BudgetAssumption, MinMaxOfTwo DEF rpc_thread_cnt

\* The library's sum is a solution of the recursion.
LEMMA SumFound ==
  ASSUME NEW S \in SUBSET Requests
  PROVE  \E g : /\ Summing(g, S, [r \in Requests |-> rpc_thread_cnt(r)])
                /\ Reserved(S) = g[S]
  <1> DEFINE f == [r \in Requests |-> rpc_thread_cnt(r)]
             Sol(it) == it = [s \in SUBSET S |->
                          IF s = {} THEN 0
                          ELSE rpc_thread_cnt(CHOOSE x \in s : TRUE)
                                 + it[s \ {CHOOSE x \in s : TRUE}]]
             G == CHOOSE it : Sol(it)
  <1>1. Reserved(S) = G[S]
    BY DEF Reserved, MapThenSumSet, MapThenFoldSet
  <1>2. ASSUME NEW g PROVE Summing(g, S, f) <=> Sol(g)
    <2>1. \A s \in SUBSET S : s # {} => f[Any(s)] = rpc_thread_cnt(Any(s))
      BY AnyIn
    <2>2. [s \in SUBSET S |-> IF s = {} THEN 0 ELSE f[Any(s)] + g[s \ {Any(s)}]]
            = [s \in SUBSET S |-> IF s = {} THEN 0
                                 ELSE rpc_thread_cnt(Any(s)) + g[s \ {Any(s)}]]
      <3> HIDE DEF f
      <3> QED
        BY <2>1
    <2> QED
      BY <2>2 DEF Summing, SummingOn, Any
  <1>3. \E g : Summing(g, S, f)
    <2>1. IsFiniteSet(S)
      BY LoadAssumption, FS_Subset
    <2> QED
      BY <2>1, SumExists
  <1>4. Summing(G, S, f)
    <2> HIDE DEF Sol, f
    <2>1. \E g : Sol(g)
      BY <1>2, <1>3
    <2>2. Sol(G)
      BY <2>1
    <2> QED
      BY <1>2, <2>2
  <1> QED
    BY <1>1, <1>4

\* What one more, or one less, running agent does to the reserved threads.
LEMMA ReservedStep ==
  ASSUME NEW S \in SUBSET Requests
  PROVE  /\ Reserved({}) = 0
         /\ Reserved(S) \in Nat
         /\ \A r \in Requests \ S : Reserved(S \cup {r}) = Reserved(S) + rpc_thread_cnt(r)
         /\ \A r \in S : Reserved(S \ {r}) = Reserved(S) - rpc_thread_cnt(r)
  <1>0. PICK f : f = [r \in Requests |-> rpc_thread_cnt(r)]
    OBVIOUS
  <1>1. IsFiniteSet(Requests) /\ f \in [Requests -> Nat]
    BY <1>0, LoadAssumption, ThreadsOfOne
  <1>2. PICK g : Summing(g, Requests, f)
    BY <1>1, SumExists
  <1>3. ASSUME NEW U \in SUBSET Requests PROVE Reserved(U) = g[U]
    <2>1. PICK h : Summing(h, U, f) /\ Reserved(U) = h[U]
      BY <1>0, SumFound
    <2>2. h[U] = g[U]
      BY <1>1, <1>2, <2>1, SumAgree
    <2> QED
      BY <2>1, <2>2
  <1>4. /\ g \in [SUBSET Requests -> Nat]
        /\ \A T \in SUBSET Requests : \A y \in T : g[T] = f[y] + g[T \ {y}]
    BY SMT, <1>1, <1>2, SumOrder
  <1>5. g[{}] = 0
    BY <1>2 DEF Summing, SummingOn
  <1>6. ASSUME NEW r \in Requests \ S
        PROVE  Reserved(S \cup {r}) = Reserved(S) + rpc_thread_cnt(r)
    <2>1. S \cup {r} \in SUBSET Requests /\ r \in S \cup {r} /\ (S \cup {r}) \ {r} = S
      OBVIOUS
    <2>2. g[S \cup {r}] = rpc_thread_cnt(r) + g[S]
      <3>1. PICK T : T = S \cup {r}
        OBVIOUS
      <3>2. T \in SUBSET Requests /\ r \in T /\ T \ {r} = S
        BY <2>1, <3>1
      <3>3. g[T] = f[r] + g[T \ {r}]
        BY <1>4, <3>2
      <3> QED
        BY <1>0, <3>1, <3>2, <3>3
    <2> QED
      BY SMT, <1>3, <1>4, <2>1, <2>2, ThreadsOfOne
  <1>7. ASSUME NEW r \in S
        PROVE  Reserved(S \ {r}) = Reserved(S) - rpc_thread_cnt(r)
    <2>1. g[S] = rpc_thread_cnt(r) + g[S \ {r}] /\ g[S \ {r}] \in Nat
      BY <1>0, <1>4
    <2> QED
      BY SMT, <1>3, <2>1, ThreadsOfOne
  <1> QED
    BY <1>3, <1>4, <1>5, <1>6, <1>7

-----------------------------------------------------------------------------
(* retry_list: what a scan, a removal and a pass of _agent_retry leave.       *)

Entry == [id : Requests, age : Age]
Ids(l) == {l[i].id : i \in DOMAIN l}
Once(l) == \A i, j \in DOMAIN l : l[i].id = l[j].id => i = j

LEMMA KeptEntries ==
  ASSUME NEW l \in Seq(Entry), Once(l), NEW I \in SUBSET DOMAIN l
  PROVE  /\ Kept(l, I) \in Seq(Entry) /\ Once(Kept(l, I))
         /\ Ids(Kept(l, I)) = {l[i].id : i \in I}
  <1> DEFINE n == Cardinality(I)
             k == Kept(l, I)
  <1>1. n \in Nat
    BY KeptShape
  <1>0. PICK f : KeepMap(f, l, I)
    BY KeptShape
  <1>2. /\ f \in [1..n -> I]
        /\ \A a, b \in 1..n : a < b => f[a] < f[b]
        /\ \A i \in I : \E a \in 1..n : f[a] = i
        /\ k = [a \in 1..n |-> l[f[a]]]
    BY <1>0 DEF KeepMap
  <1> HIDE DEF n, k
  <1>3. \A a \in 1..n : f[a] \in DOMAIN l /\ f[a] \in I /\ l[f[a]] \in Entry
    BY SMT, <1>2
  <1>4. k \in Seq(Entry) /\ DOMAIN k = 1..n
    BY SMT, <1>1, <1>2, <1>3
  <1>5. ASSUME NEW a \in 1..n, NEW b \in 1..n, k[a].id = k[b].id
        PROVE  a = b
    <2>1. l[f[a]].id = l[f[b]].id
      BY <1>2, <1>5
    <2>2. f[a] = f[b]
      BY <1>3, <2>1 DEF Once
    <2>3. ~ (f[a] < f[b]) /\ ~ (f[b] < f[a])
      BY SMT, <1>3, <2>2
    <2>4. ~ (a < b) /\ ~ (b < a)
      BY <1>2, <2>3
    <2> QED
      BY SMT, <1>1, <2>4
  <1>6. Once(k)
    BY <1>4, <1>5 DEF Once
  <1>7. Ids(k) = {l[i].id : i \in I}
    <2>1. \A a \in 1..n : k[a].id = l[f[a]].id
      BY <1>2
    <2>2. \A x : x \in Ids(k) => x \in {l[i].id : i \in I}
      BY SMT, <1>3, <1>4, <2>1 DEF Ids
    <2>3. \A x : x \in {l[i].id : i \in I} => x \in Ids(k)
      <3> SUFFICES ASSUME NEW i \in I PROVE l[i].id \in Ids(k)
        OBVIOUS
      <3>1. PICK a \in 1..n : f[a] = i
        BY <1>2
      <3> QED
        BY <1>4, <2>1, <3>1 DEF Ids
    <2> QED
      BY <2>2, <2>3
  <1> QED
    BY <1>4, <1>6, <1>7 DEF k

LEMMA DropShape ==
  ASSUME NEW l \in Seq(Entry), Once(l), NEW r
  PROVE  /\ Drop(l, r) \in Seq(Entry) /\ Once(Drop(l, r))
         /\ Ids(Drop(l, r)) = Ids(l) \ {r}
  <1> DEFINE I == {i \in DOMAIN l : l[i].id # r}
  <1>1. I \in SUBSET DOMAIN l
    OBVIOUS
  <1>2. {l[i].id : i \in I} = Ids(l) \ {r}
    BY DEF Ids
  <1>3. Drop(l, r) = Kept(l, I)
    BY DEF Drop
  <1> HIDE DEF I
  <1> QED
    BY <1>1, <1>2, <1>3, KeptEntries

LEMMA AppendShape ==
  ASSUME NEW l \in Seq(Entry), Once(l), NEW e \in Entry, e.id \notin Ids(l)
  PROVE  /\ Append(l, e) \in Seq(Entry) /\ Once(Append(l, e))
         /\ Ids(Append(l, e)) = Ids(l) \cup {e.id}
  <1> DEFINE k == Append(l, e)
  <1>1. /\ Len(l) \in Nat /\ DOMAIN l = 1..Len(l)
        /\ k \in Seq(Entry) /\ DOMAIN k = 1..(Len(l) + 1)
        /\ \A i \in DOMAIN l : k[i] = l[i]
        /\ k[Len(l) + 1] = e
    BY SMT
  <1> HIDE DEF k
  <1>2. Once(k)
    BY SMT, <1>1 DEF Once, Ids
  <1>3. Ids(k) = Ids(l) \cup {e.id}
    <2>1. \A i \in DOMAIN k : i \in DOMAIN l \/ i = Len(l) + 1
      BY SMT, <1>1
    <2>2. DOMAIN l \subseteq DOMAIN k /\ Len(l) + 1 \in DOMAIN k
      BY SMT, <1>1
    <2> QED
      BY <1>1, <2>1, <2>2 DEF Ids
  <1> QED
    BY <1>1, <1>2, <1>3 DEF k

\* A scan removes the aborted launches and nothing else.
LEMMA ScannedShape ==
  ASSUME retry_list \in Seq(Entry), Once(retry_list), NEW n, NEW ready, NEW late
  PROVE  /\ Scanned(n, ready, late) \in Seq(Entry) /\ Once(Scanned(n, ready, late))
         /\ Ids(Scanned(n, ready, late)) = Ids(retry_list) \ Aborted(n, ready, late)
         /\ Aborted(n, ready, late) \in SUBSET Ids(retry_list)
  <1> DEFINE D == DOMAIN retry_list
             m == [i \in D |-> IF Fate(i, n, ready, late) = "test later"
                                 THEN [retry_list[i] EXCEPT !.age = 1]
                                 ELSE retry_list[i]]
             I == {i \in D : Fate(i, n, ready, late) # "abort"}
  <1>1. D = 1..Len(retry_list) /\ Len(retry_list) \in Nat
    BY SMT
  <1>2. \A i \in D : retry_list[i] \in Entry
    BY SMT
  <1>3. \A i \in D : m[i] \in Entry /\ m[i].id = retry_list[i].id
    <2> SUFFICES ASSUME NEW i \in D
                 PROVE  m[i] \in Entry /\ m[i].id = retry_list[i].id
      OBVIOUS
    <2>1. \A e \in Entry : [e EXCEPT !.age = 1] \in Entry /\ [e EXCEPT !.age = 1].id = e.id
      BY SMT DEF Entry, Age
    <2>2. m[i] = retry_list[i] \/ m[i] = [retry_list[i] EXCEPT !.age = 1]
      OBVIOUS
    <2> HIDE DEF m, D
    <2> QED
      BY <1>2, <2>1, <2>2
  <1>4. m \in Seq(Entry) /\ DOMAIN m = D
    <2>1. DOMAIN m = 1..Len(retry_list)
      BY <1>1
    <2>2. m = [i \in 1..Len(retry_list) |-> m[i]]
      BY <1>1
    <2> HIDE DEF m
    <2>3. m \in [1..Len(retry_list) -> Entry]
      BY <1>1, <1>3, <2>2
    <2> QED
      BY SMT, <1>1, <2>1, <2>3
  <1>5. Once(m)
    <2> HIDE DEF m
    <2> QED
      BY <1>2, <1>3, <1>4 DEF Once
  <1>6. I \in SUBSET DOMAIN m
    BY <1>4
  <1>7. Scanned(n, ready, late) = Kept(m, I)
    BY DEF Scanned
  <1>8. {m[i].id : i \in I} = {retry_list[i].id : i \in I}
    BY <1>3
  <1>9. {retry_list[i].id : i \in I} = Ids(retry_list) \ Aborted(n, ready, late)
    BY DEF Ids, Aborted, Once
  <1>10. Aborted(n, ready, late) \in SUBSET Ids(retry_list)
    BY DEF Ids, Aborted
  <1> HIDE DEF m, I
  <1> QED
    BY <1>4, <1>5, <1>6, <1>7, <1>8, <1>9, <1>10, KeptEntries

\* What a pass does: request set R (at most one) is taken, the launches A are
\* given up, and both leave the list.
Passed(R, A) ==
    /\ R \in SUBSET Queued /\ A \in SUBSET Queued /\ R \cap A = {}
    /\ retry_list' \in Seq(Entry) /\ Once(retry_list')
    /\ Ids(retry_list') = Queued \ (R \cup A)
    /\ agent' = [q \in Requests |-> IF q \in R THEN "taken"
                                    ELSE IF q \in A THEN "done" ELSE agent[q]]
    /\ \/ R = {} /\ retrier' = Idle
       \/ R = {} /\ retrier' = [Idle EXCEPT !.pc = "mail"]
       \/ retrier' = [Idle EXCEPT !.pc = "spawn", !.req = R]

\* Min is the library's: the entry that a scan stops at is one of the list.
LEMMA TakeShape ==
  ASSUME retry_list \in Seq(Entry), Once(retry_list), NEW ready, NEW late, NEW n,
         NEW i \in DOMAIN retry_list, Fate(i, n, ready, late) # "abort",
         Take(retry_list[i].id, n, ready, late)
  PROVE  Passed({retry_list[i].id}, Aborted(n, ready, late))
  <1> DEFINE r == retry_list[i].id
             A == Aborted(n, ready, late)
             s == Scanned(n, ready, late)
  <1>1. /\ s \in Seq(Entry) /\ Once(s) /\ Ids(s) = Ids(retry_list) \ A
        /\ A \in SUBSET Ids(retry_list)
    BY ScannedShape
  <1>2. r \in Queued /\ Queued = Ids(retry_list)
    BY DEF Queued, Ids
  <1>3. r \notin A
    BY DEF Aborted, Once
  <1>4. retry_list' = Drop(s, r)
    BY DEF Take
  <1>5. /\ agent' = [q \in Requests |-> IF q \in {r} THEN "taken"
                                    ELSE IF q \in A THEN "done" ELSE agent[q]]
        /\ retrier' = [Idle EXCEPT !.pc = "spawn", !.req = {r}]
    BY DEF Take
  <1> HIDE DEF r, A, s
  <1>6. /\ retry_list' \in Seq(Entry) /\ Once(retry_list')
        /\ Ids(retry_list') = Ids(s) \ {r}
    BY <1>1, <1>4, DropShape
  <1>7. Passed({r}, A)
    BY <1>1, <1>2, <1>3, <1>5, <1>6 DEF Passed
  <1> QED
    BY <1>7 DEF r, A

LEMMA PassShape ==
  ASSUME retry_list \in Seq(Entry), Once(retry_list), NEW ready, NEW late,
         _agent_retry(ready, late), ~ TooMuchWork
  PROVE  \E R, A : Passed(R, A)
  <1> DEFINE D == DOMAIN retry_list
  <1>0. D \in SUBSET Nat /\ Len(retry_list) \in Nat /\ D = 1..Len(retry_list)
    BY SMT
  <1>1. CASE Untried(ready, late) # {}
    <2> DEFINE i == Min(Untried(ready, late))
    <2>1. Untried(ready, late) \in SUBSET D
      BY DEF Untried
    <2>2. i \in Untried(ready, late)
      BY <1>0, <1>1, <2>1, MinIn
    <2>3. i \in D /\ i \in Nat /\ _batch_launch_defer(retry_list[i], ready, late) = "go"
      BY <1>0, <2>2 DEF Untried
    <2>4. Fate(i, i, ready, late) # "abort"
      BY <2>3 DEF Fate
    <2>5. Take(retry_list[i].id, i, ready, late)
      BY <1>1 DEF _agent_retry
    <2> HIDE DEF i
    <2> QED
      BY <2>3, <2>4, <2>5, TakeShape
  <1>2. CASE Untried(ready, late) = {} /\ Aged(retrier.min_wait) # {}
    <2> DEFINE i == Min(Aged(retrier.min_wait))
    <2>1. Aged(retrier.min_wait) \in SUBSET D
      BY DEF Aged
    <2>2. i \in Aged(retrier.min_wait)
      BY <1>0, <1>2, <2>1, MinIn
    <2>3. i \in D /\ kind[retry_list[i].id] # "launch"
      BY <2>2 DEF Aged
    <2>4. _batch_launch_defer(retry_list[i], ready, late) = "go"
      BY <2>3 DEF _batch_launch_defer
    <2>5. Fate(i, Len(retry_list), ready, late) # "abort"
      BY <1>0, <2>3, <2>4 DEF Fate
    <2>6. Take(retry_list[i].id, Len(retry_list), ready, late)
      BY <1>2 DEF _agent_retry
    <2> HIDE DEF i
    <2> QED
      BY <2>3, <2>5, <2>6, TakeShape
  <1>3. CASE Untried(ready, late) = {} /\ Aged(retrier.min_wait) = {}
    <2> DEFINE A == Aborted(Len(retry_list), ready, late)
               s == Scanned(Len(retry_list), ready, late)
    <2>1. TakeNone(ready, late)
      BY <1>3 DEF _agent_retry
    <2>2. /\ s \in Seq(Entry) /\ Once(s) /\ Ids(s) = Ids(retry_list) \ A
          /\ A \in SUBSET Ids(retry_list)
      BY ScannedShape
    <2>3. Queued = Ids(retry_list)
      BY DEF Queued, Ids
    <2>4. retry_list' = s
      BY <2>1 DEF TakeNone
    <2>5. agent' = [q \in Requests |-> IF q \in {} THEN "taken"
                                    ELSE IF q \in A THEN "done" ELSE agent[q]]
      BY <2>1 DEF TakeNone
    <2>6. retrier' = Idle \/ retrier' = [Idle EXCEPT !.pc = "mail"]
      BY <2>1 DEF TakeNone
    <2> HIDE DEF A, s
    <2>7. Passed({}, A)
      BY <2>2, <2>3, <2>4, <2>5, <2>6 DEF Passed
    <2> QED
      BY <2>7
  <1> QED
    BY <1>1, <1>2, <1>3

-----------------------------------------------------------------------------
(* The invariant of AgentQueue.                                              *)

\* The bound on agents of one request has room for the agent that a queued
\* request will get, and the retry thread holds a request only to spawn for it.
Prepared ==
    /\ \A r \in Requests : /\ agent[r] = "unborn" => tries[r] = 0
                           /\ agent[r] \in {"waiting", "taken"} => tries[r] < MaxTries
    /\ retrier.pc # "spawn" => retrier.req = {}

QueueInv == TypeOK /\ OneOwner /\ BudgetExact /\ Prepared

Owned(l, ag, req) ==
    /\ Ids(l) = {r \in Requests : ag[r] = "waiting"}
    /\ Once(l)
    /\ req = {r \in Requests : ag[r] = "taken"}

LEMMA OwnedIs ==
  /\ OneOwner <=> Owned(retry_list, agent, retrier.req)
  /\ OneOwner' <=> Owned(retry_list', agent', retrier'.req)
  <1>1. OneOwner <=> Owned(retry_list, agent, retrier.req)
    BY DEF OneOwner, Owned, Queued, Ids, Once, IsInjective
  <1>2. OneOwner' <=> Owned(retry_list', agent', retrier'.req)
    BY DEF OneOwner, Owned, Queued, Ids, Once, IsInjective
  <1> QED
    BY <1>1, <1>2

LEMMA BudgetIs ==
  /\ BudgetExact <=>
       /\ agent_cnt = Cardinality(Running)
       /\ agent_thread_cnt = mail_threads + Reserved(Running)
       /\ shutdown_time = "no" => agent_thread_cnt <= MAX_SERVER_THREADS
  /\ BudgetExact' <=>
       /\ agent_cnt' = Cardinality(Running')
       /\ agent_thread_cnt' = mail_threads' + Reserved(Running')
       /\ shutdown_time' = "no" => agent_thread_cnt' <= MAX_SERVER_THREADS
  BY DEF BudgetExact, Reserved

\* The actions by what they change.
LEMMA InitQueue == Init => QueueInv
  <1> SUFFICES ASSUME Init PROVE QueueInv
    OBVIOUS
  <1>1. retry_list = << >> /\ retry_list \in Seq(Entry) /\ DOMAIN retry_list = {}
    BY SMT DEF Init
  <1>2. TypeOK
    BY SMT, <1>1, LoadAssumption DEF Init, TypeOK, Idle, WaitTime, NO_VAL16, Entry
  <1>3. OneOwner
    <2>1. Owned(retry_list, agent, retrier.req)
      BY <1>1 DEF Init, Owned, Ids, Once, Idle
    <2> QED
      BY <2>1, OwnedIs
  <1>4. BudgetExact
    <2>1. Running = {} /\ Cardinality(Running) = 0
      BY FS_EmptySet DEF Init, Running
    <2>2. Reserved(Running) = 0
      BY <2>1, ReservedStep
    <2> QED
      BY SMT, <2>1, <2>2, BudgetIs, BudgetAssumption DEF Init
  <1>5. Prepared
    BY LoadAssumption DEF Init, Prepared, Idle
  <1> QED
    BY <1>2, <1>3, <1>4, <1>5 DEF QueueInv

\* agent_trigger keeps the pending request of the retry thread well formed.
LEMMA TriggerType ==
  ASSUME TypeOK, NEW w \in WaitTime, NEW m \in {"yes", "no"}, agent_trigger(w, m)
  PROVE  pending_wait_time' \in WaitTime /\ pending_mail' \in {"yes", "no"}
  <1>1. pending_wait_time \in Int /\ w \in Int
    BY SMT DEF TypeOK, WaitTime, RPC_RETRY_INTERVAL, NO_VAL16
  <1>2. Min({pending_wait_time, w}) \in {pending_wait_time, w}
    BY <1>1, MinMaxOfTwo
  <1> QED
    BY SMT, <1>2 DEF TypeOK, agent_trigger

\* Where no agent starts or stops running and no mail thread begins or ends.
LEMMA SameBudget ==
  ASSUME BudgetExact, UNCHANGED <<agent_cnt, agent_thread_cnt, mail_threads>>,
         Running' = Running, shutdown_time' = "no" => shutdown_time = "no"
  PROVE  BudgetExact'
  BY BudgetIs

\* The callers of the queue, the jobs and the controller's shutdown.
LEMMA QuietStep ==
  ASSUME QueueInv,
         \/ background \/ mail_job_info \/ shutdown
         \/ \E r \in Requests : job_ends(r) \/ prolog_ends(r)
  PROVE  QueueInv'
  <1> USE DEF QueueInv
  <1>1. UNCHANGED <<retry_list, retrier, agent, tries, agent_cnt, agent_thread_cnt,
                    mail_threads>>
    BY DEF background, mail_job_info, shutdown, job_ends, prolog_ends, queue, budget,
           mail, world
  <1>2. OneOwner'
    BY SMT, <1>1 DEF OneOwner, Queued
  <1>3. Prepared'
    BY <1>1 DEF Prepared
  <1>4. BudgetExact'
    <2>1. Running' = Running
      BY <1>1 DEF Running
    <2>2. shutdown_time' = "no" => shutdown_time = "no"
      BY DEF background, mail_job_info, shutdown, job_ends, prolog_ends, queue, budget,
             mail, world
    <2> QED
      BY <1>1, <2>1, <2>2, SameBudget
  <1>5. TypeOK'
    <2>1. CASE background
      <3>1. pending_wait_time' \in WaitTime /\ pending_mail' \in {"yes", "no"}
        BY SMT, <2>1, TriggerType DEF background, WaitTime
      <3> QED
        BY <1>1, <2>1, <3>1 DEF TypeOK, background, mail, world
    <2>2. CASE mail_job_info
      BY SMT, <1>1, <2>2, LoadAssumption DEF TypeOK, mail_job_info, queue, world
    <2>3. CASE shutdown
      BY <1>1, <2>3 DEF TypeOK, shutdown, queue, mail
    <2>4. ASSUME NEW r \in Requests, job_ends(r) PROVE TypeOK'
      BY <1>1, <2>4 DEF TypeOK, job_ends, queue, mail
    <2>5. ASSUME NEW r \in Requests, prolog_ends(r) PROVE TypeOK'
      BY <1>1, <2>5 DEF TypeOK, prolog_ends, queue, mail
    <2> QED
      BY <2>1, <2>2, <2>3, <2>4, <2>5
  <1> QED
    BY <1>2, <1>3, <1>4, <1>5

\* agent_queue_request: the request starts waiting, or gets its agent at once.
LEMMA RequestStep ==
  ASSUME QueueInv, NEW r \in Requests, agent_queue_request(r)
  PROVE  QueueInv'
  <1> USE DEF QueueInv
  <1> DEFINE e == [id |-> r, age |-> 0]
  <1>0. /\ agent[r] = "unborn" /\ tries[r] = 0
        /\ agent \in [Requests -> {"unborn", "waiting", "taken", "starting", "sleeping",
                                   "running", "done"}]
        /\ UNCHANGED <<retrier, budget, mail, world>>
    BY SMT DEF agent_queue_request, Prepared, TypeOK
  <1>1. CASE /\ agent' = [agent EXCEPT ![r] = "starting"]
             /\ tries' = [tries EXCEPT ![r] = 1] /\ UNCHANGED queue
    <2>1. OneOwner'
      <3>1. Owned(retry_list', agent', retrier'.req)
        BY <1>0, <1>1, OwnedIs DEF Owned, queue
      <3> QED
        BY <3>1, OwnedIs
    <2>2. TypeOK'
      BY SMT, <1>0, <1>1, LoadAssumption DEF TypeOK, queue, budget, mail, world
    <2>3. Prepared'
      BY <1>0, <1>1 DEF Prepared, TypeOK
    <2>4. BudgetExact'
      BY <1>0, <1>1, SameBudget DEF Running, budget, mail, world
    <2> QED
      BY <2>1, <2>2, <2>3, <2>4
  <1>2. CASE /\ agent' = [agent EXCEPT ![r] = "waiting"]
             /\ retry_list' = Append(retry_list, e)
             /\ agent_trigger(999, "no") /\ UNCHANGED tries
    <2>0. /\ retry_list' \in Seq(Entry) /\ Once(retry_list')
          /\ Ids(retry_list') = Ids(retry_list) \cup {r}
      <3>1. retry_list \in Seq(Entry) /\ Once(retry_list) /\ r \notin Ids(retry_list)
        BY <1>0, OwnedIs DEF TypeOK, Entry, Owned
      <3>2. e \in Entry /\ e.id = r
        BY SMT DEF Entry, Age
      <3> HIDE DEF e
      <3> QED
        BY SMT, <1>2, <3>1, <3>2, AppendShape
    <2>1. OneOwner'
      <3>1. Owned(retry_list', agent', retrier'.req)
        BY SMT, <1>0, <1>2, <2>0, OwnedIs DEF Owned
      <3> QED
        BY <3>1, OwnedIs
    <2>2. TypeOK'
      <3>1. pending_wait_time' \in WaitTime /\ pending_mail' \in {"yes", "no"}
        BY SMT, <1>2, TriggerType DEF WaitTime
      <3> QED
        BY SMT, <1>0, <1>2, <2>0, <3>1 DEF TypeOK, budget, mail, world, Entry
    <2>3. Prepared'
      BY SMT, <1>0, <1>2, LoadAssumption DEF Prepared, TypeOK
    <2>4. BudgetExact'
      BY SMT, <1>0, <1>2, SameBudget DEF Running, budget, mail, world
    <2> QED
      BY <2>1, <2>2, <2>3, <2>4
  <1> QED
    BY SMT, <1>1, <1>2 DEF agent_queue_request

\* _agent_init starts a pass, or exits.
LEMMA InitPassStep ==
  ASSUME QueueInv, _agent_init
  PROVE  QueueInv'
  <1> USE DEF QueueInv
  <1>1. /\ retrier.req = {} /\ retrier'.req = {} /\ retrier'.pc # "spawn"
        /\ UNCHANGED <<retry_list, agent, tries, budget, mail, world>>
    BY SMT DEF _agent_init, Prepared, Idle
  <1>2. OneOwner'
    BY <1>1, OwnedIs DEF Owned
  <1>3. TypeOK'
    BY SMT DEF TypeOK, _agent_init, Idle, WaitTime, budget, mail, world
  <1>4. Prepared'
    BY <1>1 DEF Prepared
  <1>5. BudgetExact'
    BY <1>1, SameBudget DEF Running, budget, mail, world
  <1> QED
    BY <1>2, <1>3, <1>4, <1>5

\* A pass of _agent_retry moves requests out of the list and changes no thread.
LEMMA PassStep ==
  ASSUME QueueInv, NEW ready, NEW late, _agent_retry(ready, late)
  PROVE  QueueInv'
  <1> USE DEF QueueInv
  <1>0. /\ retrier.pc = "pass" /\ retrier.req = {}
        /\ UNCHANGED <<pending_wait_time, pending_mail, tries, budget, mail, world>>
    BY DEF _agent_retry, Prepared
  <1>1. /\ retry_list \in Seq(Entry) /\ Once(retry_list) /\ Queued = Ids(retry_list)
        /\ \A q \in Requests : q \in Queued <=> agent[q] = "waiting"
        /\ Queued \in SUBSET Requests
    BY OwnedIs DEF TypeOK, Entry, Owned, Queued, Ids
  <1>2. CASE TooMuchWork
    <2>1. retrier' = Idle /\ UNCHANGED <<retry_list, agent>>
      BY <1>2 DEF _agent_retry
    <2>2. OneOwner'
      BY <1>0, <2>1, OwnedIs DEF Owned, Idle
    <2>3. TypeOK'
      BY SMT, <1>0, <2>1 DEF TypeOK, Idle, WaitTime, budget, mail, world
    <2>4. Prepared'
      BY <1>0, <2>1 DEF Prepared, Idle
    <2>5. BudgetExact'
      BY <1>0, <2>1, SameBudget DEF Running, budget, mail, world
    <2> QED
      BY <2>2, <2>3, <2>4, <2>5
  <1>3. CASE ~ TooMuchWork
    <2>1. PICK R, A : Passed(R, A)
      BY <1>1, <1>3, PassShape
    <2>2. /\ R \in SUBSET Queued /\ A \in SUBSET Queued /\ R \cap A = {}
          /\ retry_list' \in Seq(Entry) /\ Once(retry_list')
          /\ Ids(retry_list') = Queued \ (R \cup A)
          /\ agent' = [q \in Requests |-> IF q \in R THEN "taken"
                                          ELSE IF q \in A THEN "done" ELSE agent[q]]
      BY <2>1 DEF Passed
    <2>3. /\ retrier'.req = R /\ (retrier'.pc # "spawn" => R = {})
          /\ retrier' \in [pc : {"idle", "pass", "spawn", "mail", "exit"},
                           min_wait : WaitTime, mail_too : {"yes", "no"},
                           req : SUBSET Requests]
      <3>1. R \in SUBSET Requests
        BY <1>1, <2>2
      <3>2. CASE R = {} /\ retrier' = Idle
        BY SMT, <3>2 DEF Idle, WaitTime
      <3>3. CASE R = {} /\ retrier' = [Idle EXCEPT !.pc = "mail"]
        BY SMT, <3>3 DEF Idle, WaitTime
      <3>4. CASE retrier' = [Idle EXCEPT !.pc = "spawn", !.req = R]
        <4>1. retrier' = [pc |-> "spawn", min_wait |-> NO_VAL16, mail_too |-> "no",
                          req |-> R]
          BY <3>4 DEF Idle
        <4> QED
          BY SMT, <3>1, <4>1 DEF WaitTime
      <3> QED
        BY <2>1, <3>2, <3>3, <3>4 DEF Passed
    <2>4. \A q \in Requests : ~ (agent[q] = "taken")
      BY <1>0, OwnedIs DEF Owned
    <2>5. OneOwner'
      <3>1. Ids(retry_list') = {q \in Requests : agent'[q] = "waiting"}
        BY <1>1, <2>2
      <3>2. R = {q \in Requests : agent'[q] = "taken"}
        BY <1>1, <2>2, <2>4
      <3> QED
        BY <2>2, <2>3, <3>1, <3>2, OwnedIs DEF Owned
    <2>6. TypeOK'
      BY <1>0, <1>1, <2>2, <2>3 DEF TypeOK, budget, mail, world, Entry
    <2>7. Prepared'
      BY <1>0, <1>1, <2>2, <2>3 DEF Prepared
    <2>8. BudgetExact'
      <3>1. Running' = Running
        BY <1>1, <2>2 DEF Running
      <3> QED
        BY <1>0, <3>1, SameBudget DEF budget, mail, world
    <2> QED
      BY <2>5, <2>6, <2>7, <2>8
  <1> QED
    BY <1>2, <1>3

\* _spawn_retry_agent gives the taken request its agent.
LEMMA SpawnStep ==
  ASSUME QueueInv, _spawn_retry_agent
  PROVE  QueueInv'
  <1> USE DEF QueueInv
  <1>1. /\ retrier' = Idle
        /\ agent' = [r \in Requests |-> IF r \in retrier.req THEN "starting" ELSE agent[r]]
        /\ tries' = [r \in Requests |-> IF r \in retrier.req THEN tries[r] + 1 ELSE tries[r]]
        /\ UNCHANGED <<queue, budget, mail, world>>
    BY DEF _spawn_retry_agent
  <1>2. \A r \in Requests : r \in retrier.req <=> agent[r] = "taken"
    BY OwnedIs DEF Owned
  <1>3. OneOwner'
    <2>1. Owned(retry_list', agent', retrier'.req)
      BY <1>1, <1>2, OwnedIs DEF Owned, queue, Idle
    <2> QED
      BY <2>1, OwnedIs
  <1>4. TypeOK'
    <2>1. tries' \in [Requests -> 0..MaxTries]
      BY SMT, <1>1, <1>2, LoadAssumption DEF Prepared, TypeOK
    <2> QED
      BY SMT, <1>1, <2>1 DEF TypeOK, Idle, WaitTime, queue, budget, mail, world
  <1>5. Prepared'
    BY <1>1, <1>2 DEF Prepared, Idle
  <1>6. BudgetExact'
    <2>1. Running' = Running
      BY <1>1, <1>2 DEF Running
    <2> QED
      BY <1>1, <2>1, SameBudget DEF budget, mail, world
  <1> QED
    BY <1>3, <1>4, <1>5, <1>6

LEMMA RunningFinite ==
  ASSUME NEW S \in SUBSET Requests
  PROVE  /\ IsFiniteSet(S) /\ Cardinality(S) \in Nat
         /\ \A r \in Requests \ S : Cardinality(S \cup {r}) = Cardinality(S) + 1
         /\ \A r \in S : Cardinality(S \ {r}) = Cardinality(S) - 1
  BY LoadAssumption, FS_Subset, FS_CardinalityType, FS_AddElement, FS_RemoveElement

\* Mail threads count in the budget and never go beyond what is left of it.
LEMMA MailStep ==
  ASSUME QueueInv, send_mail
  PROVE  QueueInv'
  <1> USE DEF QueueInv
  <1> DEFINE n == Min({mail_list, Max({0, MAX_SERVER_THREADS - agent_thread_cnt})})
  <1>1. /\ retrier.pc = "mail" /\ retrier.req = {} /\ retrier' = Idle
        /\ mail_list' = mail_list - n /\ mail_threads' = mail_threads + n
        /\ agent_thread_cnt' = agent_thread_cnt + n
        /\ UNCHANGED <<queue, agent, tries, agent_cnt, world>>
    BY DEF send_mail, Prepared
  <1>2. /\ mail_list \in Nat /\ mail_threads \in Nat /\ agent_thread_cnt \in Nat
        /\ MAX_SERVER_THREADS \in Nat
    BY BudgetAssumption DEF TypeOK
  <1>3. /\ n \in Nat /\ n <= mail_list
        /\ agent_thread_cnt <= MAX_SERVER_THREADS =>
             agent_thread_cnt + n <= MAX_SERVER_THREADS
    <2> DEFINE d == MAX_SERVER_THREADS - agent_thread_cnt
               m == Max({0, d})
    <2>0. d \in Int /\ (agent_thread_cnt <= MAX_SERVER_THREADS => d >= 0)
      BY SMT, <1>2
    <2>1. /\ m \in Nat
          /\ agent_thread_cnt <= MAX_SERVER_THREADS =>
               m = MAX_SERVER_THREADS - agent_thread_cnt
      <3>1. m = IF 0 >= d THEN 0 ELSE d
        <4> HIDE DEF d
        <4> QED
          BY SMT, <2>0, MinMaxOfTwo
      <3> QED
        BY SMT, <1>2, <2>0, <3>1
    <2>2. n = IF mail_list <= m THEN mail_list ELSE m
      BY SMT, <1>2, <2>1, MinMaxOfTwo
    <2> HIDE DEF n, m
    <2> QED
      BY SMT, <1>2, <2>1, <2>2
  <1> HIDE DEF n
  <1>4. OneOwner'
    BY <1>1, OwnedIs DEF Owned, Idle, queue
  <1>5. TypeOK'
    BY SMT, <1>1, <1>2, <1>3, LoadAssumption DEF TypeOK, Idle, WaitTime, queue, world
  <1>6. Prepared'
    BY <1>1 DEF Prepared, Idle
  <1>7. BudgetExact'
    <2>1. Running' = Running /\ Reserved(Running) \in Nat
      BY <1>1, ReservedStep DEF Running
    <2> QED
      BY SMT, <1>1, <1>2, <1>3, <2>1, BudgetIs DEF world
  <1> QED
    BY <1>4, <1>5, <1>6, <1>7

LEMMA MailEndStep ==
  ASSUME QueueInv, _mail_proc
  PROVE  QueueInv'
  <1> USE DEF QueueInv
  <1>1. /\ mail_threads > 0 /\ mail_threads' = mail_threads - 1
        /\ agent_thread_cnt' = agent_thread_cnt - 1
        /\ UNCHANGED <<queue, retrier, agent, tries, agent_cnt, mail_list, world>>
    BY DEF _mail_proc
  <1>2. Running' = Running /\ Reserved(Running) \in Nat
    BY <1>1, ReservedStep DEF Running
  <1>3. mail_threads \in Nat /\ agent_thread_cnt \in Nat /\ MAX_SERVER_THREADS \in Nat
    BY BudgetAssumption DEF TypeOK
  <1>4. agent_thread_cnt > 0 /\ BudgetExact'
    BY SMT, <1>1, <1>2, <1>3, BudgetIs DEF world
  <1>5. TypeOK'
    BY SMTT(20), <1>1, <1>3, <1>4, LoadAssumption DEF TypeOK, queue, world
  <1>6. OneOwner'
    BY SMT, <1>1 DEF OneOwner, Queued, queue
  <1>7. Prepared'
    BY <1>1 DEF Prepared
  <1> QED
    BY <1>4, <1>5, <1>6, <1>7

\* The agent reserves its threads if they fit, or if the controller shuts down.
LEMMA BeginStep ==
  ASSUME QueueInv, NEW r \in Requests, agent_begin(r)
  PROVE  QueueInv'
  <1> USE DEF QueueInv
  <1>1. /\ agent[r] = "starting" /\ UNCHANGED <<queue, retrier, tries, mail, world>>
        /\ agent \in [Requests -> {"unborn", "waiting", "taken", "starting", "sleeping",
                                   "running", "done"}]
    BY DEF agent_begin, TypeOK
  <1>2. PICK w \in {"running", "sleeping"} : agent' = [agent EXCEPT ![r] = w]
    BY DEF agent_begin
  <1>3. OneOwner'
    <2>1. Owned(retry_list', agent', retrier'.req)
      BY <1>1, <1>2, OwnedIs DEF Owned, queue
    <2> QED
      BY <2>1, OwnedIs
  <1>4. Prepared'
    BY <1>1, <1>2 DEF Prepared
  <1>5. /\ agent_thread_cnt \in Nat /\ agent_cnt \in Nat /\ MAX_SERVER_THREADS \in Nat
        /\ rpc_thread_cnt(r) \in Nat /\ mail_threads \in Nat
        /\ Reserved(Running) \in Nat /\ Running \in SUBSET Requests
    BY BudgetAssumption, ThreadsOfOne, ReservedStep DEF TypeOK, Running
  <1>6. CASE shutdown_time = "yes" \/ HasRoom(r)
    <2>1. /\ agent' = [agent EXCEPT ![r] = "running"]
          /\ agent_cnt' = agent_cnt + 1
          /\ agent_thread_cnt' = agent_thread_cnt + rpc_thread_cnt(r)
      BY <1>6 DEF agent_begin
    <2>2. TypeOK'
      BY SMT, <1>1, <1>2, <1>5, <2>1 DEF TypeOK, queue, mail, world
    <2>3. Running' = Running \cup {r} /\ r \in Requests \ Running
      BY <1>1, <2>1 DEF Running
    <2>4. /\ Reserved(Running') = Reserved(Running) + rpc_thread_cnt(r)
          /\ Cardinality(Running') = Cardinality(Running) + 1
      BY <1>5, <2>3, ReservedStep, RunningFinite
    <2>5. BudgetExact'
      <3>1. agent_thread_cnt' = mail_threads' + Reserved(Running')
        BY SMT, <1>1, <1>5, <2>1, <2>4, BudgetIs DEF mail
      <3>2. agent_cnt' = Cardinality(Running')
        BY <2>1, <2>4, BudgetIs
      <3>3. shutdown_time' = "no" => agent_thread_cnt' <= MAX_SERVER_THREADS
        BY <1>1, <1>6, <2>1 DEF HasRoom, world
      <3> QED
        BY <3>1, <3>2, <3>3, BudgetIs
    <2> QED
      BY <1>3, <1>4, <2>2, <2>5
  <1>7. CASE ~ (shutdown_time = "yes" \/ HasRoom(r))
    <2>1. agent' = [agent EXCEPT ![r] = "sleeping"] /\ UNCHANGED budget
      BY <1>7 DEF agent_begin
    <2>2. TypeOK'
      BY <1>1, <2>1 DEF TypeOK, queue, mail, world, budget
    <2>3. BudgetExact'
      BY <1>1, <2>1, SameBudget DEF Running, budget, mail, world
    <2> QED
      BY <1>3, <1>4, <2>2, <2>3
  <1> QED
    BY <1>6, <1>7

\* The agent gives back what it reserved; its request may go back to the list.
LEMMA EndStep ==
  ASSUME QueueInv, NEW r \in Requests, NEW again \in {"yes", "no"}, agent_end(r, again)
  PROVE  QueueInv'
  <1> USE DEF QueueInv
  <1> DEFINE w == IF again = "yes" THEN "waiting" ELSE "done"
             e == [id |-> r, age |-> 1]
  <1>1. /\ agent[r] = "running"
        /\ again = "yes" => tries[r] < MaxTries
        /\ retry_list' = IF again = "yes" THEN Append(retry_list, e) ELSE retry_list
        /\ agent_cnt' = agent_cnt - 1
        /\ agent_thread_cnt' = agent_thread_cnt - rpc_thread_cnt(r)
        /\ UNCHANGED <<retrier, tries, mail, world>>
    BY DEF agent_end
  <1>2. agent \in [Requests -> {"unborn", "waiting", "taken", "starting", "sleeping",
                                "running", "done"}]
    BY DEF TypeOK
  <1>3. agent' = [q \in Requests |-> IF q = r THEN w
                    ELSE IF agent[q] = "sleeping" THEN "starting" ELSE agent[q]]
    <2>1. agent' = Woken([agent EXCEPT ![r] = w])
      BY DEF agent_end
    <2> QED
      BY <1>2, <2>1 DEF Woken
  <1>4. /\ retry_list' \in Seq(Entry) /\ Once(retry_list')
        /\ Ids(retry_list') = IF again = "yes" THEN Ids(retry_list) \cup {r}
                                ELSE Ids(retry_list)
    <2>1. retry_list \in Seq(Entry) /\ Once(retry_list) /\ r \notin Ids(retry_list)
      BY <1>1, OwnedIs DEF TypeOK, Entry, Owned
    <2>2. e \in Entry /\ e.id = r
      BY SMT DEF Entry, Age
    <2> HIDE DEF e
    <2> QED
      BY <1>1, <2>1, <2>2, AppendShape
  <1>5. OneOwner'
    <2>1. Ids(retry_list') = {q \in Requests : agent'[q] = "waiting"}
      BY <1>1, <1>3, <1>4, OwnedIs DEF Owned
    <2>2. retrier'.req = {q \in Requests : agent'[q] = "taken"}
      BY <1>1, <1>3, OwnedIs DEF Owned
    <2> QED
      BY <1>4, <2>1, <2>2, OwnedIs DEF Owned
  <1>6. /\ agent_thread_cnt \in Nat /\ agent_cnt \in Nat /\ MAX_SERVER_THREADS \in Nat
        /\ rpc_thread_cnt(r) \in Nat /\ mail_threads \in Nat
        /\ Running \in SUBSET Requests /\ r \in Running
    BY <1>1, BudgetAssumption, ThreadsOfOne DEF TypeOK, Running
  <1>7. Running' = Running \ {r}
    BY <1>3 DEF Running
  <1>8. /\ Reserved(Running') = Reserved(Running) - rpc_thread_cnt(r)
        /\ Reserved(Running') \in Nat /\ Reserved(Running) \in Nat
        /\ Cardinality(Running') = Cardinality(Running) - 1
        /\ Cardinality(Running') \in Nat
    <2>1. Running \ {r} \in SUBSET Requests
      BY <1>6
    <2> QED
      BY <1>6, <1>7, <2>1, ReservedStep, RunningFinite
  <1>9. /\ agent_thread_cnt' = mail_threads + Reserved(Running')
        /\ agent_thread_cnt' <= agent_thread_cnt
        /\ agent_cnt' = Cardinality(Running')
    <2>1. /\ agent_thread_cnt = mail_threads + Reserved(Running)
          /\ agent_cnt = Cardinality(Running)
      BY BudgetIs
    <2>2. /\ agent_thread_cnt' = agent_thread_cnt - rpc_thread_cnt(r)
          /\ agent_cnt' = agent_cnt - 1
      BY <1>1
    <2> QED
      BY SMT, <1>6, <1>8, <2>1, <2>2
  <1>10. BudgetExact'
    <2>1. shutdown_time' = "no" => agent_thread_cnt' <= MAX_SERVER_THREADS
      BY SMT, <1>1, <1>6, <1>8, <1>9, BudgetIs DEF world
    <2> QED
      BY <1>1, <1>9, <2>1, BudgetIs DEF mail
  <1>11. TypeOK'
    <2>1. pending_wait_time' \in WaitTime /\ pending_mail' \in {"yes", "no"}
      <3>1. \/ agent_trigger(RPC_RETRY_INTERVAL, "yes")
            \/ UNCHANGED <<pending_wait_time, pending_mail>>
        BY DEF agent_end
      <3>2. RPC_RETRY_INTERVAL \in WaitTime
        BY SMT DEF WaitTime
      <3> QED
        BY <3>1, <3>2, TriggerType DEF TypeOK
    <2>2. agent_cnt' \in Nat /\ agent_thread_cnt' \in Nat
      BY SMT, <1>6, <1>8, <1>9
    <2>3. agent' \in [Requests -> {"unborn", "waiting", "taken", "starting", "sleeping",
                                   "running", "done"}]
      BY <1>2, <1>3
    <2> QED
      BY <1>1, <1>4, <2>1, <2>2, <2>3 DEF TypeOK, mail, world, Entry
  <1>12. Prepared'
    BY <1>1, <1>3 DEF Prepared
  <1> QED
    BY <1>5, <1>10, <1>11, <1>12

LEMMA PurgeStep ==
  ASSUME QueueInv, agent_purge
  PROVE  QueueInv'
  <1> USE DEF QueueInv
  <1>1. /\ retry_list' = << >> /\ mail_list' = 0
        /\ agent' = [r \in Requests |-> IF r \in Queued THEN "done" ELSE agent[r]]
        /\ UNCHANGED <<pending_wait_time, pending_mail, retrier, tries, budget,
                       mail_threads, world>>
    BY DEF agent_purge
  <1>2. \A r \in Requests : r \in Queued <=> agent[r] = "waiting"
    BY DEF OneOwner
  <1>3. retry_list' \in Seq(Entry) /\ Once(retry_list') /\ Ids(retry_list') = {}
    <2>1. << >> \in Seq(Entry) /\ DOMAIN << >> = {}
      BY SMT
    <2>2. Once(<< >>) /\ Ids(<< >>) = {}
      BY <2>1 DEF Once, Ids
    <2> QED
      BY <1>1, <2>1, <2>2
  <1>4. OneOwner'
    <2>1. Owned(retry_list', agent', retrier'.req)
      BY <1>1, <1>2, <1>3, OwnedIs DEF Owned
    <2> QED
      BY <2>1, OwnedIs
  <1>5. TypeOK'
    BY SMT, <1>1, <1>3, LoadAssumption DEF TypeOK, Entry, budget, world
  <1>6. Prepared'
    BY <1>1 DEF Prepared
  <1>7. BudgetExact'
    <2>1. Running' = Running
      BY <1>1, <1>2 DEF Running
    <2> QED
      BY <1>1, <2>1, SameBudget DEF budget, world
  <1> QED
    BY <1>4, <1>5, <1>6, <1>7

LEMMA TimeStep ==
  ASSUME QueueInv, NEW r \in Requests, time_passes(r)
  PROVE  QueueInv'
  <1> USE DEF QueueInv
  <1>1. UNCHANGED <<pending_wait_time, pending_mail, retrier, agent, tries, budget,
                    mail, world>>
    BY DEF time_passes
  <1>2. PICK i \in DOMAIN retry_list :
               /\ retry_list[i].id = r /\ retry_list[i].age \in 1..3
               /\ retry_list' = [retry_list EXCEPT ![i].age = @ + 1]
    BY DEF time_passes
  <1>3. retry_list \in Seq(Entry) /\ Once(retry_list)
    BY OwnedIs DEF TypeOK, Entry, Owned
  <1> DEFINE e == [retry_list[i] EXCEPT !.age = @ + 1]
  <1>4. e \in Entry /\ e.id = retry_list[i].id
    <2>1. retry_list[i] \in Entry /\ retry_list[i].age \in 1..3
      BY SMT, <1>2, <1>3
    <2>2. \A x \in Entry : x.age \in 1..3 =>
             /\ [x EXCEPT !.age = @ + 1] \in Entry
             /\ [x EXCEPT !.age = @ + 1].id = x.id
      BY SMT DEF Entry, Age
    <2> QED
      BY <2>1, <2>2
  <1>5. retry_list' = [retry_list EXCEPT ![i] = e]
    BY <1>2
  <1> HIDE DEF e
  <1>6. /\ retry_list' \in Seq(Entry) /\ DOMAIN retry_list' = DOMAIN retry_list
        /\ \A j \in DOMAIN retry_list : retry_list'[j].id = retry_list[j].id
    BY SMT, <1>3, <1>4, <1>5
  <1>7. Once(retry_list') /\ Ids(retry_list') = Ids(retry_list)
    BY SMT, <1>3, <1>6 DEF Once, Ids
  <1>8. OneOwner'
    BY <1>1, <1>7, OwnedIs DEF Owned
  <1>9. TypeOK'
    BY <1>1, <1>6 DEF TypeOK, Entry, budget, mail, world
  <1>10. Prepared'
    BY <1>1 DEF Prepared
  <1>11. BudgetExact'
    BY <1>1, SameBudget DEF Running, budget, mail, world
  <1> QED
    BY <1>8, <1>9, <1>10, <1>11

LEMMA NextQueue == QueueInv /\ [Next]_vars => QueueInv'
  <1> SUFFICES ASSUME QueueInv, [Next]_vars PROVE QueueInv'
    OBVIOUS
  <1>1. CASE background \/ mail_job_info \/ shutdown
    BY <1>1, QuietStep
  <1>2. ASSUME NEW r \in Requests, job_ends(r) \/ prolog_ends(r) PROVE QueueInv'
    BY <1>2, QuietStep
  <1>3. ASSUME NEW r \in Requests, agent_queue_request(r) PROVE QueueInv'
    BY <1>3, RequestStep
  <1>4. CASE _agent_init
    BY <1>4, InitPassStep
  <1>5. ASSUME NEW ready, NEW late, _agent_retry(ready, late) PROVE QueueInv'
    BY <1>5, PassStep
  <1>6. CASE _spawn_retry_agent
    BY <1>6, SpawnStep
  <1>7. CASE send_mail
    BY <1>7, MailStep
  <1>8. CASE _mail_proc
    BY <1>8, MailEndStep
  <1>9. ASSUME NEW r \in Requests, agent_begin(r) PROVE QueueInv'
    BY <1>9, BeginStep
  <1>10. ASSUME NEW r \in Requests, NEW again \in {"yes", "no"}, agent_end(r, again)
         PROVE  QueueInv'
    BY <1>10, EndStep
  <1>11. CASE agent_purge
    BY <1>11, PurgeStep
  <1>12. ASSUME NEW r \in Requests, time_passes(r) PROVE QueueInv'
    BY <1>12, TimeStep
  <1>13. CASE UNCHANGED vars
    <2>1. UNCHANGED <<queue, retrier, agent, tries, budget, mail, world>>
      BY <1>13 DEF vars
    <2>2. TypeOK'
      BY <2>1 DEF QueueInv, TypeOK, queue, budget, mail, world
    <2>3. Prepared' /\ OneOwner'
      BY SMT, <2>1 DEF QueueInv, Prepared, OneOwner, Queued, queue, budget, mail, world
    <2>4. BudgetExact'
      BY <2>1, SameBudget DEF QueueInv, Running, budget, mail, world
    <2> QED
      BY <2>2, <2>3, <2>4 DEF QueueInv
  <1> QED
    BY <1>1, <1>2, <1>3, <1>4, <1>5, <1>6, <1>7, <1>8, <1>9, <1>10, <1>11, <1>12, <1>13
       DEF Next, Retrier

\* The invariant that carries the two properties of agent.c's queue below.
THEOREM QueueInvariant == Spec => []QueueInv
  <1>1. Init => QueueInv
    BY InitQueue
  <1>2. QueueInv /\ [Next]_vars => QueueInv'
    BY NextQueue
  <1> QED
    BY <1>1, <1>2, PTL DEF Spec

\* agent.c, agent_cnt and agent_thread_cnt: for any load and any budget the
\* counters are exactly what the running agents and mail threads hold, so they
\* never underflow, and they stay within MAX_SERVER_THREADS until shutdown.
THEOREM QueueBudget == Spec => []BudgetExact
  <1>1. QueueInv => BudgetExact
    BY DEF QueueInv
  <1> QED
    BY <1>1, QueueInvariant, PTL

\* agent.c, retry_list: for any number of requests, one that waits is in the list
\* exactly once, and no pass, retry, abort or purge duplicates or loses one.
THEOREM QueueOwnership == Spec => []OneOwner
  <1>1. QueueInv => OneOwner
    BY DEF QueueInv
  <1> QED
    BY <1>1, QueueInvariant, PTL

-----------------------------------------------------------------------------
(* The state files.                                                          *)

Whole(js) == [size |-> "whole", jobs |-> js]

\* The stages of a dump: what it writes and what the shuffle has done so far.
Stages ==
    /\ saver = "none" <=> mode = "down"
    /\ saver \in Writing => log_fd = name["new"] /\ log_fd # NoFile
    /\ saver \notin Writing => log_fd = NoFile
    /\ saver \in Shuffle => name["new"] # NoFile /\ disk[name["new"]] = Whole(buffer)
    /\ saver = "link_old" => name["old"] = NoFile
    /\ saver = "unlink_reg" => name["old"] = name["reg"]
    /\ saver = "link_reg" => name["reg"] = NoFile
    /\ saver = "unlink_new" => name["reg"] = name["new"]

\* x names a file with the saved state, or it is missing and nothing was saved.
Holds(x) ==
    /\ name[x] # NoFile => disk[name[x]] = Whole(saved)
    /\ name[x] = NoFile => saved = {}

\* Where the saved state is: in job_state, which no other dump writes to, or in
\* job_state.old while job_state is missing.
Files ==
    ~torn =>
      /\ ~Exposed => /\ Holds("reg")
                     /\ name["reg"] # NoFile => name["new"] # name["reg"]
                     /\ name["reg"] = NoFile => name["old"] = NoFile
      /\ saver = "link_reg" => Holds("old")

\* What is in memory and not in the files is on its way.
Pending ==
    /\ saver = "creat" \/ Dumping => buffer = job_list \/ owed \/ save_jobs
    /\ saver = "wait" /\ ~torn /\ ~failed => owed \/ save_jobs \/ job_list = saved

\* The inductive invariant of the state files.
FileInv == FilesTypeOK /\ Stages /\ Files /\ Pending
-----------------------------------------------------------------------------
\* A file with a name keeps its content.
LEMMA KeptNamed ==
  ASSUME FilesTypeOK, NEW dir \in [Name -> Inode \cup {NoFile}], NEW fd
  PROVE  /\ KeptFiles(dir, fd) \in [Inode -> Content]
         /\ \A x \in Name : dir[x] # NoFile => KeptFiles(dir, fd)[dir[x]] = disk[dir[x]]
  BY DEF FilesTypeOK, KeptFiles, Content, Empty

\* What a restart reads, unless a cut has left job_state exposed.
LEMMA LoadsSaved ==
  ASSUME FileInv, ~torn
  PROVE  /\ Loaded = {IF saver = "unlink_new" THEN buffer ELSE saved}
         /\ saved # {} \/ saver = "unlink_new" =>
              Opened # NoFile /\ disk[Opened].size = "whole"
  <1>1. CASE saver = "unlink_new"
    <2>1. name["reg"] # NoFile /\ disk[name["reg"]] = Whole(buffer)
      BY <1>1 DEF FileInv, Stages, Shuffle
    <2> QED
      BY SMT, <1>1, <2>1 DEF Opened, Loaded, Whole
  <1>2. CASE saver = "link_reg"
    <2>1. Opened = name["old"] /\ Holds("old")
      BY <1>2 DEF FileInv, Stages, Files, Opened
    <2> QED
      BY SMT, <1>2, <2>1 DEF Loaded, Whole, Holds
  <1>3. CASE ~Exposed
    <2>1. Holds("reg") /\ (name["reg"] = NoFile => name["old"] = NoFile)
      BY <1>3 DEF FileInv, Files
    <2>2. Opened = name["reg"]
      BY SMT, <2>1 DEF Opened, Whole, Holds
    <2> QED
      BY SMT, <1>3, <2>1, <2>2 DEF Loaded, Whole, Holds, Exposed
  <1> QED
    BY <1>1, <1>2, <1>3 DEF Exposed

LEMMA InitFileInv == FilesInit => FileInv
  <1> SUFFICES ASSUME FilesInit PROVE FileInv
    OBVIOUS
  <1>1. FilesTypeOK
    BY DEF FilesInit, FilesTypeOK, Saver, Content, Empty
  <1>2. Stages /\ Pending
    BY DEF FilesInit, Stages, Pending, Dumping, Writing, Shuffle
  <1>3. Files
    BY DEF FilesInit, Files, Holds, Exposed, Name
  <1> QED
    BY <1>1, <1>2, <1>3 DEF FileInv
-----------------------------------------------------------------------------
(* The daemon                                                                *)

LEMMA LoadInv ==
  ASSUME FileInv, load_all_job_state
  PROVE  FileInv'
  <1> USE DEF FileInv
  <1>0. saver = "none" /\ saver' = "wait"
    BY DEF load_all_job_state, Stages
  <1>1. FilesTypeOK'
    <2>1. \A S \in Loaded : S \in SUBSET Jobs
      BY SMT DEF Loaded, Opened, FilesTypeOK, Content, Name
    <2> QED
      BY <2>1 DEF load_all_job_state, FilesTypeOK, Saver
  <1>2. Stages'
    BY <1>0 DEF load_all_job_state, Stages, Writing, Shuffle
  <1>3. Files'
    BY <1>0 DEF load_all_job_state, Files, Holds, Exposed
  <1>4. Pending'
    <2>1. ~torn => job_list' = saved
      BY <1>0, LoadsSaved DEF load_all_job_state
    <2> QED
      BY <1>0, <2>1 DEF load_all_job_state, Pending, Dumping, Writing, Shuffle
  <1> QED
    BY <1>1, <1>2, <1>3, <1>4

LEMMA MemoryInv ==
  ASSUME FileInv, schedule_job_save \/ shutdown_state_save \/ \E j \in Jobs : Submit(j)
  PROVE  FileInv'
  <1> USE DEF FileInv
  <1>0. /\ UNCHANGED <<saver, buffer, log_fd, name, disk, saved, torn, failed>>
        /\ mode' = "down" <=> mode = "down"
    BY DEF schedule_job_save, shutdown_state_save, Submit
  <1>1. FilesTypeOK'
    BY DEF schedule_job_save, shutdown_state_save, Submit, FilesTypeOK
  <1>2. Stages' /\ Files'
    BY <1>0 DEF Stages, Files, Holds, Exposed
  <1>3. owed' \/ save_jobs' \/ (UNCHANGED job_list /\ ~owed /\ ~save_jobs)
    BY DEF schedule_job_save, shutdown_state_save, Submit, FilesTypeOK
  <1>4. Pending'
    BY <1>0, <1>3 DEF Pending, Dumping
  <1> QED
    BY <1>1, <1>2, <1>4

LEMMA CrashInv ==
  ASSUME FileInv, Crash
  PROVE  FileInv'
  <1> USE DEF FileInv
  <1>1. FilesTypeOK'
    BY KeptNamed DEF Crash, FilesTypeOK, Saver
  <1>2. Stages'
    BY DEF Crash, Stages, Writing, Shuffle
  <1>3. Files'
    <2>1. /\ UNCHANGED <<name, saved>> /\ saver' = "none" /\ (~torn' => ~torn /\ ~Exposed)
          /\ \A x \in Name : name[x] # NoFile => disk'[name[x]] = disk[name[x]]
      <3>1. FilesTypeOK /\ name \in [Name -> Inode \cup {NoFile}]
        BY DEF FilesTypeOK
      <3>2. \A x \in Name : name[x] # NoFile => disk'[name[x]] = disk[name[x]]
        BY SMT, <3>1, KeptNamed DEF Crash
      <3> QED
        BY <3>2 DEF Crash
    <2> QED
      BY <2>1 DEF Files, Holds, Exposed, Name
  <1>4. Pending'
    BY DEF Crash, Pending, Dumping, Writing, Shuffle
  <1> QED
    BY <1>1, <1>2, <1>3, <1>4

LEMMA SaverInv ==
  ASSUME FileInv, saver_due \/ saver_return \/ dump_pack
  PROVE  FileInv'
  <1> USE DEF FileInv
  <1>0. /\ UNCHANGED <<log_fd, name, disk, saved, torn, failed>>
        /\ saver \in {"wait", "pack"} /\ saver' \in {"none", "pack", "creat"}
        /\ saver' = "none" <=> mode' = "down"
    BY DEF saver_due, saver_return, dump_pack, Stages
  <1>1. FilesTypeOK'
    BY DEF saver_due, saver_return, dump_pack, FilesTypeOK, Saver
  <1>2. Stages' /\ Files'
    BY <1>0 DEF Stages, Files, Holds, Exposed, Writing, Shuffle
  <1>3. Pending'
    BY <1>0
    DEF saver_due, saver_return, dump_pack, Pending, Dumping, Writing, Shuffle
  <1> QED
    BY <1>1, <1>2, <1>3
-----------------------------------------------------------------------------
(* dump_all_job_state: writing job_state.new                                 *)

LEMMA CreatInv ==
  ASSUME FileInv, dump_creat
  PROVE  FileInv'
  <1> USE DEF FileInv
  <1>0. PICK i \in Created("new") :
          /\ name' = [name EXCEPT !["new"] = i]
          /\ disk' = [disk EXCEPT ![i] = Empty]
          /\ log_fd' = i
    BY DEF dump_creat
  <1>1. i \in Inode /\ i # NoFile
    BY FileAssumption DEF Created, FilesTypeOK, Name
  <1>2. ~torn => i # name["reg"]
    <2>1. ~Exposed
      BY DEF dump_creat, Exposed
    <2> QED
      BY <1>1, <2>1 DEF Created, Files, Name
  <1>3. FilesTypeOK'
    BY <1>0, <1>1 DEF dump_creat, FilesTypeOK, Saver, Writing, Content, Empty
  <1>4. Stages'
    BY <1>0, <1>1 DEF dump_creat, Stages, FilesTypeOK, Name, Writing, Shuffle
  <1>5. Files'
    BY <1>0, <1>1, <1>2 DEF dump_creat, Files, Holds, Exposed, FilesTypeOK, Name
  <1>6. Pending'
    BY DEF dump_creat, Pending, Dumping, Writing, Shuffle
  <1> QED
    BY <1>3, <1>4, <1>5, <1>6

LEMMA FileWriteInv ==
  ASSUME FileInv, dump_write \/ dump_fsync
  PROVE  FileInv'
  <1> USE DEF FileInv
  <1>0. /\ UNCHANGED <<mode, job_list, owed, save_jobs, run_save_thread, buffer, name, saved,
                       torn, failed>>
        /\ saver \in Writing /\ log_fd = name["new"] /\ log_fd \in Inode /\ log_fd # NoFile
        /\ saver' \in {"fsync", "unlink_old"}
    BY DEF dump_write, dump_fsync, Stages, Writing, FilesTypeOK, Name
  <1>1. \E size \in {"part", "whole"} :
          /\ disk' = [disk EXCEPT ![log_fd] = [size |-> size, jobs |-> buffer]]
          /\ size = "part" => saver' = "fsync" /\ log_fd' = log_fd
          /\ size = "whole" => saver' = "unlink_old" /\ log_fd' = NoFile
    BY DEF dump_write, dump_fsync
  <1>2. FilesTypeOK'
    BY SMT, <1>0, <1>1 DEF FilesTypeOK, Saver, Writing, Shuffle, Content
  <1>3. Stages'
    BY <1>0, <1>1 DEF Stages, FilesTypeOK, Writing, Shuffle, Whole
  <1>4. Files'
    BY <1>0, <1>1 DEF Files, Holds, Exposed, FilesTypeOK, Name, Writing
  <1>5. Pending'
    BY <1>0 DEF Pending, Dumping, Writing, Shuffle
  <1> QED
    BY <1>2, <1>3, <1>4, <1>5

LEMMA ErrorInv ==
  ASSUME FileInv, dump_error
  PROVE  FileInv'
  <1> USE DEF FileInv
  <1>0. /\ name' \in [Name -> Inode \cup {NoFile}] /\ name' = [name EXCEPT !["new"] = NoFile]
        /\ disk' = KeptFiles(name', NoFile)
        /\ saver' = "wait" /\ ~Exposed
    BY DEF dump_error, unlink, FilesTypeOK, Writing, Exposed
  <1>1. /\ disk' \in [Inode -> Content]
        /\ \A x \in Name : name'[x] # NoFile => disk'[name'[x]] = disk[name'[x]]
    BY <1>0, KeptNamed
  <1>2. FilesTypeOK'
    BY <1>0, <1>1 DEF dump_error, FilesTypeOK, Saver
  <1>3. Stages'
    BY <1>0 DEF dump_error, Stages, Writing, Shuffle
  <1>4. Files'
    BY <1>0, <1>1 DEF dump_error, Files, Holds, Exposed, FilesTypeOK, Name
  <1>5. Pending'
    BY <1>0 DEF dump_error, Pending, Dumping, Writing, Shuffle
  <1> QED
    BY <1>2, <1>3, <1>4, <1>5
-----------------------------------------------------------------------------
(* dump_all_job_state: the file shuffle                                      *)

\* A step of the shuffle only moves names.
LEMMA ShuffleKept ==
  ASSUME FileInv, NEW from, NEW to, NEW dir, shuffle(from, to, dir),
         dir \in [Name -> Inode \cup {NoFile}], from \in Shuffle, to \in Shuffle
  PROVE  /\ UNCHANGED <<mode, job_list, owed, save_jobs, run_save_thread, buffer, log_fd, saved,
                        torn, failed>>
         /\ saver = from /\ saver' = to /\ name' = dir
         /\ \A x \in Name : dir[x] # NoFile => disk'[dir[x]] = disk[dir[x]]
         /\ FilesTypeOK' /\ Pending'
  <1>1. FilesTypeOK'
    BY KeptNamed DEF FileInv, shuffle, FilesTypeOK, Saver
  <1>2. Pending'
    BY DEF FileInv, shuffle, Pending, Dumping, Writing, Shuffle
  <1> QED
    BY SMT, <1>1, <1>2, KeptNamed DEF FileInv, shuffle

LEMMA UnlinkOldInv ==
  ASSUME FileInv, unlink_old
  PROVE  FileInv'
  <1> DEFINE dir == [name EXCEPT !["old"] = NoFile]
  <1>0. /\ UNCHANGED <<mode, job_list, owed, save_jobs, run_save_thread, buffer, log_fd, saved,
                       torn, failed>>
        /\ saver = "unlink_old" /\ saver' = "link_old" /\ name' = dir
        /\ \A x \in Name : dir[x] # NoFile => disk'[dir[x]] = disk[dir[x]]
        /\ FilesTypeOK' /\ Pending'
    <2>1. dir \in [Name -> Inode \cup {NoFile}]
      BY DEF FileInv, FilesTypeOK
    <2>2. {"unlink_old", "link_old"} \subseteq Shuffle
      BY DEF Shuffle
    <2> QED
      BY <2>1, <2>2, ShuffleKept DEF unlink_old, unlink
  <1>1. Stages'
    BY <1>0 DEF FileInv, FilesTypeOK, Stages, Writing, Shuffle, Name
  <1>2. Files'
    BY <1>0 DEF FileInv, FilesTypeOK, Files, Holds, Exposed, Name
  <1> QED
    BY <1>0, <1>1, <1>2 DEF FileInv

LEMMA LinkOldInv ==
  ASSUME FileInv, link_old
  PROVE  FileInv'
  <1> DEFINE dir == [name EXCEPT !["old"] = name["reg"]]
  <1>0. /\ UNCHANGED <<mode, job_list, owed, save_jobs, run_save_thread, buffer, log_fd, saved,
                       torn, failed>>
        /\ saver = "link_old" /\ saver' = "unlink_reg" /\ name' = dir
        /\ \A x \in Name : dir[x] # NoFile => disk'[dir[x]] = disk[dir[x]]
        /\ FilesTypeOK' /\ Pending'
    <2>1. dir \in [Name -> Inode \cup {NoFile}]
      BY DEF FileInv, FilesTypeOK, Name
    <2>2. {"link_old", "unlink_reg"} \subseteq Shuffle
      BY DEF Shuffle
    <2>3. link("reg", "old") = dir
      BY DEF link_old, shuffle, link, FileInv, Stages, FilesTypeOK, Name
    <2> QED
      BY SMT, <2>1, <2>2, <2>3, ShuffleKept DEF link_old
  <1>1. Stages'
    BY <1>0 DEF FileInv, FilesTypeOK, Stages, Writing, Shuffle, Name
  <1>2. Files'
    BY <1>0 DEF FileInv, FilesTypeOK, Files, Holds, Exposed, Name
  <1> QED
    BY <1>0, <1>1, <1>2 DEF FileInv

LEMMA UnlinkRegInv ==
  ASSUME FileInv, unlink_reg
  PROVE  FileInv'
  <1> DEFINE dir == [name EXCEPT !["reg"] = NoFile]
  <1>0. /\ UNCHANGED <<mode, job_list, owed, save_jobs, run_save_thread, buffer, log_fd, saved,
                       torn, failed>>
        /\ saver = "unlink_reg" /\ saver' = "link_reg" /\ name' = dir
        /\ \A x \in Name : dir[x] # NoFile => disk'[dir[x]] = disk[dir[x]]
        /\ FilesTypeOK' /\ Pending'
    <2>1. dir \in [Name -> Inode \cup {NoFile}]
      BY DEF FileInv, FilesTypeOK
    <2>2. {"unlink_reg", "link_reg"} \subseteq Shuffle
      BY DEF Shuffle
    <2> QED
      BY <2>1, <2>2, ShuffleKept DEF unlink_reg, unlink
  <1>1. Stages'
    BY <1>0 DEF FileInv, FilesTypeOK, Stages, Writing, Shuffle, Name
  <1>2. Files'
    BY <1>0 DEF FileInv, FilesTypeOK, Stages, Files, Holds, Exposed, Name
  <1> QED
    BY <1>0, <1>1, <1>2 DEF FileInv

LEMMA LinkRegInv ==
  ASSUME FileInv, link_reg
  PROVE  FileInv'
  <1> DEFINE dir == [name EXCEPT !["reg"] = name["new"]]
  <1>0. /\ UNCHANGED <<mode, job_list, owed, save_jobs, run_save_thread, buffer, log_fd, saved,
                       torn, failed>>
        /\ saver = "link_reg" /\ saver' = "unlink_new" /\ name' = dir
        /\ \A x \in Name : dir[x] # NoFile => disk'[dir[x]] = disk[dir[x]]
        /\ FilesTypeOK' /\ Pending'
    <2>1. dir \in [Name -> Inode \cup {NoFile}]
      BY DEF FileInv, FilesTypeOK, Name
    <2>2. {"link_reg", "unlink_new"} \subseteq Shuffle
      BY DEF Shuffle
    <2>3. link("new", "reg") = dir
      BY <2>2 DEF link_reg, shuffle, link, FileInv, Stages, FilesTypeOK, Name
    <2> QED
      BY SMT, <2>1, <2>2, <2>3, ShuffleKept DEF link_reg
  <1>1. Stages'
    BY <1>0 DEF FileInv, FilesTypeOK, Stages, Writing, Shuffle, Name
  <1>2. Files'
    BY <1>0 DEF Files, Exposed
  <1> QED
    BY <1>0, <1>1, <1>2 DEF FileInv

LEMMA UnlinkNewInv ==
  ASSUME FileInv, unlink_new
  PROVE  FileInv'
  <1> USE DEF FileInv
  <1>0. /\ name' \in [Name -> Inode \cup {NoFile}] /\ name' = [name EXCEPT !["new"] = NoFile]
        /\ disk' = KeptFiles(name', log_fd) /\ log_fd' = log_fd
        /\ saver = "unlink_new" /\ saver' = "wait" /\ saved' = buffer
        /\ name["reg"] # NoFile /\ disk[name["reg"]] = Whole(buffer)
    BY DEF unlink_new, unlink, Stages, Shuffle, FilesTypeOK
  <1>1. /\ disk' \in [Inode -> Content]
        /\ \A x \in Name : name'[x] # NoFile => disk'[name'[x]] = disk[name'[x]]
    BY <1>0, KeptNamed
  <1>2. FilesTypeOK'
    BY <1>0, <1>1 DEF unlink_new, FilesTypeOK, Saver
  <1>3. Stages'
    BY <1>0 DEF unlink_new, Stages, Writing, Shuffle
  <1>4. Files'
    BY <1>0, <1>1 DEF Files, Holds, Exposed, Whole, FilesTypeOK, Name
  <1>5. Pending'
    BY <1>0 DEF unlink_new, Pending, Dumping, Writing, Shuffle
  <1> QED
    BY <1>2, <1>3, <1>4, <1>5
-----------------------------------------------------------------------------
\* The daemon and its saving thread keep the inductive invariant of the state files,
\* wherever the daemon ends.
THEOREM FileInvariant == FilesSpec => []FileInv
  <1>1. FilesInit => FileInv
    BY InitFileInv
  <1>2. FileInv /\ [FilesNext]_files_vars => FileInv'
    <2> SUFFICES ASSUME FileInv, [FilesNext]_files_vars PROVE FileInv'
      OBVIOUS
    <2>1. CASE UNCHANGED files_vars
      BY SMT, <2>1
      DEF files_vars, FileInv, FilesTypeOK, Stages, Files, Holds, Exposed, Pending, Dumping
    <2> QED
      BY <2>1, LoadInv, MemoryInv, CrashInv, SaverInv, CreatInv, FileWriteInv, ErrorInv,
         UnlinkOldInv, LinkOldInv, UnlinkRegInv, LinkRegInv, UnlinkNewInv
      DEF FilesNext, SaverStep, Dump
  <1> QED
    BY <1>1, <1>2, PTL DEF FilesSpec

\* The shuffle of job_state.new, job_state and job_state.old keeps the saved state where
\* a restart finds it, through any number of cuts that do not leave job_state exposed.
THEOREM StateSurvives == FilesSpec => []SurvivesCrash
  <1>1. FileInv => SurvivesCrash
    <2> SUFFICES ASSUME FileInv, ~torn, saved # {} PROVE Recoverable
      BY DEF SurvivesCrash, Recoverable
    <2>1. /\ Opened # NoFile /\ disk[Opened].size = "whole"
          /\ Loaded = {IF saver = "unlink_new" THEN buffer ELSE saved}
      BY LoadsSaved
    <2>2. disk[Opened].jobs = IF saver = "unlink_new" THEN buffer ELSE saved
      BY <2>1 DEF Loaded
    <2> QED
      BY <2>1, <2>2 DEF Recoverable, Dumping, Shuffle
  <1> QED
    BY <1>1, FileInvariant, PTL

\* slurmctld_state_save forgets no change: save_jobs is cleared before the jobs are packed,
\* so that one that comes later is saved by the next dump.
THEOREM StateSaved == FilesSpec => []NothingUnsaved
  <1>1. FileInv => NothingUnsaved
    <2> SUFFICES ASSUME FileInv, mode # "down", ~torn, ~failed, ~owed, ~save_jobs,
                        saver # "pack", ~((saver = "creat" \/ Dumping) /\ buffer = job_list)
                 PROVE  Loaded = {job_list}
      BY DEF NothingUnsaved
    <2>1. saver # "none"
      BY DEF FileInv, Stages
    <2>2. saver = "wait"
      BY <2>1 DEF FileInv, FilesTypeOK, Saver, Pending, Dumping
    <2> QED
      BY <2>2, LoadsSaved DEF FileInv, Pending
  <1> QED
    BY <1>1, FileInvariant, PTL
=============================================================================
