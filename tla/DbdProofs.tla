----------------------------- MODULE DbdProofs -----------------------------
(***************************************************************************)
(* Proofs about the queue of accounting messages of slurmctld (module      *)
(* DbdAgent), for any limits of the queue and of a batch.                  *)
(***************************************************************************)
EXTENDS DbdAgent, ListProofs

\* Zenon proves most leaves; a leaf that needs arithmetic names SMT.
USE Zenon

Msgs == Seq(Msg)

\* The messages of a list are in the order of the calls.
Increasing(q) == \A i, j \in DOMAIN q : i < j => q[i].id < q[j].id

\* A message of b is not further back in q than in b.
Behind(q, b) == \A i \in DOMAIN q, j \in DOMAIN b : q[i].id = b[j].id => i <= j

Prefix(q, b) == \A j \in DOMAIN b : j \in DOMAIN q /\ q[j] = b[j]

\* k is a list q from which messages were taken out.
Thinned(q, k) ==
    /\ k \in Msgs /\ Len(k) <= Len(q) /\ Increasing(k) /\ Ids(k) \subseteq Ids(q)
    /\ \A b \in Msgs : Behind(q, b) => Behind(k, b)
    /\ \A b \in Msgs : Prefix(q, b) /\ Ids(b) \subseteq Ids(k) => Prefix(k, b)

LEMMA MsgType ==
  ASSUME NEW q \in Msgs
  PROVE  /\ Len(q) \in Nat /\ DOMAIN q = 1..Len(q)
         /\ \A i \in DOMAIN q : q[i] \in Msg /\ q[i].id \in 1..MaxMsgs /\ q[i].id \in Int
  <1>1. q \in Seq(Msg)
    BY DEF Msgs
  <1>2. Len(q) \in Nat /\ DOMAIN q = 1..Len(q) /\ \A i \in DOMAIN q : q[i] \in Msg
    BY SMT, <1>1
  <1>3. \A m \in Msg : m.id \in 1..MaxMsgs /\ m.id \in Int
    BY SMT, QueueAssumption DEF Msg
  <1> QED
    BY <1>2, <1>3

LEMMA IncreasingOnce ==
  ASSUME NEW q \in Msgs, Increasing(q),
         NEW i \in DOMAIN q, NEW j \in DOMAIN q, q[i].id = q[j].id
  PROVE  i = j
  BY SMT, MsgType DEF Increasing

LEMMA ThinnedKept ==
  ASSUME NEW q \in Msgs, Increasing(q), NEW I \in SUBSET DOMAIN q
  PROVE  /\ Thinned(q, Kept(q, I))
         /\ Ids(Kept(q, I)) = {q[i].id : i \in I}
  <1> DEFINE n == Cardinality(I)
             k == Kept(q, I)
  <1>0. q \in Seq(Msg)
    BY DEF Msgs
  <1>1. n \in Nat /\ n <= Len(q)
    BY <1>0, KeptShape
  <1>2. PICK f : KeepMap(f, q, I)
    BY <1>0, KeptShape
  <1>3. /\ f \in [1..n -> I]
        /\ \A a \in 1..n : a <= f[a]
        /\ \A a, b \in 1..n : a < b => f[a] < f[b]
        /\ \A i \in I : \E a \in 1..n : f[a] = i
        /\ k = [a \in 1..n |-> q[f[a]]]
    BY <1>2 DEF KeepMap
  <1>4. \A b \in Nat : 1..b \subseteq I => \A j \in 1..b : j \in DOMAIN k /\ k[j] = q[j]
    BY <1>0, KeptFront
  <1> HIDE DEF n, k
  <1>5. \A a \in 1..n : f[a] \in DOMAIN q /\ f[a] \in I /\ q[f[a]] \in Msg
    BY <1>3, MsgType
  <1>6. k \in Seq(Msg) /\ DOMAIN k = 1..n /\ Len(k) = n
    BY SMT, <1>1, <1>3, <1>5
  <1>7. \A a \in 1..n : k[a] = q[f[a]]
    BY <1>3
  <1>8. Increasing(k)
    BY <1>3, <1>5, <1>6, <1>7 DEF Increasing
  <1>9. Ids(k) = {q[i].id : i \in I}
    <2>1. \A x : x \in Ids(k) => x \in {q[i].id : i \in I}
      BY SMT, <1>5, <1>6, <1>7 DEF Ids
    <2>2. \A x : x \in {q[i].id : i \in I} => x \in Ids(k)
      <3> SUFFICES ASSUME NEW i \in I PROVE q[i].id \in Ids(k)
        OBVIOUS
      <3>1. PICK a \in 1..n : f[a] = i
        BY <1>3
      <3> QED
        BY <1>6, <1>7, <3>1 DEF Ids
    <2> QED
      BY <2>1, <2>2
  <1>10. Ids(k) \subseteq Ids(q)
    BY <1>9 DEF Ids
  <1>11. ASSUME NEW b \in Msgs, Behind(q, b) PROVE Behind(k, b)
    <2> SUFFICES ASSUME NEW a \in 1..n, NEW j \in DOMAIN b, k[a].id = b[j].id
                 PROVE  a <= j
      BY <1>6 DEF Behind
    <2>1. f[a] <= j
      BY SMT, <1>5, <1>7, <1>11 DEF Behind
    <2>2. j \in Int /\ f[a] \in Int
      BY SMT, <1>5, MsgType
    <2> QED
      BY SMT, <1>3, <2>1, <2>2
  <1>12. ASSUME NEW b \in Msgs, Prefix(q, b), Ids(b) \subseteq Ids(k) PROVE Prefix(k, b)
    <2>1. Len(b) \in Nat /\ DOMAIN b = 1..Len(b)
      BY MsgType
    <2>2. ASSUME NEW j \in 1..Len(b) PROVE j \in I
      <3>1. b[j].id \in Ids(k) /\ j \in DOMAIN q /\ q[j] = b[j]
        BY <1>12, <2>1 DEF Ids, Prefix
      <3>2. PICK i \in I : q[i].id = q[j].id
        BY <1>9, <3>1
      <3> QED
        BY <3>1, <3>2, IncreasingOnce
    <2> QED
      BY <1>4, <1>12, <2>1, <2>2 DEF Prefix
  <1> QED
    BY <1>1, <1>6, <1>8, <1>9, <1>10, <1>11, <1>12 DEF Thinned, k, Msgs

LEMMA ThinnedSame ==
  ASSUME NEW q \in Msgs, Increasing(q)
  PROVE  Thinned(q, q)
  BY SMT, MsgType DEF Thinned

LEMMA ThinnedTwice ==
  ASSUME NEW p \in Msgs, NEW q, NEW k, Thinned(p, q), Thinned(q, k)
  PROVE  Thinned(p, k)
  <1>1. q \in Msgs /\ k \in Msgs
    BY DEF Thinned
  <1>2. Len(p) \in Nat /\ Len(q) \in Nat /\ Len(k) \in Nat
    BY <1>1, MsgType
  <1>3. ASSUME NEW b \in Msgs, Prefix(p, b), Ids(b) \subseteq Ids(k) PROVE Prefix(k, b)
    <2>1. Ids(b) \subseteq Ids(q)
      BY <1>3 DEF Thinned
    <2>2. Prefix(q, b)
      BY <1>3, <2>1 DEF Thinned
    <2> QED
      BY <1>3, <2>2 DEF Thinned
  <1> QED
    BY SMT, <1>1, <1>2, <1>3 DEF Thinned

\* The purge of a full queue, in its one or two passes.
LEMMA ThinnedPurged ==
  ASSUME NEW q \in Msgs, Increasing(q)
  PROVE  Thinned(q, Purged(q))
  <1>1. ASSUME NEW p \in Msgs, Increasing(p), NEW kd PROVE Thinned(p, Purge(p, kd))
    <2> DEFINE I == {i \in DOMAIN p : p[i].kind # kd}
    <2>1. I \in SUBSET DOMAIN p /\ Purge(p, kd) = Kept(p, I)
      BY DEF Purge
    <2> HIDE DEF I
    <2> QED
      BY <1>1, <2>1, ThinnedKept
  <1> DEFINE full(p) == Len(p) = max_agent_queue - 1
             steps == IF full(q) THEN Purge(q, "step") ELSE q
  <1>2. Thinned(q, steps)
    BY <1>1, ThinnedSame
  <1>3. steps \in Msgs /\ Increasing(steps)
    BY <1>2 DEF Thinned
  <1>4. Purged(q) = IF full(steps) THEN Purge(steps, "start") ELSE steps
    BY DEF Purged
  <1> HIDE DEF steps
  <1>5. Thinned(steps, Purged(q))
    BY <1>1, <1>3, <1>4, ThinnedSame
  <1> QED
    BY <1>2, <1>5, ThinnedTwice

\* A message joins the queue behind the others, if there is room after the purge.
LEMMA EnqueuedShape ==
  ASSUME NEW q \in Msgs, Increasing(q), Len(q) <= max_agent_queue,
         NEW m \in Msg, \A i \in DOMAIN q : q[i].id < m.id
  PROVE  LET e == Enqueued(q, m) IN
         /\ e \in Msgs /\ Len(e) <= max_agent_queue /\ Increasing(e)
         /\ Ids(e) \subseteq Ids(q) \cup {m.id}
         /\ \A b \in Msgs : m.id \notin Ids(b) =>
              /\ Behind(q, b) => Behind(e, b)
              /\ Prefix(q, b) /\ Ids(b) \subseteq Ids(e) => Prefix(e, b)
  <1> DEFINE p == Purged(q)
             e == Enqueued(q, m)
  <1>1. Thinned(q, p)
    BY ThinnedPurged
  <1>2. p \in Msgs /\ Len(p) <= Len(q) /\ Increasing(p) /\ Ids(p) \subseteq Ids(q)
    BY <1>1 DEF Thinned
  <1>3. e = p \/ (e = Append(p, m) /\ Len(p) < max_agent_queue)
    BY DEF Enqueued
  <1>4. max_agent_queue \in Nat /\ Len(q) \in Nat /\ Len(p) \in Nat
    BY <1>2, MsgType, QueueAssumption
  <1> HIDE DEF p, e
  <1>5. CASE e = p
    <2>1. Len(e) <= max_agent_queue
      BY SMT, <1>2, <1>4, <1>5
    <2>2. \A b \in Msgs : /\ Behind(q, b) => Behind(e, b)
                          /\ Prefix(q, b) /\ Ids(b) \subseteq Ids(e) => Prefix(e, b)
      BY <1>1, <1>5 DEF Thinned
    <2> QED
      BY <1>2, <1>5, <2>1, <2>2 DEF e
  <1>6. CASE e = Append(p, m) /\ Len(p) < max_agent_queue
    <2>0. p \in Seq(Msg) /\ DOMAIN p = 1..Len(p)
      BY SMT, <1>2 DEF Msgs
    <2>1. /\ e \in Seq(Msg) /\ Len(e) = Len(p) + 1 /\ DOMAIN e = 1..(Len(p) + 1)
          /\ \A i \in DOMAIN p : e[i] = p[i]
          /\ e[Len(p) + 1] = m
      BY SMT, <1>6, <2>0
    <2>2. \A i \in DOMAIN e : i \in DOMAIN p \/ i = Len(p) + 1
      BY SMT, <1>4, <2>0, <2>1
    <2>3. \A i \in DOMAIN p : p[i].id < m.id
      <3> SUFFICES ASSUME NEW i \in DOMAIN p PROVE p[i].id < m.id
        OBVIOUS
      <3>1. p[i].id \in Ids(q)
        BY <1>2 DEF Ids
      <3>2. PICK j \in DOMAIN q : q[j].id = p[i].id
        BY <3>1 DEF Ids
      <3> QED
        BY <3>2
    <2>4. Increasing(e)
      <3> SUFFICES ASSUME NEW i \in DOMAIN e, NEW j \in DOMAIN e, i < j
                   PROVE  e[i].id < e[j].id
        BY DEF Increasing
      <3>1. i \in DOMAIN p
        BY SMT, <1>4, <2>0, <2>1, <2>2
      <3>2. CASE j \in DOMAIN p
        BY <1>2, <2>1, <3>1, <3>2 DEF Increasing
      <3>3. CASE j = Len(p) + 1
        BY <2>1, <2>3, <3>1, <3>3
      <3> QED
        BY <2>2, <3>2, <3>3
    <2>5. Ids(e) = Ids(p) \cup {m.id}
      <3>1. \A i \in DOMAIN p : i \in DOMAIN e
        BY SMT, <1>4, <2>0, <2>1
      <3>2. Len(p) + 1 \in DOMAIN e
        BY SMT, <1>4, <2>1
      <3> QED
        BY <2>1, <2>2, <3>1, <3>2 DEF Ids
    <2>6. ASSUME NEW b \in Msgs, m.id \notin Ids(b), Behind(q, b) PROVE Behind(e, b)
      <3>1. Behind(p, b)
        BY <1>1, <2>6 DEF Thinned
      <3>2. \A j \in DOMAIN b : b[j].id # m.id
        BY <2>6 DEF Ids
      <3> QED
        BY <2>1, <2>2, <3>1, <3>2 DEF Behind
    <2>7. ASSUME NEW b \in Msgs, m.id \notin Ids(b), Prefix(q, b), Ids(b) \subseteq Ids(e)
          PROVE  Prefix(e, b)
      <3>1. Ids(b) \subseteq Ids(p)
        BY <2>5, <2>7
      <3>2. Prefix(p, b)
        BY <1>1, <2>7, <3>1 DEF Thinned
      <3>3. \A i \in DOMAIN p : i \in DOMAIN e
        BY SMT, <1>4, <2>0, <2>1
      <3> QED
        BY <2>1, <3>2, <3>3 DEF Prefix
    <2>8. e \in Msgs /\ Len(e) <= max_agent_queue /\ Ids(e) \subseteq Ids(q) \cup {m.id}
      BY SMT, <1>2, <1>4, <1>6, <2>1, <2>5 DEF Msgs
    <2> QED
      BY <2>4, <2>6, <2>7, <2>8 DEF e
  <1> QED
    BY <1>3, <1>5, <1>6

LEMMA CutShape ==
  ASSUME NEW q \in Msgs, NEW m \in Nat \ {0}, NEW n \in 0..Len(q)
  PROVE  /\ SubSeq(q, m, n) \in Msgs
         /\ Len(SubSeq(q, m, n)) = IF m <= n THEN n - m + 1 ELSE 0
         /\ \A i \in DOMAIN SubSeq(q, m, n) : /\ i + m - 1 \in DOMAIN q /\ i + m - 1 <= n
                                              /\ SubSeq(q, m, n)[i] = q[i + m - 1]
  <1>1. q \in Seq(Msg) /\ Len(q) \in Nat /\ DOMAIN q = 1..Len(q) /\ m \in Int /\ n \in Int
    BY SMT, MsgType DEF Msgs
  <1>2. \A i \in m..n : q[i] \in Msg
    BY SMT, <1>1, MsgType
  <1>3. /\ SubSeq(q, m, n) \in Seq(Msg)
        /\ Len(SubSeq(q, m, n)) = IF m <= n THEN n - m + 1 ELSE 0
        /\ \A i \in 1..(n - m + 1) : SubSeq(q, m, n)[i] = q[m + i - 1]
    <2>1. SubSeq(q, m, n) \in Seq(Msg)
      BY SMT, <1>1
    <2>2. CASE m <= n
      <3>1. Len(SubSeq(q, m, n)) = n - m + 1
        BY SMT, <1>1, <2>2
      <3>2. ASSUME NEW i \in 1..(n - m + 1) PROVE SubSeq(q, m, n)[i] = q[m + i - 1]
        BY SMT, <1>1, <2>2
      <3> QED
        BY <2>1, <2>2, <3>1, <3>2
    <2>3. CASE m > n
      <3>1. Len(SubSeq(q, m, n)) = 0 /\ 1..(n - m + 1) = {}
        BY SMT, <1>1, <2>3
      <3> QED
        BY SMT, <1>1, <2>1, <2>3, <3>1
    <2> QED
      BY SMT, <1>1, <2>2, <2>3
  <1>4. DOMAIN SubSeq(q, m, n) = 1..Len(SubSeq(q, m, n))
    BY SMT, <1>3
  <1>5. ASSUME NEW i \in DOMAIN SubSeq(q, m, n)
        PROVE  /\ i + m - 1 \in DOMAIN q /\ i + m - 1 <= n
               /\ SubSeq(q, m, n)[i] = q[i + m - 1]
    <2>1. i \in 1..(n - m + 1) /\ m + i - 1 = i + m - 1
      BY SMT, <1>1, <1>3, <1>4
    <2>2. i + m - 1 \in DOMAIN q /\ i + m - 1 <= n
      BY SMT, <1>1, <2>1
    <2>3. SubSeq(q, m, n)[i] = q[m + i - 1]
      BY <1>3, <2>1
    <2> QED
      BY <2>1, <2>2, <2>3
  <1> QED
    BY <1>3, <1>5 DEF Msgs

\* The batch is the front of the queue.
LEMMA BatchShape ==
  ASSUME NEW q \in Msgs, Increasing(q)
  PROVE  LET b == Batch(q) IN
         /\ b \in Msgs /\ Increasing(b) /\ Prefix(q, b) /\ Behind(q, b)
         /\ Ids(b) \subseteq Ids(q)
  <1> DEFINE n == IF Len(q) > handle_agent_count THEN handle_agent_count + 1 ELSE Len(q)
             b == Batch(q)
  <1>1. Len(q) \in Nat /\ handle_agent_count \in Nat /\ DOMAIN q = 1..Len(q)
    BY MsgType, QueueAssumption
  <1>2. n \in 0..Len(q)
    BY SMT, <1>1
  <1>3. b = SubSeq(q, 1, n)
    BY DEF Batch
  <1> HIDE DEF n, b
  <1>4. b \in Msgs /\ \A i \in DOMAIN b : i + 1 - 1 \in DOMAIN q /\ b[i] = q[i + 1 - 1]
    <2>1. 1 \in Nat \ {0}
      BY SMT
    <2> QED
      BY SMT, <1>2, <1>3, <2>1, CutShape
  <1>5. DOMAIN b = 1..Len(b) /\ Len(b) \in Nat
    BY <1>4, MsgType
  <1>6. \A i \in DOMAIN b : i \in Int /\ i \in DOMAIN q /\ b[i] = q[i]
    BY SMT, <1>4, <1>5
  <1>7. Increasing(b) /\ Prefix(q, b) /\ Ids(b) \subseteq Ids(q)
    BY <1>6 DEF Increasing, Prefix, Ids
  <1>8. Behind(q, b)
    <2> SUFFICES ASSUME NEW i \in DOMAIN q, NEW j \in DOMAIN b, q[i].id = b[j].id
                 PROVE  i <= j
      BY DEF Behind
    <2>1. i = j
      BY <1>6, IncreasingOnce
    <2> QED
      BY SMT, <1>6, <2>1
  <1> QED
    BY <1>4, <1>7, <1>8 DEF b

\* What is left of the queue when the first n messages are gone.
LEMMA DequeuedShape ==
  ASSUME NEW q \in Msgs, Increasing(q), NEW n \in Nat
  PROVE  LET d == Dequeued(q, n) IN
         /\ d \in Msgs /\ Len(d) <= Len(q) /\ Increasing(d)
         /\ \A x \in Ids(d) : \E i \in DOMAIN q : i > n /\ q[i].id = x
         /\ \A i \in DOMAIN q : i > n => q[i].id \in Ids(d)
  <1> DEFINE d == Dequeued(q, n)
  <1>1. Len(q) \in Nat /\ DOMAIN q = 1..Len(q) /\ n + 1 \in Nat \ {0} /\ Len(q) \in 0..Len(q)
    BY SMT, MsgType
  <1>3. /\ d \in Msgs
        /\ Len(d) = IF n + 1 <= Len(q) THEN Len(q) - (n + 1) + 1 ELSE 0
        /\ \A i \in DOMAIN d : i + (n + 1) - 1 \in DOMAIN q /\ d[i] = q[i + (n + 1) - 1]
    BY ZenonT(30), <1>1, CutShape DEF Dequeued
  <1> HIDE DEF d
  <1>4. DOMAIN d = 1..Len(d) /\ Len(d) \in Nat
    BY <1>3, MsgType
  <1>5. \A i \in DOMAIN d : i \in Nat \ {0} /\ i + n \in DOMAIN q /\ d[i] = q[i + n]
    BY SMT, <1>3, <1>4
  <1>6. Increasing(d)
    <2> SUFFICES ASSUME NEW i \in DOMAIN d, NEW j \in DOMAIN d, i < j
                 PROVE  d[i].id < d[j].id
      BY DEF Increasing
    <2>1. i + n < j + n
      BY SMT, <1>5
    <2> QED
      BY <1>5, <2>1 DEF Increasing
  <1>7. ASSUME NEW x \in Ids(d) PROVE \E i \in DOMAIN q : i > n /\ q[i].id = x
    <2>1. PICK j \in DOMAIN d : d[j].id = x
      BY DEF Ids
    <2>2. j + n \in DOMAIN q /\ j + n > n /\ q[j + n].id = x
      BY SMT, <1>5, <2>1
    <2> QED
      BY <2>2
  <1>8. ASSUME NEW i \in DOMAIN q, i > n PROVE q[i].id \in Ids(d)
    <2>1. i - n \in DOMAIN d /\ (i - n) + n = i
      <3>1. i \in Int /\ i <= Len(q) /\ n + 1 <= Len(q)
        BY SMT, <1>1, <1>8
      <3>2. Len(d) = Len(q) - n
        BY SMT, <1>1, <1>3, <3>1
      <3>3. i - n \in 1..Len(d)
        BY SMT, <1>1, <1>8, <3>1, <3>2
      <3> QED
        BY SMT, <1>4, <3>1, <3>3
    <2>2. d[i - n] = q[i]
      BY <1>5, <2>1
    <2> QED
      BY <2>1, <2>2 DEF Ids
  <1>9. Len(d) <= Len(q)
    <2>1. CASE n + 1 <= Len(q)
      <3>1. Len(d) = Len(q) - n
        BY SMT, <1>1, <1>3, <2>1
      <3> QED
        BY SMT, <1>1, <3>1
    <2>2. CASE ~ (n + 1 <= Len(q))
      BY SMT, <1>1, <1>3, <2>2
    <2> QED
      BY <2>1, <2>2
  <1> QED
    BY <1>3, <1>6, <1>7, <1>8, <1>9 DEF d

-----------------------------------------------------------------------------
(* The invariant of DbdAgent.                                                *)

\* The messages that the agent has packed are still on the queue.
DbdSending ==
    \/ agent \in {"send", "ret"}
    \/ agent = "finish" /\ Len(batch) = 1

\* The ids of those that slurmdbd has answered for.
DbdAnswered == {batch[i].id : i \in 1..rc}

DbdLocks ==
    /\ \A c \in Callers : caller[c] = "call" => slurmdbd_lock = c
    /\ agent \in {"opening", "send", "ret", "dead"} => slurmdbd_lock = "agent"

DbdPlaces ==
    /\ mode = "closed" => agent \in {"none", "dead_wait"}
    /\ agent = "none" => agent_list = << >>
    /\ agent \notin {"send", "ret", "finish", "dead"} => batch = << >>

DbdLists ==
    /\ Increasing(agent_list) /\ Increasing(batch) /\ Increasing(dbd_messages)
    /\ Len(dbd_messages) <= max_agent_queue
    /\ Ids(agent_list) \subseteq 1..sent /\ Ids(batch) \subseteq 1..sent
    /\ Ids(dbd_messages) \subseteq 1..sent
    /\ acked \subseteq 1..sent

\* While it is sent, a batch is at the front of the queue unless a purge has taken one of
\* its messages, and even then no message of it is further back than before.
DbdBatch ==
    DbdSending =>
      /\ Behind(agent_list, batch)
      /\ Ids(batch) \subseteq Ids(agent_list) => Prefix(agent_list, batch)
      /\ ~ raced => Ids(batch) \subseteq Ids(agent_list)

\* A message answered for is pending only until the answer has been dealt with.
DbdAcked ==
    /\ agent \in {"ret", "finish"} => DbdAnswered \subseteq acked
    /\ ~ cut => acked \cap Pending \subseteq
                  (IF DbdSending /\ agent # "send" THEN DbdAnswered ELSE {})

DbdInv ==
    /\ TypeOK
    /\ DbdLocks /\ DbdPlaces /\ DbdLists /\ DbdBatch /\ DbdAcked
    /\ NothingDropped

LEMMA PendingIs ==
  /\ agent = "none" => Pending = Ids(dbd_messages)
  /\ agent # "none" => Pending = Ids(agent_list)
  /\ agent' = "none" => Pending' = Ids(dbd_messages')
  /\ agent' # "none" => Pending' = Ids(agent_list')
  BY DEF Pending, Ids

LEMMA NoIds == Ids(<< >>) = {} /\ Increasing(<< >>) /\ << >> \in Msgs /\ Len(<< >>) = 0
  BY SMT DEF Ids, Increasing, Msgs

LEMMA InitDbd == Init => DbdInv
  <1> SUFFICES ASSUME Init PROVE DbdInv
    OBVIOUS
  <1> USE DEF Init
  <1>1. TypeOK
    <2>1. /\ agent_list \in Seq(Msg) /\ batch \in Seq(Msg) /\ dbd_messages \in Seq(Msg)
          /\ Len(agent_list) <= max_agent_queue /\ rc \in 0..Len(batch)
      BY SMT, NoIds, QueueAssumption DEF Msgs
    <2>2. caller \in [Callers -> {"idle", "lock", "call"}] /\ agent \in Agent
      BY DEF Agent
    <2>3. sent \in 0..MaxMsgs /\ calls \in 0..MaxCalls /\ opens \in 0..MaxOpens
      BY SMT, QueueAssumption
    <2> QED
      BY <2>1, <2>2, <2>3 DEF TypeOK
  <1>2. DbdLocks /\ DbdPlaces
    BY DEF DbdLocks, DbdPlaces
  <1>3. DbdLists
    BY SMT, NoIds, QueueAssumption DEF DbdLists
  <1>4. DbdBatch /\ DbdAcked
    BY DEF DbdBatch, DbdAcked, DbdSending
  <1>5. NothingDropped
    BY SMT DEF NothingDropped
  <1> QED
    BY <1>1, <1>2, <1>3, <1>4, <1>5 DEF DbdInv

\* Steps that leave the messages alone and keep the agent in, or out of, the places that
\* say something about them.
LEMMA DbdSame ==
  ASSUME DbdInv,
         UNCHANGED <<agent_list, batch, rc, dbd_messages, sent, acked, excused, raced, cut>>,
         \/ agent' = agent
         \/ /\ agent \notin {"none", "send", "ret", "finish"}
            /\ agent' \notin {"none", "send", "ret", "finish"}
  PROVE  DbdLists' /\ DbdBatch' /\ DbdAcked' /\ NothingDropped'
  <1> USE DEF DbdInv
  <1>1. Pending' = Pending
    BY PendingIs
  <1>2. DbdLists'
    BY DEF DbdLists
  <1>3. DbdBatch'
    BY DEF DbdBatch, DbdSending
  <1>4. DbdAcked'
    <2>1. CASE agent' = agent
      BY <1>1, <2>1 DEF DbdAcked, DbdSending, DbdAnswered
    <2>2. CASE agent' # agent
      <3>1. ~ cut => acked \cap Pending = {}
        BY <2>2 DEF DbdAcked, DbdSending
      <3> QED
        BY <1>1, <2>2, <3>1 DEF DbdAcked
    <2> QED
      BY <2>1, <2>2
  <1>5. NothingDropped'
    BY <1>1 DEF NothingDropped
  <1> QED
    BY <1>2, <1>3, <1>4, <1>5

\* slurm_send_recv_slurmdbd_msg, and the close up to the wait and at its end.
LEMMA CallerSteps ==
  ASSUME DbdInv,
         \/ \E c \in Callers : caller_halt(c) \/ CallerStep(c)
         \/ close_begin \/ close_end
  PROVE  DbdInv'
  <1> USE DEF DbdInv
  <1>1. UNCHANGED <<agent_list, batch, rc, dbd_messages, sent, acked, excused, raced, cut>>
    BY DEF caller_halt, CallerStep, caller_lock, caller_call, close_begin,
           close_end, counts, ghosts
  <1>2. agent' = agent \/ (agent = "halted" /\ agent' = "relock")
    BY DEF caller_halt, CallerStep, caller_lock, caller_call, close_begin,
           close_end
  <1>3. DbdLists' /\ DbdBatch' /\ DbdAcked' /\ NothingDropped'
    BY <1>1, <1>2, DbdSame
  <1>4. ASSUME NEW c \in Callers, caller_halt(c) PROVE DbdInv'
    <2>1. TypeOK'
      BY SMT, <1>4, QueueAssumption DEF TypeOK, caller_halt, ghosts
    <2>2. DbdLocks' /\ DbdPlaces'
      BY <1>4 DEF DbdLocks, DbdPlaces, caller_halt, TypeOK
    <2> QED
      BY <1>3, <2>1, <2>2
  <1>5. ASSUME NEW c \in Callers, caller_lock(c) PROVE DbdInv'
    <2>1. TypeOK'
      BY <1>5 DEF TypeOK, caller_lock, counts, ghosts
    <2>2. DbdLocks'
      BY SMT, <1>5, QueueAssumption DEF DbdLocks, caller_lock, TypeOK
    <2>3. DbdPlaces'
      BY <1>5 DEF DbdPlaces, caller_lock
    <2> QED
      BY <1>3, <2>1, <2>2, <2>3
  <1>6. ASSUME NEW c \in Callers, NEW up \in BOOLEAN, caller_call(c, up) PROVE DbdInv'
    <2>1. slurmdbd_lock = c /\ c \notin {"free", "agent"}
      BY <1>6, QueueAssumption DEF caller_call, DbdLocks
    <2>2. /\ fd' \in BOOLEAN /\ need_to_register' \in BOOLEAN
          /\ slurmdbd_shutdown' \in BOOLEAN
      BY <1>6 DEF caller_call, _open_slurmdbd_conn, TypeOK
    <2>3. TypeOK'
      BY <1>2, <1>6, <2>2 DEF TypeOK, caller_call, counts, ghosts, Agent
    <2>4. DbdLocks'
      BY <1>2, <1>6, <2>1 DEF DbdLocks, caller_call, TypeOK
    <2>5. DbdPlaces'
      BY <1>2, <1>6 DEF DbdPlaces, caller_call
    <2> QED
      BY <1>3, <2>3, <2>4, <2>5
  <1>7. CASE close_begin
    <2>1. TypeOK' /\ DbdLocks' /\ DbdPlaces'
      BY SMT, <1>7 DEF TypeOK, DbdLocks, DbdPlaces, close_begin, counts, ghosts
    <2> QED
      BY <1>3, <2>1
  <1>8. CASE close_end
    <2>1. TypeOK' /\ DbdLocks' /\ DbdPlaces'
      BY <1>8 DEF TypeOK, DbdLocks, DbdPlaces, close_end, counts, ghosts
    <2> QED
      BY <1>3, <2>1
  <1> QED
    BY <1>4, <1>5, <1>6, <1>7, <1>8 DEF CallerStep

\* The agent takes the connection, waits, or packs a batch.
LEMMA DbdPick ==
  ASSUME DbdInv, NEW up, pick(up), agent \in {"top", "wait", "relock", "opening"},
         slurmdbd_lock \in {"free", "agent"},
         UNCHANGED <<mode, agent_list, rc, caller, dbd_messages, sent, acked, excused,
                     raced, cut>>
  PROVE  /\ DbdLocks' /\ DbdPlaces' /\ DbdLists' /\ DbdBatch' /\ DbdAcked'
         /\ NothingDropped'
         /\ batch' \in Msgs /\ rc' \in 0..Len(batch') /\ agent' \in Agent
         /\ slurmdbd_lock' \in {"free", "agent"}
  <1> USE DEF DbdInv
  <1>0. /\ batch = << >> /\ rc = 0 /\ agent_list \in Msgs /\ Increasing(agent_list)
        /\ mode # "closed"
    BY SMT, NoIds DEF DbdPlaces, TypeOK, Msgs, DbdLists
  <1>1. \A c \in Callers : caller[c] # "call"
    BY QueueAssumption DEF DbdLocks
  <1>2. CASE agent' = "wait" /\ slurmdbd_lock' = "free" /\ UNCHANGED batch
    <2>1. DbdLists' /\ DbdBatch' /\ DbdAcked' /\ NothingDropped'
      BY <1>2, DbdSame
    <2>2. DbdLocks' /\ DbdPlaces'
      BY <1>0, <1>1, <1>2 DEF DbdLocks, DbdPlaces
    <2> QED
      BY SMT, <1>0, <1>2, <2>1, <2>2, NoIds DEF Agent
  <1>3. CASE /\ agent' = "send" /\ slurmdbd_lock' = "agent"
             /\ batch' = Batch(agent_list)
    <2>1. /\ batch' \in Msgs /\ Increasing(batch') /\ Prefix(agent_list, batch')
          /\ Behind(agent_list, batch') /\ Ids(batch') \subseteq Ids(agent_list)
      BY <1>0, <1>3, BatchShape
    <2>2. Pending' = Pending
      BY <1>3, PendingIs
    <2>3. DbdLists'
      BY <2>1 DEF DbdLists
    <2>4. DbdBatch'
      BY <2>1 DEF DbdBatch
    <2>5. DbdAcked'
      BY <1>3, <2>2 DEF DbdAcked, DbdSending
    <2>6. NothingDropped'
      BY <2>2 DEF NothingDropped
    <2>7. DbdLocks' /\ DbdPlaces'
      BY <1>0, <1>1, <1>3 DEF DbdLocks, DbdPlaces
    <2>8. rc' \in 0..Len(batch') /\ agent' \in Agent
      BY SMT, <1>0, <1>3, <2>1, MsgType DEF Agent
    <2> QED
      BY <1>3, <2>1, <2>3, <2>4, <2>5, <2>6, <2>7, <2>8
  <1> QED
    BY <1>2, <1>3 DEF pick

LEMMA LoopSteps ==
  ASSUME DbdInv, agent_loop \/ \E up \in BOOLEAN : agent_opened(up)
  PROVE  DbdInv'
  <1> USE DEF DbdInv
  <1>1. ASSUME NEW up \in BOOLEAN, agent_opened(up) PROVE DbdInv'
    <2>1. /\ agent = "opening" /\ slurmdbd_lock = "agent" /\ pick(up)
          /\ UNCHANGED <<mode, agent_list, rc, halt_agent, caller, dbd_messages, sent,
                         calls, opens, acked, excused, raced, cut>>
      BY <1>1 DEF agent_opened, DbdLocks, counts, ghosts
    <2>2. /\ fd' \in BOOLEAN /\ need_to_register' \in BOOLEAN
          /\ slurmdbd_shutdown' \in BOOLEAN
      BY <1>1 DEF agent_opened, _open_slurmdbd_conn, TypeOK
    <2>3. /\ DbdLocks' /\ DbdPlaces' /\ DbdLists' /\ DbdBatch' /\ DbdAcked'
          /\ NothingDropped'
          /\ batch' \in Msgs /\ rc' \in 0..Len(batch') /\ agent' \in Agent
          /\ slurmdbd_lock' \in {"free", "agent"}
      BY <2>1, DbdPick
    <2>4. TypeOK'
      BY <2>1, <2>2, <2>3 DEF TypeOK, Msgs
    <2> QED
      BY <2>3, <2>4
  <1>2. CASE agent_loop /\ ~ pick(fd)
    <2>1. /\ agent \in {"top", "wait", "relock"}
          /\ agent' \in {"save", "halted", "opening"}
          /\ agent' = "opening" => slurmdbd_lock = "free" /\ slurmdbd_lock' = "agent"
          /\ agent' # "opening" => slurmdbd_lock' = slurmdbd_lock
          /\ UNCHANGED <<mode, agent_list, batch, rc, need_to_register, fd, halt_agent,
                   slurmdbd_shutdown, caller, dbd_messages, sent, calls, opens, acked,
                   excused, raced, cut>>
      BY <1>2 DEF agent_loop, counts, ghosts
    <2>2. DbdLists' /\ DbdBatch' /\ DbdAcked' /\ NothingDropped'
      BY <2>1, DbdSame
    <2>3. DbdLocks'
      BY <2>1, QueueAssumption DEF DbdLocks
    <2>4. DbdPlaces'
      BY <2>1 DEF DbdPlaces
    <2>5. TypeOK'
      BY ZenonT(30), <2>1 DEF TypeOK, Agent
    <2> QED
      BY <2>2, <2>3, <2>4, <2>5
  <1>3. CASE agent_loop /\ pick(fd)
    <2>1. /\ agent \in {"top", "wait", "relock"}
          /\ UNCHANGED <<mode, agent_list, rc, need_to_register, fd, halt_agent,
                   slurmdbd_shutdown, caller, dbd_messages, sent, calls, opens, acked,
                   excused, raced, cut>>
      BY <1>3 DEF agent_loop, counts, ghosts
    <2>2. slurmdbd_lock = "free"
      BY <1>3 DEF agent_loop, pick
    <2>3. /\ DbdLocks' /\ DbdPlaces' /\ DbdLists' /\ DbdBatch' /\ DbdAcked'
          /\ NothingDropped'
          /\ batch' \in Msgs /\ rc' \in 0..Len(batch') /\ agent' \in Agent
          /\ slurmdbd_lock' \in {"free", "agent"}
      BY <1>3, <2>1, <2>2, DbdPick
    <2>4. TypeOK'
      BY <2>1, <2>3 DEF TypeOK, Msgs
    <2> QED
      BY <2>3, <2>4
  <1> QED
    BY <1>1, <1>2, <1>3

\* slurmdbd does not answer, or answers for the first messages of the batch.
LEMMA SendSteps ==
  ASSUME DbdInv,
         \/ \E up \in BOOLEAN : agent_fails(up)
         \/ \E k \in 0..(handle_agent_count + 1) : agent_answered(k)
  PROVE  DbdInv'
  <1> USE DEF DbdInv
  <1>0. batch \in Msgs /\ Len(batch) \in Nat /\ handle_agent_count \in Nat
    BY MsgType, QueueAssumption DEF TypeOK, Msgs
  <1>1. ASSUME NEW up \in BOOLEAN, agent_fails(up) PROVE DbdInv'
    <2>1. /\ agent = "send" /\ fd' = up /\ rc' = 0 /\ slurmdbd_lock = "agent"
          /\ UNCHANGED <<mode, agent_list, need_to_register, halt_agent,
                 slurmdbd_shutdown, caller, dbd_messages, sent, calls, opens, acked,
                 excused, raced, cut>>
      BY <1>1 DEF agent_fails, DbdLocks, counts, ghosts
    <2>2. \/ agent' = "ret" /\ UNCHANGED <<slurmdbd_lock, batch>>
          \/ agent' = "save" /\ slurmdbd_lock' = "free" /\ batch' = << >>
      BY <1>1 DEF agent_fails
    <2>3. Pending' = Pending
      BY <2>1, <2>2, PendingIs
    <2>4. NothingDropped'
      BY <2>1, <2>3 DEF NothingDropped
    <2>5. DbdLists'
      BY <2>1, <2>2, NoIds DEF DbdLists
    <2>6. DbdBatch'
      BY <2>1, <2>2 DEF DbdBatch, DbdSending
    <2>7. DbdAcked'
      <3>1. DbdAnswered' = {}
        BY SMT, <2>1 DEF DbdAnswered
      <3>2. ~ cut => acked \cap Pending = {}
        BY <2>1 DEF DbdAcked
      <3> QED
        BY <2>1, <2>3, <3>1, <3>2 DEF DbdAcked
    <2>8. TypeOK'
      <3>1. batch' \in Seq(Msg) /\ rc' \in 0..Len(batch')
        <4>1. CASE batch' = batch
          BY SMT, <1>0, <2>1, <4>1 DEF Msgs
        <4>2. CASE batch' = << >>
          BY SMT, <2>1, <4>2, NoIds DEF Msgs
        <4> QED
          BY <2>2, <4>1, <4>2
      <3> QED
        BY SMT, <2>1, <2>2, <3>1 DEF TypeOK, Agent
    <2>9. DbdLocks' /\ DbdPlaces'
      BY <2>1, <2>2, QueueAssumption DEF DbdLocks, DbdPlaces
    <2> QED
      BY <2>4, <2>5, <2>6, <2>7, <2>8, <2>9
  <1>2. ASSUME NEW k \in 0..(handle_agent_count + 1), agent_answered(k) PROVE DbdInv'
    <2>1. /\ agent = "send" /\ k <= Len(batch) /\ agent' = "ret" /\ rc' = k
          /\ acked' = acked \cup Ids(SubSeq(batch, 1, k))
          /\ UNCHANGED <<mode, agent_list, batch, need_to_register, fd, slurmdbd_lock,
                 halt_agent, slurmdbd_shutdown, caller, dbd_messages, sent, calls, opens,
                 excused, raced, cut>>
      BY <1>2 DEF agent_answered, counts, conn
    <2>2. k \in 0..Len(batch)
      BY SMT, <1>0, <2>1
    <2>3. Ids(SubSeq(batch, 1, k)) = DbdAnswered'
      <3> DEFINE s == SubSeq(batch, 1, k)
      <3>0. 1 \in Nat \ {0}
        BY SMT
      <3>1. /\ s \in Msgs /\ Len(s) = IF 1 <= k THEN k - 1 + 1 ELSE 0
            /\ \A i \in DOMAIN s : i + 1 - 1 \in DOMAIN batch /\ s[i] = batch[i + 1 - 1]
        BY ZenonT(30), <1>0, <2>2, <3>0, CutShape
      <3> HIDE DEF s
      <3>2. DOMAIN s = 1..Len(s) /\ Len(s) = k
        BY SMT, <2>2, <3>1, MsgType
      <3>3. \A i \in 1..k : s[i] = batch[i]
        BY SMT, <3>1, <3>2
      <3>4. Ids(s) = {batch[i].id : i \in 1..k}
        BY <3>2, <3>3 DEF Ids
      <3> QED
        BY <2>1, <3>4 DEF DbdAnswered, s
    <2>4. DbdAnswered' \subseteq Ids(batch)
      BY SMT, <1>0, <2>1, <2>2, MsgType DEF DbdAnswered, Ids
    <2>5. Pending' = Pending
      BY <2>1, PendingIs
    <2>6. NothingDropped'
      BY <2>1, <2>5 DEF NothingDropped
    <2>7. DbdLists'
      BY <2>1, <2>3, <2>4 DEF DbdLists
    <2>8. DbdBatch'
      BY <2>1 DEF DbdBatch, DbdSending
    <2>9. DbdAcked'
      <3>1. ~ cut => acked \cap Pending = {}
        BY <2>1 DEF DbdAcked
      <3> QED
        BY <2>1, <2>3, <2>5, <3>1 DEF DbdAcked, DbdSending
    <2>10. TypeOK'
      <3>1. acked' \subseteq 1..MaxMsgs
        <4>1. acked' \subseteq 1..sent /\ sent \in 0..MaxMsgs
          BY <2>1, <2>7 DEF DbdLists, TypeOK
        <4>2. 1..sent \subseteq 1..MaxMsgs
          BY SMT, <4>1, QueueAssumption
        <4> QED
          BY <4>1, <4>2
      <3> QED
        BY SMT, <2>1, <2>2, <3>1 DEF TypeOK, Agent
    <2>11. DbdLocks' /\ DbdPlaces'
      BY <2>1 DEF DbdLocks, DbdPlaces
    <2> QED
      BY <2>6, <2>7, <2>8, <2>9, <2>10, <2>11
  <1> QED
    BY <1>1, <1>2

\* _handle_mult_rc_ret, and the end of a single message: as many messages leave the queue
\* as were answered for.  None that was answered for stays, and unless a purge came
\* between, no other one leaves.
LEMMA TakenOff ==
  ASSUME DbdInv, DbdSending, agent \in {"ret", "finish"},
         NEW d, d = Dequeued(agent_list, rc)
  PROVE  /\ d \in Msgs /\ Len(d) <= max_agent_queue /\ Increasing(d)
         /\ Ids(d) \subseteq Ids(agent_list)
         /\ ~ cut => acked \cap Ids(d) = {}
         /\ ~ raced => Ids(agent_list) \subseteq Ids(d) \cup acked
  <1> USE DEF DbdInv
  <1>1. /\ agent_list \in Msgs /\ batch \in Msgs /\ Increasing(agent_list) /\ rc \in Nat
        /\ rc <= Len(batch) /\ Len(agent_list) <= max_agent_queue
        /\ max_agent_queue \in Nat
    BY SMT, MsgType, QueueAssumption DEF TypeOK, Msgs, DbdLists
  <1>2. /\ d \in Msgs /\ Len(d) <= Len(agent_list) /\ Increasing(d)
        /\ \A x \in Ids(d) : \E i \in DOMAIN agent_list : i > rc /\ agent_list[i].id = x
        /\ \A i \in DOMAIN agent_list : i > rc => agent_list[i].id \in Ids(d)
    BY <1>1, DequeuedShape
  <1>3. Len(d) <= max_agent_queue
    <2>1. Len(d) \in Nat /\ Len(agent_list) \in Nat
      BY <1>1, <1>2, MsgType
    <2> QED
      BY SMT, <1>1, <1>2, <2>1
  <1>4. Ids(d) \subseteq Ids(agent_list)
    BY <1>2 DEF Ids
  <1>5. DOMAIN batch = 1..Len(batch) /\ Len(batch) \in Nat
        /\ DOMAIN agent_list = 1..Len(agent_list) /\ Len(agent_list) \in Nat
    BY <1>1, MsgType
  <1>6. ASSUME ~ cut, NEW x \in Ids(d), x \in acked PROVE FALSE
    <2>1. PICK i \in DOMAIN agent_list : i > rc /\ agent_list[i].id = x
      BY <1>2
    <2>2. Pending = Ids(agent_list)
      BY PendingIs
    <2>3. x \in DbdAnswered
      BY <1>4, <1>6, <2>2 DEF DbdAcked
    <2>4. PICK j \in 1..rc : batch[j].id = x
      BY <2>3 DEF DbdAnswered
    <2>5. j \in DOMAIN batch
      BY SMT, <1>1, <1>5
    <2>6. i <= j
      BY <2>1, <2>4, <2>5 DEF DbdBatch, Behind
    <2> QED
      BY SMT, <1>1, <1>5, <2>1, <2>6
  <1>7. ASSUME ~ raced, NEW x \in Ids(agent_list) PROVE x \in Ids(d) \cup acked
    <2>1. PICK i \in DOMAIN agent_list : agent_list[i].id = x
      BY DEF Ids
    <2>2. CASE i > rc
      BY <1>2, <2>1, <2>2
    <2>3. CASE ~ (i > rc)
      <3>1. i \in 1..rc /\ i \in DOMAIN batch
        BY SMT, <1>1, <1>5, <2>3
      <3>2. agent_list[i] = batch[i]
        BY <1>7, <3>1 DEF DbdBatch, Prefix
      <3>3. x \in DbdAnswered
        BY <2>1, <3>1, <3>2 DEF DbdAnswered
      <3> QED
        BY <3>3 DEF DbdAcked
    <2> QED
      BY <2>2, <2>3
  <1> QED
    BY <1>2, <1>3, <1>4, <1>6, <1>7

\* The messages that were answered for leave the queue.
LEMMA RetSteps ==
  ASSUME DbdInv, agent_ret \/ agent_finish
  PROVE  DbdInv'
  <1> USE DEF DbdInv
  <1>0. batch \in Msgs /\ Len(batch) \in Nat /\ rc \in 0..Len(batch) /\ sent \in Nat
    BY SMT, MsgType, QueueAssumption DEF TypeOK, Msgs
  <1>1. UNCHANGED <<mode, need_to_register, fd, halt_agent, slurmdbd_shutdown, caller,
                    dbd_messages, sent, calls, opens, acked, excused, raced, cut>>
    BY DEF agent_ret, agent_finish, counts, ghosts, conn
  <1>a. \A n \in Nat : /\ n > 1 => n # 1
                     /\ \A r \in 0..n : ~ (n > 1) /\ n # 1 => r = 0
    BY SMT
  <1>2. CASE agent_ret
    <2>1. /\ agent = "ret" /\ agent' = "finish" /\ slurmdbd_lock = "agent"
          /\ slurmdbd_lock' = "free" /\ UNCHANGED <<batch, rc>>
      BY <1>2 DEF agent_ret, DbdLocks
    <2>2. CASE Len(batch) > 1
      <3>1. agent_list' = Dequeued(agent_list, rc)
        BY <1>2, <2>2 DEF agent_ret
      <3>2. /\ agent_list' \in Msgs /\ Len(agent_list') <= max_agent_queue
            /\ Increasing(agent_list') /\ Ids(agent_list') \subseteq Ids(agent_list)
            /\ ~ cut => acked \cap Ids(agent_list') = {}
            /\ ~ raced => Ids(agent_list) \subseteq Ids(agent_list') \cup acked
        BY <2>1, <3>1, TakenOff DEF DbdSending
      <3>3. Pending = Ids(agent_list) /\ Pending' = Ids(agent_list')
        BY <2>1, PendingIs
      <3>4. TypeOK'
        BY <1>1, <2>1, <3>2 DEF TypeOK, Msgs, Agent
      <3>5. DbdLocks' /\ DbdPlaces'
        BY <1>1, <2>1, QueueAssumption DEF DbdLocks, DbdPlaces
      <3>6. DbdLists'
        BY <1>1, <2>1, <3>2 DEF DbdLists
      <3>7. ~ DbdSending'
        <4>1. Len(batch') # 1 /\ agent' = "finish"
          BY <1>0, <1>a, <2>1, <2>2, Zenon
        <4> QED
          BY <4>1 DEF DbdSending
      <3>8. DbdBatch'
        BY <3>7 DEF DbdBatch
      <3>9. DbdAcked'
        BY <1>1, <2>1, <3>2, <3>3, <3>7 DEF DbdAcked, DbdAnswered
      <3>10. NothingDropped'
        BY <1>1, <3>2, <3>3 DEF NothingDropped
      <3> QED
        BY <3>4, <3>5, <3>6, <3>8, <3>9, <3>10
    <2>3. CASE ~ (Len(batch) > 1)
      <3>1. agent_list' = agent_list
        BY <1>2, <2>3 DEF agent_ret
      <3>2. Pending' = Pending
        BY <2>1, <3>1, PendingIs
      <3>3. TypeOK'
        BY <1>1, <2>1, <3>1 DEF TypeOK, Agent
      <3>4. DbdLocks' /\ DbdPlaces'
        BY <1>1, <2>1, QueueAssumption DEF DbdLocks, DbdPlaces
      <3>5. DbdLists'
        BY <1>1, <2>1, <3>1 DEF DbdLists
      <3>6. DbdBatch'
        BY <1>1, <2>1, <3>1 DEF DbdBatch, DbdSending
      <3>7. DbdAcked'
        <4>1. ~ cut => acked \cap Pending \subseteq DbdAnswered
          BY <2>1 DEF DbdAcked, DbdSending
        <4>2. DbdAnswered' = DbdAnswered
          BY <2>1 DEF DbdAnswered
        <4>3. Len(batch) # 1 => DbdAnswered = {}
          <5>1. Len(batch) # 1 => rc = 0
            BY <1>0, <1>a, <2>3, Zenon
          <5>2. 1..0 = {}
            BY SMT
          <5> QED
            BY <5>1, <5>2 DEF DbdAnswered
        <4>4. DbdAnswered \subseteq acked
          BY <2>1 DEF DbdAcked
        <4> QED
          BY <1>1, <2>1, <3>2, <4>1, <4>2, <4>3, <4>4 DEF DbdAcked, DbdSending
      <3>8. NothingDropped'
        BY <1>1, <3>2 DEF NothingDropped
      <3> QED
        BY <3>3, <3>4, <3>5, <3>6, <3>7, <3>8
    <2> QED
      BY <2>2, <2>3
  <1>3. CASE agent_finish
    <2>1. /\ agent = "finish" /\ agent' \in {"register", "top"}
          /\ batch' = << >> /\ rc' = 0 /\ slurmdbd_lock' = slurmdbd_lock
      BY <1>3 DEF agent_finish, conn
    <2>2. /\ agent_list' \in Msgs /\ Len(agent_list') <= max_agent_queue
          /\ Increasing(agent_list') /\ Ids(agent_list') \subseteq Ids(agent_list)
          /\ ~ cut => acked \cap Ids(agent_list') = {}
          /\ ~ raced => Ids(agent_list) \subseteq Ids(agent_list') \cup acked
      <3>1. CASE Len(batch) = 1
        <4>1. agent_list' = Dequeued(agent_list, rc)
          BY <1>3, <3>1 DEF agent_finish
        <4> QED
          BY <2>1, <3>1, <4>1, TakenOff DEF DbdSending
      <3>2. CASE Len(batch) # 1
        <4>1. agent_list' = agent_list /\ ~ DbdSending
          BY <1>3, <2>1, <3>2 DEF agent_finish, DbdSending
        <4>2. ~ cut => acked \cap Ids(agent_list) = {}
          BY <2>1, <4>1, PendingIs DEF DbdAcked
        <4> QED
          BY <4>1, <4>2 DEF TypeOK, Msgs, DbdLists
      <3> QED
        BY <3>1, <3>2
    <2>3. Pending = Ids(agent_list) /\ Pending' = Ids(agent_list')
      BY <2>1, PendingIs
    <2>4. TypeOK'
      BY SMT, <1>1, <2>1, <2>2, NoIds DEF TypeOK, Msgs, Agent
    <2>5. DbdLocks' /\ DbdPlaces'
      BY <1>1, <2>1 DEF DbdLocks, DbdPlaces
    <2>6. DbdLists'
      BY <1>1, <2>1, <2>2, NoIds DEF DbdLists
    <2>7. DbdBatch'
      BY <2>1 DEF DbdBatch, DbdSending
    <2>8. DbdAcked'
      BY <1>1, <2>1, <2>2, <2>3 DEF DbdAcked
    <2>9. NothingDropped'
      BY <1>1, <2>2, <2>3 DEF NothingDropped
    <2> QED
      BY <2>4, <2>5, <2>6, <2>7, <2>8, <2>9
  <1> QED
    BY <1>2, <1>3

\* slurm_send_slurmdbd_msg: what leaves the queue for a new message is excused, and a
\* message of the batch among it is a race.
LEMMA DbdEnqueue ==
  ASSUME DbdInv, NEW kd \in Kind, enqueue(kd), agent # "none",
         UNCHANGED <<batch, rc, dbd_messages, acked, cut>>,
         \/ agent' = agent
         \/ agent = "register" /\ agent' = "top"
  PROVE  /\ DbdLists' /\ DbdBatch' /\ DbdAcked' /\ NothingDropped'
         /\ agent_list' \in Msgs /\ Len(agent_list') <= max_agent_queue
         /\ sent' \in 0..MaxMsgs /\ excused' \subseteq 1..MaxMsgs /\ raced' \in BOOLEAN
  <1> USE DEF DbdInv
  <1> DEFINE m == [id |-> sent + 1, kind |-> kd]
             e == Enqueued(agent_list, m)
             gone == (Ids(agent_list) \cup {sent + 1}) \ Ids(e)
  <1>1. /\ sent < MaxMsgs /\ sent' = sent + 1 /\ agent_list' = e
        /\ excused' = excused \cup gone
        /\ raced' = (raced \/ gone \cap Ids(batch) # {})
    BY DEF enqueue, Ids
  <1>2. /\ sent \in 0..MaxMsgs /\ MaxMsgs \in Nat /\ agent_list \in Msgs /\ batch \in Msgs
        /\ Increasing(agent_list) /\ Len(agent_list) <= max_agent_queue
    BY QueueAssumption DEF TypeOK, Msgs, DbdLists
  <1>3. m \in Msg /\ m.id = sent + 1
    BY SMT, <1>1, <1>2 DEF Msg
  <1>4. \A i \in DOMAIN agent_list : agent_list[i].id < m.id
    <2> SUFFICES ASSUME NEW i \in DOMAIN agent_list PROVE agent_list[i].id < sent + 1
      BY <1>3
    <2>1. agent_list[i].id \in 1..sent
      BY DEF DbdLists, Ids
    <2> QED
      BY SMT, <1>2, <2>1
  <1> HIDE DEF m
  <1>5. /\ e \in Msgs /\ Len(e) <= max_agent_queue /\ Increasing(e)
        /\ Ids(e) \subseteq Ids(agent_list) \cup {m.id}
        /\ \A b \in Msgs : m.id \notin Ids(b) =>
             /\ Behind(agent_list, b) => Behind(e, b)
             /\ Prefix(agent_list, b) /\ Ids(b) \subseteq Ids(e) => Prefix(e, b)
    BY <1>2, <1>3, <1>4, EnqueuedShape
  <1> HIDE DEF e
  <1>6. /\ sent + 1 \notin Ids(batch) /\ sent + 1 \notin acked
        /\ 1..(sent + 1) = (1..sent) \cup {sent + 1}
    <2>1. sent + 1 \notin 1..sent /\ 1..(sent + 1) = (1..sent) \cup {sent + 1}
      BY SMT, <1>2
    <2> QED
      BY <2>1 DEF DbdLists
  <1>7. Pending = Ids(agent_list) /\ Pending' = Ids(e)
    BY <1>1, PendingIs
  <1>8. DbdLists'
    BY <1>1, <1>3, <1>5, <1>6 DEF DbdLists
  <1>9. DbdBatch'
    <2> SUFFICES ASSUME DbdSending'
                 PROVE  /\ Behind(e, batch)
                        /\ Ids(batch) \subseteq Ids(e) => Prefix(e, batch)
                        /\ ~ raced' => Ids(batch) \subseteq Ids(e)
      BY <1>1 DEF DbdBatch
    <2>1. DbdSending
      BY DEF DbdSending
    <2>2. Behind(e, batch)
      BY <1>2, <1>3, <1>5, <1>6, <2>1 DEF DbdBatch
    <2>3. ASSUME Ids(batch) \subseteq Ids(e) PROVE Prefix(e, batch)
      <3>1. Ids(batch) \subseteq Ids(agent_list)
        BY <1>3, <1>5, <1>6, <2>3
      <3>2. Prefix(agent_list, batch)
        BY <2>1, <3>1 DEF DbdBatch
      <3> QED
        BY <1>2, <1>3, <1>5, <1>6, <2>3, <3>2
    <2>4. ASSUME ~ raced' PROVE Ids(batch) \subseteq Ids(e)
      BY <1>1, <2>1, <2>4 DEF DbdBatch
    <2> QED
      BY <2>2, <2>3, <2>4
  <1>10. DbdAcked'
    <2>1. acked \cap Ids(e) \subseteq acked \cap Ids(agent_list)
      BY <1>3, <1>5, <1>6
    <2>2. DbdSending' = DbdSending /\ DbdAnswered' = DbdAnswered
      BY DEF DbdSending, DbdAnswered
    <2> QED
      BY <1>7, <2>1, <2>2 DEF DbdAcked, DbdSending
  <1>11. NothingDropped'
    <2> SUFFICES ASSUME ~ raced', NEW x \in 1..sent'
                 PROVE  x \in acked' \cup excused' \cup Pending'
      BY DEF NothingDropped
    <2>1. ~ raced
      BY <1>1
    <2>2. x \in 1..sent \/ x = sent + 1
      BY <1>1, <1>6
    <2>3. x \in 1..sent => x \in acked \cup excused \cup Ids(agent_list)
      BY <1>7, <2>1 DEF NothingDropped
    <2> QED
      BY <1>1, <1>7, <2>2, <2>3
  <1>12. sent' \in 0..MaxMsgs
    BY SMT, <1>1, <1>2
  <1>13. excused' \subseteq 1..MaxMsgs
    <2>1. gone \subseteq 1..(sent + 1)
      BY <1>6 DEF DbdLists
    <2>2. 1..(sent + 1) \subseteq 1..MaxMsgs
      BY SMT, <1>1, <1>2
    <2> QED
      BY <1>1, <2>1, <2>2 DEF TypeOK
  <1>14. raced' \in BOOLEAN
    BY <1>1
  <1> QED
    BY <1>1, <1>5, <1>8, <1>9, <1>10, <1>11, <1>12, <1>13, <1>14

LEMMA EnqueueSteps ==
  ASSUME DbdInv,
         \/ \E n \in 1..MaxMsgs : \E kd \in Kinds[n] : slurm_send_slurmdbd_msg(kd)
         \/ agent_register
  PROVE  DbdInv'
  <1> USE DEF DbdInv
  <1>1. ASSUME NEW n \in 1..MaxMsgs, NEW kd \in Kinds[n], slurm_send_slurmdbd_msg(kd)
        PROVE  DbdInv'
    <2>1. kd \in Kind
      BY QueueAssumption
    <2>2. /\ mode # "closed" /\ agent \notin {"none", "dead", "dead_wait"}
          /\ enqueue(kd)
          /\ UNCHANGED <<mode, agent, batch, rc, need_to_register, fd, slurmdbd_lock,
                 halt_agent, slurmdbd_shutdown, caller, dbd_messages, calls, opens,
                 acked, cut>>
      BY <1>1 DEF slurm_send_slurmdbd_msg, conn
    <2>3. /\ DbdLists' /\ DbdBatch' /\ DbdAcked' /\ NothingDropped'
          /\ agent_list' \in Msgs /\ Len(agent_list') <= max_agent_queue
          /\ sent' \in 0..MaxMsgs /\ excused' \subseteq 1..MaxMsgs /\ raced' \in BOOLEAN
      BY <2>1, <2>2, DbdEnqueue
    <2>4. TypeOK'
      BY <2>2, <2>3 DEF TypeOK, Msgs
    <2>5. DbdLocks' /\ DbdPlaces'
      BY <2>2 DEF DbdLocks, DbdPlaces
    <2> QED
      BY <2>2, <2>3, <2>4, <2>5
  <1>2. CASE agent_register
    <2>1. /\ agent = "register" /\ agent' = "top" /\ need_to_register' = FALSE
          /\ UNCHANGED <<mode, batch, rc, fd, slurmdbd_lock, halt_agent,
                 slurmdbd_shutdown, caller, dbd_messages, calls, opens, acked, cut>>
      BY <1>2 DEF agent_register, conn
    <2>2. DbdLocks' /\ DbdPlaces'
      BY <2>1 DEF DbdLocks, DbdPlaces
    <2>3. CASE enqueue("register")
      <3>1. /\ DbdLists' /\ DbdBatch' /\ DbdAcked' /\ NothingDropped'
            /\ agent_list' \in Msgs /\ Len(agent_list') <= max_agent_queue
            /\ sent' \in 0..MaxMsgs /\ excused' \subseteq 1..MaxMsgs
            /\ raced' \in BOOLEAN
        BY <2>1, <2>3, DbdEnqueue DEF Kind
      <3>2. TypeOK'
        BY <2>1, <3>1 DEF TypeOK, Msgs, Agent
      <3> QED
        BY <2>2, <3>1, <3>2
    <2>4. CASE UNCHANGED <<sent, agent_list, excused, raced>>
      <3>1. DbdLists' /\ DbdBatch' /\ DbdAcked' /\ NothingDropped'
        BY <2>1, <2>4, DbdSame
      <3>2. TypeOK'
        BY <2>1, <2>4 DEF TypeOK, Agent
      <3> QED
        BY <2>2, <3>1, <3>2
    <2> QED
      BY <1>2, <2>3, <2>4 DEF agent_register
  <1> QED
    BY <1>1, <1>2

\* The agent ends, the connection is opened, and what the daemon or a cancelled agent had in
\* memory is lost.
LEMMA EndSteps ==
  ASSUME DbdInv,
         \/ agent_save \/ close_cancel \/ Crash
         \/ \E up \in BOOLEAN : slurm_open_slurmdbd_conn(up)
  PROVE  DbdInv'
  <1> USE DEF DbdInv
  <1>0. /\ agent_list \in Msgs /\ dbd_messages \in Msgs /\ Increasing(agent_list)
        /\ Ids(agent_list) \subseteq 1..MaxMsgs /\ max_agent_queue \in Nat
        /\ Len(agent_list) <= max_agent_queue
        /\ sent \in 0..MaxMsgs /\ MaxMsgs \in Nat /\ opens \in 0..MaxOpens
        /\ MaxOpens \in Nat
    <2>1. sent \in 0..MaxMsgs /\ MaxMsgs \in Nat /\ Ids(agent_list) \subseteq 1..sent
      BY QueueAssumption DEF TypeOK, DbdLists
    <2>2. 1..sent \subseteq 1..MaxMsgs
      BY SMT, <2>1
    <2> QED
      BY <2>1, <2>2, QueueAssumption DEF TypeOK, DbdLists, Msgs
  <1>1. CASE agent_save
    <2> DEFINE S == DOMAIN agent_list \ Unsaved
               kept == Kept(agent_list, S)
    <2>1. /\ agent = "save" /\ agent' = "none" /\ agent_list' = << >>
          /\ dbd_messages' = kept
          /\ excused' = excused \cup {agent_list[i].id : i \in Unsaved}
          /\ UNCHANGED <<mode, batch, rc, need_to_register, fd, slurmdbd_lock, halt_agent,
                 slurmdbd_shutdown, caller, sent, calls, opens, acked, raced, cut>>
      BY <1>1 DEF agent_save, _save_dbd_state, conn, counts
    <2>2. Unsaved \subseteq DOMAIN agent_list
      BY DEF Unsaved
    <2>3. /\ kept \in Msgs /\ Increasing(kept) /\ Len(kept) <= Len(agent_list)
          /\ Ids(kept) \subseteq Ids(agent_list)
          /\ \A i \in DOMAIN agent_list \ Unsaved : agent_list[i].id \in Ids(kept)
      <3>1. S \in SUBSET DOMAIN agent_list
        OBVIOUS
      <3>2. Thinned(agent_list, kept) /\ Ids(kept) = {agent_list[i].id : i \in S}
        <4> HIDE DEF S
        <4> QED
          BY <1>0, <3>1, ThinnedKept
      <3> QED
        BY <3>2 DEF Thinned
    <2> HIDE DEF kept
    <2>4. Len(kept) <= max_agent_queue /\ Len(<< >>) <= max_agent_queue
      <3>1. Len(kept) \in Nat /\ Len(agent_list) \in Nat
        BY <1>0, <2>3, MsgType
      <3> QED
        BY SMT, <1>0, <2>3, <3>1, NoIds
    <2>5. excused' \subseteq 1..MaxMsgs
      BY <1>0, <2>1, <2>2 DEF TypeOK, Ids
    <2>6. TypeOK'
      BY SMT, <2>1, <2>3, <2>4, <2>5, NoIds DEF TypeOK, Msgs, Agent
    <2>7. DbdLocks' /\ DbdPlaces'
      BY <2>1 DEF DbdLocks, DbdPlaces
    <2>8. DbdLists'
      BY <2>1, <2>3, <2>4, NoIds DEF DbdLists
    <2>9. Pending = Ids(agent_list) /\ Pending' = Ids(kept)
      BY <2>1, PendingIs
    <2>10. DbdBatch' /\ DbdAcked'
      BY <2>1, <2>3, <2>9 DEF DbdBatch, DbdAcked, DbdSending
    <2>11. NothingDropped'
      <3>1. Ids(agent_list) \subseteq Ids(kept) \cup excused'
        BY <2>1, <2>2, <2>3 DEF Ids
      <3> QED
        BY <2>1, <2>9, <3>1 DEF NothingDropped
    <2> QED
      BY <2>1, <2>6, <2>7, <2>8, <2>10, <2>11
  <1>2. CASE close_cancel
    <2>1. /\ agent \in {"halted", "opening", "send", "wait"}
          /\ \/ /\ agent = "wait" /\ agent' = "dead_wait"
                /\ slurmdbd_lock' = slurmdbd_lock
             \/ /\ agent # "wait" /\ agent' = "dead" /\ slurmdbd_lock' = "agent"
                /\ slurmdbd_lock \in {"free", "agent"}
          /\ excused' = excused \cup Ids(agent_list) /\ cut' = TRUE /\ mode = "closing"
          /\ UNCHANGED <<mode, agent_list, batch, rc, need_to_register, fd, halt_agent,
                 slurmdbd_shutdown, caller, dbd_messages, sent, calls, opens, acked, raced>>
      BY <1>2 DEF close_cancel, counts, Ids
    <2>2. TypeOK'
      BY <1>0, <2>1 DEF TypeOK, Agent
    <2>3. DbdLocks'
      BY <2>1, QueueAssumption DEF DbdLocks
    <2>4. DbdPlaces' /\ DbdLists'
      BY <2>1 DEF DbdPlaces, DbdLists
    <2>5. DbdBatch' /\ DbdAcked'
      BY <2>1 DEF DbdBatch, DbdAcked, DbdSending
    <2>6. Pending' = Pending
      BY <2>1, PendingIs
    <2>7. NothingDropped'
      BY <2>1, <2>6 DEF NothingDropped
    <2> QED
      BY <2>2, <2>3, <2>4, <2>5, <2>7
  <1>3. CASE Crash
    <2>1. /\ mode' = "closed" /\ agent_list' = << >> /\ agent' = "none"
          /\ batch' = << >> /\ rc' = 0 /\ need_to_register' = FALSE /\ fd' = FALSE
          /\ slurmdbd_lock' = "free" /\ halt_agent' = FALSE /\ slurmdbd_shutdown' = FALSE
          /\ caller' = [c \in Callers |-> "idle"]
          /\ excused' = excused \cup Ids(agent_list) /\ cut' = TRUE
          /\ agent # "none" \/ agent_list = << >>
          /\ UNCHANGED <<dbd_messages, sent, calls, opens, acked, raced>>
      BY <1>3 DEF Crash, counts, Ids, DbdPlaces
    <2>2. TypeOK'
      <3>1. caller' \in [Callers -> {"idle", "lock", "call"}]
        BY <2>1
      <3>2. /\ agent_list' \in Seq(Msg) /\ Len(agent_list') <= max_agent_queue
            /\ batch' \in Seq(Msg) /\ rc' \in 0..Len(batch')
        BY SMT, <1>0, <2>1, NoIds DEF Msgs
      <3>3. excused' \subseteq 1..MaxMsgs
        BY <1>0, <2>1 DEF TypeOK
      <3>4. agent' \in Agent
        BY <2>1 DEF Agent
      <3> QED
        BY <2>1, <3>1, <3>2, <3>3, <3>4 DEF TypeOK
    <2>3. DbdLocks' /\ DbdPlaces'
      BY <2>1 DEF DbdLocks, DbdPlaces
    <2>4. DbdLists'
      BY <2>1, NoIds DEF DbdLists
    <2>5. DbdBatch' /\ DbdAcked'
      BY <2>1 DEF DbdBatch, DbdAcked, DbdSending
    <2>6. NothingDropped'
      <3>1. Pending' = Ids(dbd_messages)
        BY <2>1, PendingIs
      <3>2. Pending \subseteq Ids(agent_list) \cup Ids(dbd_messages)
        BY PendingIs
      <3> QED
        BY <2>1, <3>1, <3>2 DEF NothingDropped
    <2> QED
      BY <2>2, <2>3, <2>4, <2>5, <2>6
  <1>4. ASSUME NEW up \in BOOLEAN, slurm_open_slurmdbd_conn(up) PROVE DbdInv'
    <2>1. /\ mode = "closed" /\ slurmdbd_lock = "free" /\ agent = "none"
          /\ mode' = "open" /\ agent' = "top" /\ agent_list' = dbd_messages
          /\ opens < MaxOpens /\ opens' = opens + 1
          /\ fd' = (fd \/ up) /\ need_to_register' = (need_to_register \/ (~fd /\ up))
          /\ slurmdbd_shutdown' = FALSE
          /\ UNCHANGED <<batch, rc, slurmdbd_lock, halt_agent, caller, dbd_messages,
                 sent, calls, acked, excused, raced, cut>>
      BY <1>4 DEF slurm_open_slurmdbd_conn, agent_lock_free, ghosts, DbdPlaces
    <2>2. opens' \in 0..MaxOpens
      BY SMT, <1>0, <2>1
    <2>3. fd' \in BOOLEAN /\ need_to_register' \in BOOLEAN
      BY <2>1
    <2>4. TypeOK'
      BY <2>1, <2>2, <2>3 DEF TypeOK, Agent, DbdLists
    <2>5. DbdLocks' /\ DbdPlaces' /\ DbdLists'
      BY <2>1 DEF DbdLocks, DbdPlaces, DbdLists
    <2>6. Pending' = Pending
      BY <2>1, PendingIs
    <2>7. DbdBatch' /\ DbdAcked'
      BY <2>1, <2>6 DEF DbdBatch, DbdAcked, DbdSending
    <2>8. NothingDropped'
      BY <2>1, <2>6 DEF NothingDropped
    <2> QED
      BY <2>1, <2>4, <2>5, <2>7, <2>8
  <1> QED
    BY <1>1, <1>2, <1>3, <1>4

LEMMA NextDbd == DbdInv /\ [Next]_(vars) => DbdInv'
  <1> SUFFICES ASSUME DbdInv, [Next]_(vars) PROVE DbdInv'
    OBVIOUS
  <1>1. CASE UNCHANGED vars
    <2>1. UNCHANGED <<mode, agent_list, agent, batch, rc, need_to_register, fd,
              slurmdbd_lock, halt_agent, slurmdbd_shutdown, caller, dbd_messages, sent,
              calls, opens, acked, excused, raced, cut>>
      BY <1>1 DEF vars
    <2>2. DbdLists' /\ DbdBatch' /\ DbdAcked' /\ NothingDropped'
      BY <2>1, DbdSame
    <2>3. TypeOK' /\ DbdLocks' /\ DbdPlaces'
      BY SMT, <2>1 DEF DbdInv, TypeOK, DbdLocks, DbdPlaces
    <2> QED
      BY <2>2, <2>3 DEF DbdInv
  <1>2. ASSUME NEW n \in 1..MaxMsgs, NEW kd \in Kinds[n], slurm_send_slurmdbd_msg(kd)
        PROVE  DbdInv'
    BY <1>2, EnqueueSteps
  <1>3. CASE AgentStep
    BY <1>3, LoopSteps, SendSteps, RetSteps, EnqueueSteps, EndSteps DEF AgentStep
  <1>4. CASE \/ close_cancel \/ Crash
             \/ \E up \in BOOLEAN : slurm_open_slurmdbd_conn(up)
    BY <1>4, EndSteps
  <1>5. CASE \/ \E c \in Callers : caller_halt(c) \/ CallerStep(c)
             \/ close_begin \/ close_end
    BY <1>5, CallerSteps
  <1> QED
    BY <1>1, <1>2, <1>3, <1>4, <1>5 DEF Next

\* The invariant on which the two theorems below rest: the queue, the batch that _agent has
\* packed and dbd.messages hold the messages in the order of the calls, and a batch that is
\* being sent is the front of the queue unless a purge has taken a message of it.
THEOREM DbdInvariant == Spec => []DbdInv
  <1>1. Init => DbdInv
    BY InitDbd
  <1>2. DbdInv /\ [Next]_(vars) => DbdInv'
    BY NextDbd
  <1> QED
    BY <1>1, <1>2, PTL DEF Spec

\* _agent leaves a message on the queue until it has been processed, and a close saves the
\* queue: for any limit of the queue, size of a batch and number of messages, every message
\* was recorded by slurmdbd, which said so, or is pending, purged, discarded, a
\* registration, or lost with a daemon or an agent that ended without saving.
THEOREM DbdNothingDropped == Spec => []NothingDropped
  <1>1. DbdInv => NothingDropped
    BY DEF DbdInv
  <1> QED
    BY <1>1, DbdInvariant, PTL

\* A message whose success was received is not sent again, over any number of closes and
\* opens of the connection, as long as each agent ended by saving what was pending.
THEOREM DbdAckedOnce == Spec => []AckedOnce
  <1>1. DbdInv => AckedOnce
    BY DEF DbdInv, DbdAcked, DbdSending, AckedOnce
  <1> QED
    BY <1>1, DbdInvariant, PTL
====
