---------------------------- MODULE SlurmdProofs ----------------------------
(***************************************************************************)
(* Proofs about the messages of slurmd: a node inside a message tree       *)
(* (module ForwardMsg), for any finite set of hosts and any split of it,   *)
(* and the aggregation of messages (module MsgAggr), for any number of     *)
(* threads and any range of the index.                                     *)
(***************************************************************************)
EXTENDS ForwardMsg, MsgAggr, FiniteSetTheorems, TLAPS

\* Zenon proves most leaves; a leaf that needs arithmetic names SMT.
USE Zenon

(* A node inside a message tree                                              *)

\* A host of a branch without a thread has not been touched.
Waiting ==
    /\ \A b \in started : branch[b] = b
    /\ \A h \in Hosts : branch[h] \notin started =>
        hl[h] = NoThread /\ ret_list[h] = 0 /\ thr[h] = "none"

\* A host in the list of a thread is not listed, and its name is free for a thread of its
\* own.
Listed ==
    \A h, t \in Hosts : hl[h] = t =>
        /\ thr[t] \in {"loop", "open", "recv", "merge", "spawn"}
        /\ ret_list[h] = 0
        /\ h # t => thr[h] = "none"
        /\ h = t => thr[t] = "loop"

Asking(t) == thr[t] \in {"open", "recv", "merge"}

\* A host is asked by one thread, before it is listed.
Asked ==
    \A t \in Hosts : Asking(t) =>
        /\ name[t] \in Hosts
        /\ hl[name[t]] = NoThread
        /\ ret_list[name[t]] = 0
        /\ branch[name[t]] \in started
        /\ \A u \in Hosts : Asking(u) /\ name[u] = name[t] => u = t

\* A host that was shifted from its list is asked, or listed.
Accounted ==
    \A h \in Hosts : branch[h] \in started /\ hl[h] = NoThread =>
        ret_list[h] = 1 \/ \E t \in Hosts : Asking(t) /\ name[t] = h

\* A thread in its loop has a host to shift.
Busy == \A t \in Hosts : thr[t] = "loop" => \E h \in Hosts : hl[h] = t

WaiterInv ==
    /\ waiter # "forward" => \A h \in Hosts : branch[h] \in started
    /\ waiter = "destroyed" => \A h \in Hosts : ret_list[h] = 1

\* The inductive invariant of the node.
FwdInv ==
    /\ TypeOK /\ Waiting /\ Listed /\ Asked /\ Accounted /\ Busy /\ WaiterInv /\ WaiterWakes
-----------------------------------------------------------------------------
\* What forward_wait counts: with at most one entry for a host the list is long enough
\* only if every host is in it.
LEMMA CountMeansAll ==
  ASSUME ret_list \in [Hosts -> 0..1], EnoughAnswers
  PROVE  \A h \in Hosts : ret_list[h] = 1
  <1> DEFINE A == {h \in Hosts : ret_list[h] = 1}
             f == [h \in A |-> <<h, 1>>]
  <1>1. Entries = {<<h, 1>> : h \in A}
    <2>1. ASSUME NEW h \in Hosts
          PROVE  {<<h, i>> : i \in 1..ret_list[h]} = IF h \in A THEN {<<h, 1>>} ELSE {}
      <3>1. CASE ret_list[h] = 1
        <4>1. 1..ret_list[h] = {1}
          BY SMT, <3>1
        <4> QED
          BY <3>1, <4>1
      <3>2. CASE ret_list[h] = 0
        <4>1. 1..ret_list[h] = {}
          BY SMT, <3>2
        <4> QED
          BY <3>2, <4>1
      <3> QED
        BY SMT, <3>1, <3>2
    <2>2. Entries = UNION {IF h \in A THEN {<<h, 1>>} ELSE {} : h \in Hosts}
      BY SMT, <2>1 DEF Entries
    <2> QED
      BY <2>2
  <1>2. IsFiniteSet(A) /\ Cardinality(A) \in Nat /\ Cardinality(A) <= Cardinality(Hosts)
        /\ (Cardinality(Hosts) = Cardinality(A) => Hosts = A)
    BY HostsAssumption, FS_Subset, FS_CardinalityType
  <1>3. f \in Surjection(A, Entries)
    BY <1>1 DEF Surjection
  <1>4. Cardinality(Entries) <= Cardinality(A)
    BY <1>2, <1>3, FS_Surjection
  <1>5. Cardinality(Hosts) \in Nat /\ Cardinality(Entries) \in Nat
    BY <1>2, <1>3, HostsAssumption, FS_CardinalityType, FS_Surjection
  <1>6. Cardinality(Hosts) = Cardinality(A)
    BY SMT, <1>2, <1>4, <1>5 DEF EnoughAnswers, count, fwd_cnt
  <1> QED
    BY <1>2, <1>6

LEMMA AllMeansCount ==
  ASSUME ret_list \in [Hosts -> 0..1], \A h \in Hosts : ret_list[h] = 1
  PROVE  EnoughAnswers
  <1> DEFINE f == [h \in Hosts |-> <<h, 1>>]
  <1>1. Entries = {<<h, 1>> : h \in Hosts}
    <2>1. ASSUME NEW h \in Hosts PROVE {<<h, i>> : i \in 1..ret_list[h]} = {<<h, 1>>}
      <3>1. 1..ret_list[h] = {1}
        BY SMT
      <3> QED
        BY <3>1
    <2>2. Entries = UNION {{<<h, 1>>} : h \in Hosts}
      BY SMT, <2>1 DEF Entries
    <2> QED
      BY <2>2
  <1>2. f \in Bijection(Hosts, Entries)
    BY <1>1 DEF Bijection, Injection, IsInjective, Surjection
  <1>3. Cardinality(Entries) = Cardinality(Hosts) /\ Cardinality(Hosts) \in Nat
    BY <1>2, HostsAssumption, FS_Bijection, FS_CardinalityType DEF ExistsBijection
  <1> QED
    BY SMT, <1>3 DEF EnoughAnswers, count, fwd_cnt

\* The split names every host's branch after its first host.
LEMMA BranchHost ==
  ASSUME TypeOK
  PROVE  /\ branch \in [Hosts -> Hosts]
         /\ \A h \in Hosts : branch[h] \in Hosts /\ branch[branch[h]] = branch[h]
  BY DEF TypeOK, Splits

LEMMA InitFwdInv == Init => FwdInv
  <1> SUFFICES ASSUME Init PROVE FwdInv
    OBVIOUS
  <1>1. TypeOK
    BY SMT DEF Init, TypeOK
  <1>2. Waiting /\ Listed /\ Asked /\ Accounted /\ Busy /\ WaiterInv /\ WaiterWakes
    BY HostsAssumption
    DEF Init, Waiting, Listed, Asked, Asking, Accounted, Busy, WaiterInv, WaiterWakes
  <1> QED
    BY <1>1, <1>2 DEF FwdInv
-----------------------------------------------------------------------------
(* forward_msg and forward_wait                                              *)

LEMMA ForwardInv ==
  ASSUME FwdInv, NEW b \in Hosts, forward_msg(b)
  PROVE  FwdInv'
  <1> USE DEF FwdInv
  <1>0. /\ branch[b] = b /\ b \notin started /\ waiter = "forward" /\ waiter' = "forward"
        /\ branch' = branch /\ thr[b] = "none"
    BY SMT, BranchHost DEF forward_msg, Waiting
  <1>1. TypeOK'
    BY HostsAssumption DEF forward_msg, TypeOK
  <1>2. Waiting'
    BY <1>0 DEF forward_msg, TypeOK, Waiting
  <1>3. Listed'
    BY SMT, <1>0, HostsAssumption DEF forward_msg, TypeOK, Waiting, Listed
  <1>4. Asked'
    BY SMT, <1>0, HostsAssumption DEF forward_msg, TypeOK, Waiting, Asked, Asking
  <1>5. Accounted'
    BY <1>0, HostsAssumption DEF forward_msg, TypeOK, Accounted, Asking
  <1>6. Busy'
    BY SMT, <1>0, HostsAssumption DEF forward_msg, TypeOK, Waiting, Busy
  <1>7. WaiterInv' /\ WaiterWakes'
    BY <1>0 DEF WaiterInv, WaiterWakes
  <1> QED
    BY <1>1, <1>2, <1>3, <1>4, <1>5, <1>6, <1>7

LEMMA WaitInv ==
  ASSUME FwdInv, forwarded \/ forward_wait
  PROVE  FwdInv'
  <1> USE DEF FwdInv
  <1>0. /\ UNCHANGED <<msg_type, branch, started, thr, hl, name, ret_list>>
        /\ waiter' \in {"check", "asleep", "destroyed"}
        /\ \A h \in Hosts : branch[h] \in started
    BY DEF forwarded, forward_wait, WaiterInv
  <1>1. TypeOK' /\ Waiting' /\ Listed' /\ Asked' /\ Accounted' /\ Busy'
    BY SMT, <1>0 DEF TypeOK, Waiting, Listed, Asked, Asking, Accounted, Busy
  <1>2. WaiterInv'
    <2>1. waiter' = "destroyed" => EnoughAnswers
      BY DEF forwarded, forward_wait
    <2>2. waiter' = "destroyed" => \A h \in Hosts : ret_list[h] = 1
      BY <2>1, CountMeansAll DEF TypeOK
    <2> QED
      BY <1>0, <2>2 DEF WaiterInv
  <1>3. WaiterWakes'
    <2> SUFFICES ASSUME waiter' = "asleep" PROVE \E t \in Hosts : Live(t)
      BY <1>0 DEF WaiterWakes, Live
    <2>1. ~EnoughAnswers
      BY DEF forwarded, forward_wait
    <2>2. PICK h \in Hosts : ret_list[h] # 1
      BY <2>1, AllMeansCount DEF TypeOK
    <2>3. CASE hl[h] = NoThread
      BY <1>0, <2>2, <2>3 DEF Accounted, Asking, Live
    <2>4. CASE hl[h] \in Hosts
      BY <2>4 DEF Listed, Live
    <2> QED
      BY <2>3, <2>4 DEF TypeOK
  <1> QED
    BY <1>1, <1>2, <1>3
-----------------------------------------------------------------------------
(* _forward_thread                                                           *)

\* A thread with a host to shift, to ask or to list is not outlived by the wait.
LEMMA NotDestroyed ==
  ASSUME FwdInv, NEW t \in Hosts, Asking(t) \/ thr[t] = "loop" \/ Left(t) # {}
  PROVE  /\ waiter # "destroyed"
         /\ Signalled \in {"forward", "check"}
         /\ Signalled = "forward" <=> waiter = "forward"
  <1>1. \E h \in Hosts : ret_list[h] # 1
    BY SMT DEF FwdInv, Asked, Busy, Listed, Left
  <1>2. waiter # "destroyed"
    BY <1>1 DEF FwdInv, WaiterInv
  <1> QED
    BY <1>2 DEF FwdInv, TypeOK, Signalled

\* What a step of a thread leaves of the waiter's invariant.
LEMMA WaiterKept ==
  ASSUME FwdInv, UNCHANGED <<branch, started>>,
         NEW t \in Hosts, Asking(t) \/ thr[t] = "loop" \/ Left(t) # {},
         \/ waiter' = waiter /\ Live(t)'
         \/ waiter' = Signalled
  PROVE  waiter' \in {"forward", "check", "asleep", "destroyed"} /\ WaiterInv' /\ WaiterWakes'
  BY NotDestroyed DEF FwdInv, TypeOK, WaiterInv, WaiterWakes

LEMMA ShiftInv ==
  ASSUME FwdInv, NEW t \in Hosts, NEW n \in Hosts, fwd_shift(t, n)
  PROVE  FwdInv'
  <1> USE DEF FwdInv
  <1>0. /\ thr[t] = "loop" /\ hl[n] = t /\ ret_list[n] = 0
        /\ n # t => thr[n] = "none" /\ hl[t] # t
        /\ UNCHANGED <<msg_type, branch, started>>
        /\ hl' = [hl EXCEPT ![n] = NoThread] /\ name' = [name EXCEPT ![t] = n]
        /\ branch[n] \in started
    BY SMT, HostsAssumption DEF fwd_shift, Left, Listed, Waiting
  <1>1. CASE Fail(t, n, Left(t) \ {n}, "loop")
    <2>0. /\ ret_list' = [ret_list EXCEPT ![n] = 1]
          /\ \/ /\ thr' = thr /\ waiter' = waiter
                /\ \E h \in Hosts : hl'[h] = t
             \/ /\ thr' = [thr EXCEPT ![t] = "gone"] /\ waiter' = Signalled
                /\ \A h \in Hosts : hl'[h] # t
      <3>1. ret_list' = [ret_list EXCEPT ![n] = 1]
        <4>1. ret_list' = [h \in Hosts |-> IF h \in {n} THEN ret_list[h] + 1 ELSE ret_list[h]]
          BY <1>1 DEF Fail, Add
        <4>2. ret_list' = [h \in Hosts |-> IF h = n THEN 1 ELSE ret_list[h]]
          BY SMT, <1>0, <4>1
        <4> QED
          BY <4>2 DEF TypeOK
      <3>2. [thr EXCEPT ![t] = "loop"] = thr
        BY <1>0 DEF TypeOK
      <3>3. \A h \in Hosts : hl'[h] = t <=> h \in Left(t) \ {n}
        BY <1>0, HostsAssumption DEF Left, TypeOK
      <3> QED
        BY <1>1, <3>1, <3>2, <3>3 DEF Fail, Left
    <2>1. WaiterInv' /\ WaiterWakes' /\ waiter' \in {"forward", "check", "asleep", "destroyed"}
      BY <1>0, <2>0, WaiterKept DEF Live
    <2>2. TypeOK'
      BY SMT, <1>0, <2>0, <2>1 DEF TypeOK
    <2>3. Waiting'
      BY SMT, <1>0, <2>0 DEF TypeOK, Waiting
    <2>4. Listed'
      BY SMT, <1>0, <2>0, HostsAssumption DEF TypeOK, Listed
    <2>5. Asked'
      BY SMT, <1>0, <2>0, HostsAssumption DEF TypeOK, Asked, Asking
    <2>6. Accounted'
      BY SMT, <1>0, <2>0 DEF TypeOK, Accounted, Asking
    <2>7. Busy'
      BY SMT, <1>0, <2>0 DEF TypeOK, Busy
    <2> QED
      BY <2>1, <2>2, <2>3, <2>4, <2>5, <2>6, <2>7
  <1>2. CASE thr' = [thr EXCEPT ![t] = "open"] /\ UNCHANGED <<waiter, ret_list>>
    <2>1. WaiterInv' /\ WaiterWakes'
      BY <1>0, <1>2, WaiterKept DEF Live, TypeOK
    <2>2. TypeOK'
      BY <1>0, <1>2 DEF TypeOK
    <2>3. Waiting'
      BY <1>0, <1>2 DEF TypeOK, Waiting
    <2>4. Listed'
      BY SMT, <1>0, <1>2, HostsAssumption DEF TypeOK, Listed
    <2>5. Asked'
      BY SMT, <1>0, <1>2, HostsAssumption DEF TypeOK, Asked, Asking
    <2>6. Accounted'
      BY SMT, <1>0, <1>2 DEF TypeOK, Accounted, Asking
    <2>7. Busy'
      BY <1>0, <1>2 DEF TypeOK, Busy
    <2> QED
      BY <2>1, <2>2, <2>3, <2>4, <2>5, <2>6, <2>7
  <1> QED
    BY <1>1, <1>2 DEF fwd_shift

\* A thread lists the host it asked and the hosts of L, all from its own list, and keeps
\* the others only if it goes on: fwd_send_failed, fwd_sent, fwd_no_answer, fwd_merge.
LEMMA ListInv ==
  ASSUME FwdInv, NEW t \in Hosts, Asking(t), NEW L \in SUBSET Left(t), NEW next,
         next \in {"loop", "spawn", "gone"},
         next \in {"loop", "spawn"} => Left(t) \ L # {},
         next = "gone" => L = Left(t),
         ret_list' = Add(ret_list, L \cup {name[t]}),
         hl' = [h \in Hosts |-> IF h \in L THEN NoThread ELSE hl[h]],
         thr' = [thr EXCEPT ![t] = next],
         waiter' = IF next = "gone" THEN Signalled ELSE waiter,
         UNCHANGED <<msg_type, branch, started, name>>
  PROVE  FwdInv'
  <1> USE DEF FwdInv
  <1>0. /\ name[t] \in Hosts /\ hl[name[t]] = NoThread /\ name[t] \notin L
        /\ \A h \in L : h \in Hosts /\ hl[h] = t /\ ret_list[h] = 0 /\ h # t
        /\ ret_list[name[t]] = 0 /\ branch[name[t]] \in started
        /\ \A h \in L : branch[h] \in started
    BY SMT, HostsAssumption DEF Asked, Asking, Left, Listed, Waiting
  <1>1. \A h \in Hosts : ret_list'[h] = IF h \in L \cup {name[t]} THEN 1 ELSE ret_list[h]
    BY SMT, <1>0 DEF Add, TypeOK
  <1>2. WaiterInv' /\ WaiterWakes' /\ waiter' \in {"forward", "check", "asleep", "destroyed"}
    BY WaiterKept DEF Live, TypeOK
  <1>3. TypeOK'
    <2>1. ret_list' \in [Hosts -> 0..1]
      BY SMT, <1>1 DEF Add, TypeOK
    <2> QED
      BY <1>2, <2>1 DEF TypeOK
  <1>4. Waiting'
    <2> SUFFICES ASSUME NEW h \in Hosts, branch[h] \notin started
                 PROVE  hl'[h] = NoThread /\ ret_list'[h] = 0 /\ thr'[h] = "none"
      BY DEF Waiting
    <2>1. hl[h] = NoThread /\ ret_list[h] = 0 /\ thr[h] = "none"
      BY DEF Waiting
    <2>2. h \notin L /\ h # name[t]
      BY <1>0
    <2>3. h # t
      BY <2>1 DEF Asking
    <2> QED
      BY <1>1, <2>1, <2>2, <2>3 DEF TypeOK
  <1>5. Listed'
    <2> SUFFICES ASSUME NEW h \in Hosts, NEW u \in Hosts, hl'[h] = u
                 PROVE  /\ thr'[u] \in {"loop", "open", "recv", "merge", "spawn"}
                        /\ ret_list'[h] = 0
                        /\ h # u => thr'[h] = "none"
                        /\ h = u => thr'[u] = "loop"
      BY DEF Listed
    <2>1. hl[h] = u /\ h \notin L /\ h # name[t]
      BY <1>0, HostsAssumption DEF TypeOK
    <2>2. /\ thr[u] \in {"loop", "open", "recv", "merge", "spawn"}
          /\ ret_list'[h] = 0
          /\ h # u => thr[h] = "none"
          /\ h = u => thr[u] = "loop"
      BY <1>1, <2>1 DEF Listed
    <2>3. h # t
      BY <2>2 DEF Asking
    <2>4. u = t => next # "gone"
      BY <2>1 DEF Left
    <2> QED
      BY <2>2, <2>3, <2>4 DEF TypeOK, Asking
  <1>6. Asked'
    BY SMT, <1>0, <1>1, HostsAssumption DEF TypeOK, Asked, Asking
  <1>7. Accounted'
    <2> SUFFICES ASSUME NEW h \in Hosts, branch[h] \in started, hl'[h] = NoThread
                 PROVE  ret_list'[h] = 1 \/ \E u \in Hosts : Asking(u)' /\ name[u] = h
      BY DEF Accounted
    <2>1. CASE h \in L \cup {name[t]}
      BY <1>1, <2>1
    <2>2. CASE h \notin L \cup {name[t]}
      <3>1. ret_list[h] = 1 \/ \E u \in Hosts : Asking(u) /\ name[u] = h
        BY <2>2 DEF Accounted
      <3>2. \A u \in Hosts : Asking(u) /\ u # t => Asking(u)'
        BY DEF Asking, TypeOK
      <3> QED
        BY <1>1, <2>2, <3>1, <3>2
    <2> QED
      BY <2>1, <2>2
  <1>8. Busy'
    BY SMT, <1>0, HostsAssumption DEF TypeOK, Busy, Left, Asking
  <1> QED
    BY <1>2, <1>3, <1>4, <1>5, <1>6, <1>7, <1>8

LEMMA ListerInv ==
  ASSUME FwdInv, NEW t \in Hosts,
         fwd_send_failed(t) \/ fwd_sent(t) \/ fwd_no_answer(t) \/ fwd_merge(t)
  PROVE  FwdInv'
  <1>1. CASE fwd_send_failed(t)
    <2>1. hl' = [h \in Hosts |-> IF h \in {} THEN NoThread ELSE hl[h]]
      BY <1>1 DEF fwd_send_failed, FwdInv, TypeOK
    <2>2. {} \cup {name[t]} = {name[t]} /\ {} \in SUBSET Left(t)
      OBVIOUS
    <2>3. Asking(t)
      BY <1>1 DEF fwd_send_failed, Asking
    <2>4. CASE Left(t) # {}
      BY <1>1, <2>1, <2>2, <2>3, <2>4, ListInv DEF fwd_send_failed, Fail
    <2>5. CASE Left(t) = {}
      BY <1>1, <2>1, <2>2, <2>3, <2>5, ListInv DEF fwd_send_failed, Fail
    <2> QED
      BY <2>4, <2>5
  <1>2. CASE fwd_no_answer(t)
    <2>1. hl' = [h \in Hosts |-> IF h \in {} THEN NoThread ELSE hl[h]]
      BY <1>2 DEF fwd_no_answer, FwdInv, TypeOK
    <2>2. {} \cup {name[t]} = {name[t]} /\ {} \in SUBSET Left(t)
      OBVIOUS
    <2>3. Asking(t)
      BY <1>2 DEF fwd_no_answer, Asking
    <2>4. CASE Left(t) # {}
      BY <1>2, <2>1, <2>2, <2>3, <2>4, ListInv DEF fwd_no_answer, Fail
    <2>5. CASE Left(t) = {}
      BY <1>2, <2>1, <2>2, <2>3, <2>5, ListInv DEF fwd_no_answer, Fail
    <2> QED
      BY <2>4, <2>5
  <1>3. CASE fwd_merge(t)
    <2>1. hl' = [h \in Hosts |-> IF h \in Left(t) THEN NoThread ELSE hl[h]]
      BY <1>3 DEF fwd_merge, Left
    <2> QED
      BY <1>3, <2>1, ListInv DEF fwd_merge, Asking
  <1>4. CASE fwd_sent(t) /\ msg_type = "quiet"
    <2>1. hl' = [h \in Hosts |-> IF h \in Left(t) THEN NoThread ELSE hl[h]]
      BY <1>4 DEF fwd_sent, Left
    <2> QED
      BY <1>4, <2>1, ListInv DEF fwd_sent, Asking
  <1>5. CASE fwd_sent(t) /\ msg_type # "quiet"
    <2>0. /\ UNCHANGED <<msg_type, branch, started, name, ret_list, hl, waiter>>
          /\ thr[t] = "open" /\ thr' = [thr EXCEPT ![t] = "recv"]
      BY <1>5 DEF fwd_sent
    <2> USE DEF FwdInv
    <2>1. \A u \in Hosts : (Asking(u)' <=> Asking(u)) /\ (Live(u)' <=> Live(u))
      BY <2>0 DEF Asking, Live, TypeOK
    <2>2. TypeOK' /\ Waiting' /\ Listed' /\ Busy'
      BY SMT, <2>0 DEF TypeOK, Waiting, Listed, Busy
    <2>3. Asked' /\ Accounted'
      BY <2>0, <2>1 DEF Asked, Accounted
    <2>4. WaiterInv' /\ WaiterWakes'
      BY <2>0, <2>1 DEF WaiterInv, WaiterWakes
    <2> QED
      BY <2>2, <2>3, <2>4
  <1> QED
    BY <1>1, <1>2, <1>3, <1>4, <1>5

\* The missing hosts are listed, the others stay with the thread.
LEMMA AnsweredInv ==
  ASSUME FwdInv, NEW t \in Hosts, NEW got, fwd_answered(t, got)
  PROVE  FwdInv'
  <1> USE DEF FwdInv
  <1>0. /\ UNCHANGED <<msg_type, branch, started, waiter, name>>
        /\ thr[t] = "recv" /\ thr' = [thr EXCEPT ![t] = "merge"]
        /\ ret_list' = Add(ret_list, Left(t) \ got)
        /\ hl' = [h \in Hosts |-> IF h \in Left(t) \ got THEN NoThread ELSE hl[h]]
    BY DEF fwd_answered, Left
  <1>1. \A h \in Left(t) \ got : h \in Hosts /\ hl[h] = t /\ ret_list[h] = 0
    BY DEF Left, Listed
  <1>2. \A h \in Hosts : ret_list'[h] = IF h \in Left(t) \ got THEN 1 ELSE ret_list[h]
    BY SMT, <1>0, <1>1 DEF Add
  <1>3. TypeOK'
    <2>1. ret_list' \in [Hosts -> 0..1]
      BY SMT, <1>0, <1>2 DEF Add, TypeOK
    <2> QED
      BY <1>0, <2>1 DEF TypeOK
  <1>4. \A u \in Hosts : Asking(u)' <=> Asking(u)
    BY <1>0 DEF Asking, TypeOK
  <1>5. WaiterInv' /\ WaiterWakes'
    BY <1>0, WaiterKept DEF Asking, Live, TypeOK
  <1>a. \A h \in Hosts : hl'[h] = IF h \in Left(t) \ got THEN NoThread ELSE hl[h]
    BY <1>0
  <1>b. \A h \in Hosts : thr'[h] = IF h = t THEN "merge" ELSE thr[h]
    BY <1>0 DEF TypeOK
  <1>6. Waiting'
    <2>1. ASSUME NEW h \in Hosts, branch[h] \notin started
          PROVE  hl'[h] = NoThread /\ ret_list'[h] = 0 /\ thr'[h] = "none"
      <3>1. hl[h] = NoThread /\ ret_list[h] = 0 /\ thr[h] = "none"
        BY <2>1 DEF Waiting
      <3>2. h \notin Left(t) \ got /\ h # t
        BY <1>0, <1>1, <3>1, HostsAssumption
      <3> QED
        BY <1>2, <1>a, <1>b, <3>1, <3>2
    <2> QED
      BY <1>0, <2>1 DEF Waiting
  <1>7. Listed'
    <2> SUFFICES ASSUME NEW h \in Hosts, NEW u \in Hosts, hl'[h] = u
                 PROVE  /\ thr'[u] \in {"loop", "open", "recv", "merge", "spawn"}
                        /\ ret_list'[h] = 0
                        /\ h # u => thr'[h] = "none"
                        /\ h = u => thr'[u] = "loop"
      BY DEF Listed
    <2>1. h \notin Left(t) \ got /\ hl[h] = u
      BY <1>a, HostsAssumption
    <2>2. /\ thr[u] \in {"loop", "open", "recv", "merge", "spawn"}
          /\ ret_list[h] = 0
          /\ h # u => thr[h] = "none"
          /\ h = u => thr[u] = "loop"
      BY <2>1 DEF Listed
    <2> QED
      BY <1>0, <1>2, <1>b, <2>1, <2>2
  <1>8. Asked'
    <2>1. \A u \in Hosts : Asking(u) => name[u] \in Hosts /\ name[u] \notin Left(t) \ got
      BY <1>1, HostsAssumption DEF Asked
    <2>2. \A u \in Hosts : Asking(u) =>
             ret_list'[name[u]] = ret_list[name[u]] /\ hl'[name[u]] = hl[name[u]]
      BY <1>0, <1>2, <2>1
    <2> QED
      BY <1>0, <1>4, <2>1, <2>2 DEF Asked
  <1>9. Accounted'
    BY <1>0, <1>2, <1>4 DEF Accounted
  <1>10. Busy'
    BY SMT, <1>0, <1>1 DEF Busy, TypeOK
  <1> QED
    BY <1>3, <1>5, <1>6, <1>7, <1>8, <1>9, <1>10

LEMMA SpawnInv ==
  ASSUME FwdInv, NEW t \in Hosts, NEW n \in Hosts, fwd_spawn(t, n)
  PROVE  FwdInv'
  <1> USE DEF FwdInv
  <1>0. /\ UNCHANGED <<msg_type, branch, started, waiter, name, ret_list>>
        /\ thr[t] = "spawn" /\ hl[n] = t /\ n # t /\ thr[n] = "none" /\ branch[n] \in started
        /\ thr' = [thr EXCEPT ![n] = "loop"] /\ hl' = [hl EXCEPT ![n] = n]
    BY SMT, HostsAssumption DEF fwd_spawn, Left, Listed, Waiting
  <1>1. \A u \in Hosts : Asking(u)' <=> Asking(u)
    BY <1>0 DEF Asking, TypeOK
  <1>2. TypeOK'
    BY <1>0 DEF TypeOK
  <1>3. WaiterInv' /\ WaiterWakes'
    BY <1>0, WaiterKept DEF Left, Live, TypeOK
  <1>4. Waiting'
    BY <1>0 DEF Waiting, TypeOK
  <1>5. Listed'
    BY SMT, <1>0 DEF Listed, TypeOK
  <1>6. Asked'
    BY ZenonT(30), <1>0, <1>1, HostsAssumption DEF Asked, TypeOK
  <1>7. Accounted'
    BY <1>0, <1>1, HostsAssumption DEF Accounted, TypeOK
  <1>8. Busy'
    BY <1>0 DEF Busy, TypeOK
  <1> QED
    BY <1>2, <1>3, <1>4, <1>5, <1>6, <1>7, <1>8

LEMMA EndInv ==
  ASSUME FwdInv, NEW t \in Hosts, fwd_spawned(t) \/ fwd_end(t)
  PROVE  FwdInv'
  <1> USE DEF FwdInv
  <1>0. /\ UNCHANGED <<msg_type, branch, started, hl, name, ret_list>>
        /\ \A h \in Hosts : hl[h] # t
        /\ \/ thr[t] = "spawn" /\ thr' = [thr EXCEPT ![t] = "end"] /\ waiter' = waiter
           \/ thr[t] = "end" /\ thr' = [thr EXCEPT ![t] = "gone"] /\ waiter' = Signalled
    BY DEF fwd_spawned, fwd_end, Left, Listed
  <1>1. \A u \in Hosts : Asking(u)' <=> Asking(u)
    BY <1>0 DEF Asking, TypeOK
  <1>2. TypeOK' /\ WaiterInv' /\ WaiterWakes'
    BY <1>0 DEF TypeOK, Signalled, WaiterInv, WaiterWakes, Live
  <1>3. Waiting' /\ Busy'
    BY SMT, <1>0 DEF Waiting, Busy, TypeOK
  <1>4. Listed'
    BY SMT, <1>0 DEF Listed, TypeOK
  <1>5. Asked' /\ Accounted'
    BY <1>0, <1>1 DEF Asked, Accounted
  <1> QED
    BY <1>2, <1>3, <1>4, <1>5
-----------------------------------------------------------------------------
LEMMA StepInv ==
  ASSUME FwdInv, NEW t \in Hosts, Step(t)
  PROVE  FwdInv'
  <1>1. CASE \E n \in Left(t) : fwd_shift(t, n) \/ fwd_spawn(t, n)
    BY <1>1, ShiftInv, SpawnInv DEF Left
  <1>2. CASE fwd_send_failed(t) \/ fwd_sent(t) \/ fwd_no_answer(t) \/ fwd_merge(t)
    BY <1>2, ListerInv
  <1>3. CASE \E got \in SUBSET Left(t) : fwd_answered(t, got)
    BY <1>3, AnsweredInv
  <1>4. CASE fwd_spawned(t) \/ fwd_end(t)
    BY <1>4, EndInv
  <1> QED
    BY <1>1, <1>2, <1>3, <1>4 DEF Step

\* The node keeps its inductive invariant, over every split and every failure.
THEOREM FwdInvariant == Spec => []FwdInv
  <1>1. Init => FwdInv
    BY InitFwdInv
  <1>2. FwdInv /\ [Next]_vars => FwdInv'
    <2> SUFFICES ASSUME FwdInv, [Next]_vars PROVE FwdInv'
      OBVIOUS
    <2>1. CASE \E b \in Hosts : forward_msg(b)
      BY <2>1, ForwardInv
    <2>2. CASE forwarded \/ forward_wait
      BY <2>2, WaitInv
    <2>3. CASE \E t \in Hosts : Step(t)
      BY <2>3, StepInv
    <2>4. CASE UNCHANGED vars
      BY SMT, <2>4
      DEF vars, FwdInv, TypeOK, Waiting, Listed, Asked, Asking, Accounted, Busy, WaiterInv,
          WaiterWakes, Live
    <2> QED
      BY <2>1, <2>2, <2>3, <2>4 DEF Next
  <1> QED
    BY <1>1, <1>2, PTL DEF Spec

\* Type correctness, with it that no host is ever listed twice.
THEOREM FwdType == Spec => []TypeOK
  <1>1. FwdInv => TypeOK
    BY DEF FwdInv
  <1> QED
    BY <1>1, FwdInvariant, PTL

\* forward_wait counts entries, and that is enough: when it returns every host has exactly
\* one, for any number of hosts.
THEOREM FwdListed == Spec => []AllListedOnce
  <1>1. FwdInv => AllListedOnce
    BY DEF FwdInv, WaiterInv, AllListedOnce
  <1> QED
    BY <1>1, FwdInvariant, PTL

\* forward_wait frees the forward_struct under no thread that still has a host to list.
THEOREM FwdListers == Spec => []ListersLive
  <1>1. FwdInv => ListersLive
    <2> SUFFICES ASSUME FwdInv, waiter = "destroyed", NEW t \in Hosts
                 PROVE  thr[t] \notin {"loop", "open", "recv", "merge"}
      BY DEF ListersLive
    <2> QED
      BY NotDestroyed DEF Asking
  <1> QED
    BY <1>1, FwdInvariant, PTL

\* No wakeup of forward_wait is lost: it sleeps only while a thread is left to signal.
THEOREM FwdWakes == Spec => []WaiterWakes
  <1>1. FwdInv => WaiterWakes
    BY DEF FwdInv
  <1> QED
    BY <1>1, FwdInvariant, PTL
-----------------------------------------------------------------------------
(* Refinement of Broadcast                                                   *)

LEMMA ListingPromised ==
  ASSUME FwdInv, waiter # "destroyed", waiter' # "destroyed", NEW S \in SUBSET Hosts,
         \A h \in S : ret_list[h] = 0, ret_list' = Add(ret_list, S)
  PROVE  [Promise!Next]_(Promise!vars)
  <1> DEFINE Answered == {h \in Hosts : ret_list[h] = 1}
             Returned == waiter = "destroyed"
  <1>1. Answered' = Answered \cup S /\ S \cap Answered = {}
    BY SMT DEF FwdInv, TypeOK, Add
  <1>2. Returned = FALSE /\ Returned' = FALSE
    OBVIOUS
  <1>3. Promise!Answer(S)
    BY <1>1, <1>2 DEF Promise!Answer
  <1> QED
    BY <1>3 DEF Promise!Next

LEMMA SilentPromised ==
  ASSUME UNCHANGED ret_list, waiter' = "destroyed" <=> waiter = "destroyed"
  PROVE  [Promise!Next]_(Promise!vars)
  <1>1. (waiter = "destroyed")' = (waiter = "destroyed")
    OBVIOUS
  <1> QED
    BY <1>1 DEF Promise!vars

LEMMA StepPromised ==
  ASSUME FwdInv, NEW t \in Hosts, Step(t)
  PROVE  [Promise!Next]_(Promise!vars)
  <1>1. CASE Asking(t) \/ thr[t] = "loop"
    <2>1. waiter # "destroyed" /\ waiter' # "destroyed"
      BY <1>1, NotDestroyed
      DEF Step, fwd_shift, fwd_spawn, fwd_send_failed, fwd_sent, fwd_no_answer, fwd_answered,
          fwd_merge, fwd_spawned, fwd_end, Fail
    <2> DEFINE Lists(S) == /\ \A h \in S : ret_list[h] = 0
                           /\ ret_list' = Add(ret_list, S)
    <2>2. ASSUME UNCHANGED ret_list PROVE Lists({})
      BY <2>2 DEF FwdInv, TypeOK, Add
    <2>3. ASSUME NEW n \in Left(t), fwd_shift(t, n) PROVE Lists({}) \/ Lists({n})
      BY <2>2, <2>3 DEF fwd_shift, Fail, FwdInv, Listed, Left
    <2>4. ASSUME fwd_send_failed(t) \/ fwd_no_answer(t)
          PROVE  Lists({name[t]}) /\ name[t] \in Hosts
      BY <2>4 DEF fwd_send_failed, fwd_no_answer, Fail, FwdInv, Asked, Asking
    <2>5. ASSUME fwd_merge(t) \/ (fwd_sent(t) /\ msg_type = "quiet")
          PROVE  Lists(Left(t) \cup {name[t]}) /\ name[t] \in Hosts
      BY <2>5 DEF fwd_merge, fwd_sent, FwdInv, Asked, Asking, Listed, Left
    <2>6. ASSUME NEW got \in SUBSET Left(t), fwd_answered(t, got)
          PROVE  Lists(Left(t) \ got)
      BY <2>6 DEF fwd_answered, FwdInv, Listed, Left
    <2>7. ASSUME \/ \E n \in Left(t) : fwd_spawn(t, n)
                 \/ fwd_spawned(t) \/ fwd_end(t)
                 \/ fwd_sent(t) /\ msg_type # "quiet"
          PROVE  UNCHANGED ret_list
      BY <2>7 DEF fwd_spawn, fwd_spawned, fwd_end, fwd_sent
    <2>8. Left(t) \subseteq Hosts
      BY DEF Left
    <2> HIDE DEF Lists
    <2>9. \E S \in SUBSET Hosts : Lists(S)
      <3>1. \/ \E n \in Left(t) : fwd_shift(t, n)
            \/ fwd_send_failed(t) \/ fwd_no_answer(t)
            \/ fwd_merge(t) \/ (fwd_sent(t) /\ msg_type = "quiet")
            \/ \E got \in SUBSET Left(t) : fwd_answered(t, got)
            \/ UNCHANGED ret_list
        BY <2>7 DEF Step
      <3> QED
        BY <2>2, <2>3, <2>4, <2>5, <2>6, <2>8, <3>1
    <2> QED
      BY <2>1, <2>9, ListingPromised DEF Lists
  <1>2. CASE ~(Asking(t) \/ thr[t] = "loop")
    <2>1. UNCHANGED ret_list /\ (waiter' = "destroyed" <=> waiter = "destroyed")
      BY <1>2
      DEF Step, fwd_shift, fwd_spawn, fwd_send_failed, fwd_sent, fwd_no_answer, fwd_answered,
          fwd_merge, fwd_spawned, fwd_end, Asking, Signalled
    <2> QED
      BY <2>1, SilentPromised
  <1> QED
    BY <1>1, <1>2

LEMMA WaitPromised ==
  ASSUME FwdInv, forward_wait
  PROVE  [Promise!Next]_(Promise!vars)
  <1> DEFINE Answered == {h \in Hosts : ret_list[h] = 1}
             Returned == waiter = "destroyed"
  <1>1. Answered' = Answered /\ Returned = FALSE
    BY DEF forward_wait
  <1>2. CASE EnoughAnswers
    <2>1. Answered = Hosts /\ Returned' = TRUE
      BY <1>2, CountMeansAll DEF FwdInv, TypeOK, forward_wait
    <2> QED
      BY <1>1, <2>1 DEF Promise!Next, Promise!Return
  <1>3. CASE ~EnoughAnswers
    BY <1>3, SilentPromised DEF forward_wait
  <1> QED
    BY <1>2, <1>3

\* forward_msg and forward_wait keep the promise of Broadcast for any number of hosts, any
\* split into branches and any order of failures.
THEOREM ForwardRefines == Spec => ForwardKeepsPromise
  <1>1. Init => Promise!Init
    BY SMT DEF Init, Promise!Init
  <1>2. FwdInv /\ [Next]_vars => [Promise!Next]_(Promise!vars)
    <2> SUFFICES ASSUME FwdInv, [Next]_vars PROVE [Promise!Next]_(Promise!vars)
      OBVIOUS
    <2>1. CASE forwarded \/ (\E b \in Hosts : forward_msg(b)) \/ UNCHANGED vars
      BY <2>1, SilentPromised DEF forwarded, forward_msg, vars
    <2> QED
      BY <2>1, StepPromised, WaitPromised DEF Next
  <1> QED
    BY <1>1, <1>2, FwdInvariant, PTL DEF Spec, ForwardKeepsPromise, Promise!Spec
-----------------------------------------------------------------------------
(* The aggregation of messages                                               *)

\* The entries of msg_aggr_list are those of the waiting threads.
AggrWaiters ==
    /\ \A i \in DOMAIN msg_aggr_list :
         /\ adder[msg_aggr_list[i].who] = "waiting"
         /\ msg_aggr_list[i].index = index[msg_aggr_list[i].who]
    /\ \A a \in Adders : adder[a] = "waiting" =>
         \E i \in DOMAIN msg_aggr_list : msg_aggr_list[i].who = a

\* No two of them have the same index, nor has one the index of a thread that was answered
\* and has not come back, which may still take the entry with its index off.
AggrApart ==
    /\ \A i, j \in DOMAIN msg_aggr_list :
         msg_aggr_list[i].index = msg_aggr_list[j].index => i = j
    /\ \A i \in DOMAIN msg_aggr_list, a \in Adders :
         adder[a] = "answered" => index[a] # msg_aggr_list[i].index

AggrInv ==
    /\ AggrTypeOK
    /\ ~ clash => AggrWaiters /\ AggrApart

LEMMA AggrType ==
  ASSUME AggrInv
  PROVE  /\ msg_aggr_list \in Seq(Entry)
         /\ \A i \in DOMAIN msg_aggr_list : /\ msg_aggr_list[i].who \in Adders
                                          /\ msg_aggr_list[i].index \in 0..(IndexMod - 1)
         /\ index \in [Adders -> 0..(IndexMod - 1)] /\ adder \in [Adders -> Adder]
  <1>1. /\ msg_aggr_list \in Seq(Entry) /\ index \in [Adders -> 0..(IndexMod - 1)]
        /\ adder \in [Adders -> Adder]
    BY DEF AggrInv, AggrTypeOK
  <1>2. \A i \in DOMAIN msg_aggr_list : msg_aggr_list[i] \in Entry
    BY SMT, <1>1
  <1>3. \A e \in Entry : e.who \in Adders /\ e.index \in 0..(IndexMod - 1)
    BY DEF Entry
  <1> QED
    BY <1>1, <1>2, <1>3

LEMMA InitAggr == AggrInit => AggrInv
  <1> SUFFICES ASSUME AggrInit PROVE AggrInv
    OBVIOUS
  <1> USE DEF AggrInit
  <1>1. /\ index \in [Adders -> 0..(IndexMod - 1)] /\ msg_index \in 0..(IndexMod - 1)
        /\ adds \in 0..MaxAdds
    BY SMT, AggrAssumption
  <1>2. adder \in [Adders -> Adder] /\ sender \in Sender
    BY DEF Adder, Sender
  <1>3. msg_list \in Seq(Entry) /\ msg_aggr_list \in Seq(Entry)
    BY SMT
  <1>4. AggrTypeOK
    BY <1>1, <1>2, <1>3 DEF AggrTypeOK
  <1>5. AggrWaiters /\ AggrApart
    BY SMT DEF AggrWaiters, AggrApart
  <1> QED
    BY <1>4, <1>5 DEF AggrInv

\* Steps that leave msg_aggr_list alone and the threads that wait too: a thread that was
\* answered may come back, and one that has nothing to do with the list go on.
LEMMA AggrQuiet ==
  ASSUME AggrInv, msg_aggr_list' = msg_aggr_list, clash' = clash,
         \A a \in Adders :
            \/ adder'[a] = adder[a] /\ index'[a] = index[a]
            \/ adder[a] # "waiting" /\ adder'[a] \notin {"waiting", "answered"}
  PROVE  ~ clash' => AggrWaiters' /\ AggrApart'
  <1> SUFFICES ASSUME ~ clash PROVE AggrWaiters' /\ AggrApart'
    OBVIOUS
  <1>1. AggrWaiters /\ AggrApart
    BY DEF AggrInv
  <1>2. \A i \in DOMAIN msg_aggr_list : msg_aggr_list[i].who \in Adders
    BY AggrType
  <1>3. AggrWaiters'
    BY <1>1, <1>2 DEF AggrWaiters
  <1>4. AggrApart'
    BY <1>1, <1>2 DEF AggrApart
  <1> QED
    BY <1>3, <1>4

LEMMA AggrSignal ==
  ASSUME AggrTypeOK, NEW adr \in [Adders -> Adder], signal(adr)
  PROVE  /\ adder' \in [Adders -> Adder] /\ sender' \in Sender
         /\ \A a \in Adders : \/ adder'[a] = adr[a]
                              \/ adr[a] = "blocked" /\ adder'[a] = "woken"
  <1>1. sender' \in Sender
    BY DEF signal, AggrTypeOK, Woken, Sender
  <1>2. CASE adder' = adr
    BY <1>1, <1>2
  <1>3. ASSUME NEW b \in {a \in Adders : adr[a] = "blocked"},
               adder' = [adr EXCEPT ![b] = "woken"]
        PROVE  /\ adder' \in [Adders -> Adder]
               /\ \A a \in Adders : \/ adder'[a] = adr[a]
                                    \/ adr[a] = "blocked" /\ adder'[a] = "woken"
    BY <1>3 DEF Adder
  <1> QED
    BY <1>1, <1>2, <1>3 DEF signal

\* While no two entries have the same index, the one that _handle_msg_aggr_ret takes off
\* is the one with the index.
LEMMA AggrHandled ==
  ASSUME AggrInv, ~ clash, NEW i
  PROVE  \A k \in DOMAIN msg_aggr_list :
            k \in Handled(i) <=> (i = 0 \/ msg_aggr_list[k].index = i)
  <1> SUFFICES ASSUME NEW k \in DOMAIN msg_aggr_list, msg_aggr_list[k].index = i,
                      NEW j \in 1..(k - 1)
               PROVE  msg_aggr_list[j].index # i
    BY DEF Handled
  <1>1. AggrApart /\ msg_aggr_list \in Seq(Entry)
    BY AggrType DEF AggrInv
  <1>2. j \in DOMAIN msg_aggr_list /\ j # k
    BY SMT, <1>1
  <1> QED
    BY <1>1, <1>2 DEF AggrApart

LEMMA ListRemove ==
  ASSUME NEW T, NEW s \in Seq(T), NEW k \in DOMAIN s
  PROVE  /\ list_remove(s, k) \in Seq(T)
         /\ DOMAIN list_remove(s, k) = 1..(Len(s) - 1)
         /\ \A n \in 1..(Len(s) - 1) :
               /\ n \in DOMAIN s /\ n + 1 \in DOMAIN s
               /\ list_remove(s, k)[n] = IF n < k THEN s[n] ELSE s[n + 1]
  <1>1. Len(s) \in Nat /\ DOMAIN s = 1..Len(s) /\ k \in 1..Len(s) /\ Len(s) - 1 \in Nat
    BY SMT
  <1>2. \A n \in 1..(Len(s) - 1) : n \in DOMAIN s /\ n + 1 \in DOMAIN s
    BY SMT, <1>1
  <1>3. \A n \in 1..(Len(s) - 1) : (IF n < k THEN s[n] ELSE s[n + 1]) \in T
    BY SMT, <1>2
  <1> QED
    BY SMT, <1>1, <1>2, <1>3 DEF list_remove

\* What it leaves.
LEMMA AggrTaken ==
  ASSUME AggrInv, NEW i, _handle_msg_aggr_ret(i)
  PROVE  /\ msg_aggr_list' \in Seq(Entry)
         /\ \A n \in DOMAIN msg_aggr_list' : \E k \in DOMAIN msg_aggr_list :
               k \notin Handled(i) /\ msg_aggr_list'[n] = msg_aggr_list[k]
         /\ \A k \in DOMAIN msg_aggr_list : k \notin Handled(i) =>
               \E n \in DOMAIN msg_aggr_list' : msg_aggr_list'[n] = msg_aggr_list[k]
         /\ ~ clash => \A m, n \in DOMAIN msg_aggr_list' :
               msg_aggr_list'[m].index = msg_aggr_list'[n].index => m = n
  <1>1. /\ msg_aggr_list \in Seq(Entry) /\ Len(msg_aggr_list) \in Nat
        /\ DOMAIN msg_aggr_list = 1..Len(msg_aggr_list)
    BY SMT, AggrType
  <1>2. ~ clash => AggrApart
    BY DEF AggrInv
  <1>3. CASE i = 0 /\ msg_aggr_list' = << >>
    <2>1. \A k \in DOMAIN msg_aggr_list : k \in Handled(i)
      BY <1>3 DEF Handled
    <2>2. msg_aggr_list' \in Seq(Entry) /\ DOMAIN msg_aggr_list' = {}
      BY SMT, <1>3
    <2> QED
      BY <2>1, <2>2
  <1>4. CASE Handled(i) = {} /\ UNCHANGED msg_aggr_list
    BY <1>1, <1>2, <1>4 DEF AggrApart
  <1>5. ASSUME i # 0, NEW h \in Handled(i), msg_aggr_list' = list_remove(msg_aggr_list, h)
        PROVE  /\ msg_aggr_list' \in Seq(Entry)
               /\ \A n \in DOMAIN msg_aggr_list' : \E k \in DOMAIN msg_aggr_list :
                     k \notin Handled(i) /\ msg_aggr_list'[n] = msg_aggr_list[k]
               /\ \A k \in DOMAIN msg_aggr_list : k \notin Handled(i) =>
                     \E n \in DOMAIN msg_aggr_list' : msg_aggr_list'[n] = msg_aggr_list[k]
               /\ ~ clash => \A m, n \in DOMAIN msg_aggr_list' :
                     msg_aggr_list'[m].index = msg_aggr_list'[n].index => m = n
    <2> DEFINE c == Len(msg_aggr_list) - 1
               f == [n \in 1..c |-> IF n < h THEN n ELSE n + 1]
    <2>1. h \in DOMAIN msg_aggr_list /\ h \in Int /\ c \in Nat
      BY SMT, <1>1 DEF Handled
    <2>2. \A k \in DOMAIN msg_aggr_list : k \in Handled(i) <=> k = h
      <3> SUFFICES ASSUME NEW k \in Handled(i) PROVE k = h
        BY <1>5
      <3>1. /\ k \in Int /\ k \in DOMAIN msg_aggr_list
            /\ msg_aggr_list[k].index = i /\ msg_aggr_list[h].index = i
            /\ \A j \in 1..(k - 1) : msg_aggr_list[j].index # i
            /\ \A j \in 1..(h - 1) : msg_aggr_list[j].index # i
        BY SMT, <1>1, <1>5 DEF Handled
      <3>2. h \notin 1..(k - 1) /\ k \notin 1..(h - 1)
        BY <3>1
      <3> QED
        BY SMT, <1>1, <2>1, <3>1, <3>2
    <2>3. /\ msg_aggr_list' \in Seq(Entry) /\ DOMAIN msg_aggr_list' = 1..c
          /\ \A n \in 1..c :
               /\ n \in DOMAIN msg_aggr_list /\ n + 1 \in DOMAIN msg_aggr_list
               /\ msg_aggr_list'[n] = IF n < h THEN msg_aggr_list[n] ELSE msg_aggr_list[n + 1]
      BY <1>1, <1>5, <2>1, ListRemove
    <2>4. \A n \in 1..c : /\ f[n] \in DOMAIN msg_aggr_list /\ f[n] # h
                          /\ msg_aggr_list'[n] = msg_aggr_list[f[n]]
      BY SMT, <2>1, <2>3
    <2>5. \A m, n \in 1..c : f[m] = f[n] => m = n
      BY SMT, <2>1
    <2>6. ASSUME NEW k \in DOMAIN msg_aggr_list, k # h PROVE \E n \in 1..c : f[n] = k
      <3>1. k \in Int /\ k \in 1..(c + 1)
        BY SMT, <1>1
      <3>2. CASE k < h
        <4>1. k \in 1..c /\ f[k] = k
          BY SMT, <1>1, <2>1, <3>1, <3>2
        <4> QED
          BY <4>1
      <3>3. CASE k > h
        <4>1. k - 1 \in 1..c /\ f[k - 1] = k
          BY SMT, <1>1, <2>1, <3>1, <3>3
        <4> QED
          BY <4>1
      <3> QED
        BY SMT, <2>1, <2>6, <3>1, <3>2, <3>3
    <2> HIDE DEF c, f
    <2>7. ~ clash => \A m, n \in 1..c :
             msg_aggr_list'[m].index = msg_aggr_list'[n].index => m = n
      BY SMT, <1>2, <2>4, <2>5 DEF AggrApart
    <2>8. \A n \in 1..c : \E k \in DOMAIN msg_aggr_list :
             k \notin Handled(i) /\ msg_aggr_list'[n] = msg_aggr_list[k]
      BY <2>2, <2>4
    <2>9. \A k \in DOMAIN msg_aggr_list : k \notin Handled(i) =>
             \E n \in 1..c : msg_aggr_list'[n] = msg_aggr_list[k]
      BY SMT, <2>2, <2>4, <2>6
    <2> QED
      BY <2>3, <2>7, <2>8, <2>9
  <1> QED
    BY <1>3, <1>4, <1>5 DEF _handle_msg_aggr_ret

\* An answer, or the end of the daemon, takes entries off and signals their threads.  adr
\* is adder but for a thread that takes all entries off and goes.
LEMMA AggrAnswer ==
  ASSUME AggrInv, NEW i, _handle_msg_aggr_ret(i), NEW adr \in [Adders -> Adder],
         adder' = Notified(adr, Handled(i)),
         \A a \in Adders : adr[a] = adder[a] \/ (i = 0 /\ adr[a] = "idle"),
         index' = index, clash' = clash
  PROVE  /\ adder' \in [Adders -> Adder]
         /\ ~ clash' => AggrWaiters' /\ AggrApart'
  <1> DEFINE hit(a) == \E k \in Handled(i) : msg_aggr_list[k].who = a
  <1>1. \A a \in Adders :
           adder'[a] = IF adr[a] = "waiting" /\ hit(a) THEN "answered" ELSE adr[a]
    BY DEF Notified
  <1>2. adder' \in [Adders -> Adder]
    BY DEF Notified, Adder
  <1> SUFFICES ASSUME ~ clash PROVE AggrWaiters' /\ AggrApart'
    BY <1>2
  <1>3. AggrWaiters /\ AggrApart
    BY DEF AggrInv
  <1>4. \A k \in DOMAIN msg_aggr_list :
            k \in Handled(i) <=> (i = 0 \/ msg_aggr_list[k].index = i)
    BY AggrHandled
  <1>5. Handled(i) \subseteq DOMAIN msg_aggr_list
    BY DEF Handled
  <1>6. /\ \A n \in DOMAIN msg_aggr_list' : \E k \in DOMAIN msg_aggr_list :
               k \notin Handled(i) /\ msg_aggr_list'[n] = msg_aggr_list[k]
        /\ \A k \in DOMAIN msg_aggr_list : k \notin Handled(i) =>
               \E n \in DOMAIN msg_aggr_list' : msg_aggr_list'[n] = msg_aggr_list[k]
        /\ \A m, n \in DOMAIN msg_aggr_list' :
               msg_aggr_list'[m].index = msg_aggr_list'[n].index => m = n
    BY AggrTaken
  <1>7. \A k \in DOMAIN msg_aggr_list : msg_aggr_list[k].who \in Adders
    BY AggrType
  <1>8. ASSUME NEW n \in DOMAIN msg_aggr_list'
        PROVE  /\ adder'[msg_aggr_list'[n].who] = "waiting"
               /\ msg_aggr_list'[n].index = index[msg_aggr_list'[n].who]
    <2>1. PICK k \in DOMAIN msg_aggr_list :
             k \notin Handled(i) /\ msg_aggr_list'[n] = msg_aggr_list[k]
      BY <1>6
    <2> DEFINE w == msg_aggr_list[k].who
    <2>2. i # 0 /\ msg_aggr_list[k].index # i /\ w \in Adders
      BY <1>4, <1>7, <2>1
    <2>3. adder[w] = "waiting" /\ msg_aggr_list[k].index = index[w]
      BY <1>3, <2>1 DEF AggrWaiters
    <2>4. ~ hit(w)
      <3> SUFFICES ASSUME NEW h \in Handled(i), msg_aggr_list[h].who = w PROVE FALSE
        OBVIOUS
      <3>1. msg_aggr_list[h].index = i
        BY <1>4, <1>5, <2>2
      <3>2. msg_aggr_list[h].index = index[w]
        BY SMT, <1>3, <1>5 DEF AggrWaiters
      <3> QED
        BY <2>2, <2>3, <3>1, <3>2
    <2> HIDE DEF w
    <2>5. adr[w] = "waiting"
      BY <2>2, <2>3
    <2>6. adder'[w] = "waiting"
      BY <1>1, <2>2, <2>4, <2>5
    <2> QED
      BY <2>1, <2>3, <2>6 DEF w
  <1>9. ASSUME NEW a \in Adders, adder'[a] = "waiting"
        PROVE  \E n \in DOMAIN msg_aggr_list' : msg_aggr_list'[n].who = a
    <2>1. adr[a] = "waiting" /\ adder[a] = "waiting" /\ ~ hit(a)
      BY <1>1, <1>9
    <2>2. PICK k \in DOMAIN msg_aggr_list : msg_aggr_list[k].who = a
      BY <1>3, <2>1 DEF AggrWaiters
    <2>3. k \notin Handled(i)
      BY <2>1, <2>2
    <2> QED
      BY <1>6, <2>2, <2>3
  <1>10. AggrWaiters'
    BY <1>8, <1>9 DEF AggrWaiters
  <1>11. ASSUME NEW n \in DOMAIN msg_aggr_list', NEW a \in Adders, adder'[a] = "answered"
         PROVE  index[a] # msg_aggr_list'[n].index
    <2>1. PICK k \in DOMAIN msg_aggr_list :
             k \notin Handled(i) /\ msg_aggr_list'[n] = msg_aggr_list[k]
      BY <1>6
    <2>2. i # 0 /\ msg_aggr_list[k].index # i
      BY <1>4, <2>1
    <2>3. CASE adr[a] = "answered"
      <3>1. adder[a] = "answered"
        BY <2>2, <2>3
      <3> QED
        BY <1>3, <2>1, <3>1 DEF AggrApart
    <2>4. CASE adr[a] # "answered"
      <3>1. PICK h \in Handled(i) : msg_aggr_list[h].who = a
        BY <1>1, <1>11, <2>4
      <3>2. msg_aggr_list[h].index = i
        BY <1>4, <1>5, <2>2
      <3>3. msg_aggr_list[h].index = index[a]
        BY <1>3, <1>5, <3>1 DEF AggrWaiters
      <3> QED
        BY <2>1, <2>2, <3>2, <3>3
    <2> QED
      BY <2>3, <2>4
  <1>12. AggrApart'
    BY <1>6, <1>11 DEF AggrApart
  <1> QED
    BY <1>10, <1>12

\* A thread whose time is up takes its own entry off and none of another thread.
LEMMA AggrTimeout ==
  ASSUME AggrInv, NEW a \in Adders, add_timeout(a)
  PROVE  /\ adder' \in [Adders -> Adder]
         /\ ~ clash' => AggrWaiters' /\ AggrApart'
  <1> DEFINE back == [adder EXCEPT ![a] = "idle"]
  <1>1. /\ adder[a] \in {"waiting", "answered"} /\ _handle_msg_aggr_ret(index[a])
        /\ adder' = IF index[a] = 0 THEN Notified(back, Handled(0)) ELSE back
        /\ index' = index /\ clash' = clash
    BY DEF add_timeout
  <1>2. back \in [Adders -> Adder]
    BY AggrType DEF Adder
  <1>3. back[a] = "idle" /\ \A b \in Adders : b # a => back[b] = adder[b]
    BY AggrType
  <1> HIDE DEF back
  <1>4. CASE index[a] = 0
    BY <1>1, <1>2, <1>3, <1>4, AggrAnswer
  <1>5. CASE index[a] # 0
    <2>1. adder' = back
      BY <1>1, <1>5
    <2> SUFFICES ASSUME ~ clash PROVE AggrWaiters' /\ AggrApart'
      BY <1>1, <1>2, <2>1
    <2>2. AggrWaiters /\ AggrApart
      BY DEF AggrInv
    <2>3. \A k \in DOMAIN msg_aggr_list :
            k \in Handled(index[a]) <=> msg_aggr_list[k].index = index[a]
      BY <1>5, AggrHandled
    <2>4. \A k \in DOMAIN msg_aggr_list : msg_aggr_list[k].who \in Adders
      BY AggrType
    <2>5. \A k \in DOMAIN msg_aggr_list :
            k \in Handled(index[a]) <=> msg_aggr_list[k].who = a
      <3> SUFFICES ASSUME NEW k \in DOMAIN msg_aggr_list
                   PROVE  msg_aggr_list[k].index = index[a] <=> msg_aggr_list[k].who = a
        BY <2>3
      <3>1. msg_aggr_list[k].who = a => msg_aggr_list[k].index = index[a]
        BY <2>2 DEF AggrWaiters
      <3>2. ASSUME msg_aggr_list[k].index = index[a] PROVE msg_aggr_list[k].who = a
        <4>1. adder[a] = "waiting"
          BY <1>1, <2>2, <3>2 DEF AggrApart
        <4>2. PICK h \in DOMAIN msg_aggr_list : msg_aggr_list[h].who = a
          BY <2>2, <4>1 DEF AggrWaiters
        <4>3. h = k
          BY <2>2, <3>2, <4>2 DEF AggrWaiters, AggrApart
        <4> QED
          BY <4>2, <4>3
      <3> QED
        BY <3>1, <3>2
    <2>6. /\ \A n \in DOMAIN msg_aggr_list' : \E k \in DOMAIN msg_aggr_list :
                 msg_aggr_list[k].who # a /\ msg_aggr_list'[n] = msg_aggr_list[k]
          /\ \A k \in DOMAIN msg_aggr_list : msg_aggr_list[k].who # a =>
                 \E n \in DOMAIN msg_aggr_list' : msg_aggr_list'[n] = msg_aggr_list[k]
          /\ \A m, n \in DOMAIN msg_aggr_list' :
                 msg_aggr_list'[m].index = msg_aggr_list'[n].index => m = n
      BY SMT, <1>1, <2>5, AggrTaken
    <2>7. AggrWaiters'
      BY SMTT(20), <1>1, <1>3, <2>1, <2>2, <2>4, <2>6 DEF AggrWaiters
    <2>8. AggrApart'
      BY SMT, <1>1, <1>3, <2>1, <2>2, <2>6 DEF AggrApart
    <2> QED
      BY <2>7, <2>8
  <1> QED
    BY <1>4, <1>5

\* A thread that puts its entry on the list: unless there is a clash, no other entry, and
\* no thread that was answered, has its index.
LEMMA AggrRegister ==
  ASSUME AggrInv, NEW a \in Adders, add_register(a)
  PROVE  /\ adder' \in [Adders -> Adder] /\ msg_aggr_list' \in Seq(Entry)
         /\ ~ clash' => AggrWaiters' /\ AggrApart'
  <1> DEFINE e == [who |-> a, index |-> index[a]]
             n == Len(msg_aggr_list)
  <1>1. /\ adder[a] = "register" /\ clash' = (clash \/ Clashes(a)) /\ index' = index
        /\ adder' = [adder EXCEPT ![a] = "waiting"]
        /\ msg_aggr_list' = Append(msg_aggr_list, e)
    BY DEF add_register
  <1>2. e \in Entry /\ e.who = a /\ e.index = index[a]
    BY AggrType DEF Entry
  <1> HIDE DEF e
  <1>3. msg_aggr_list \in Seq(Entry)
    BY AggrType
  <1>4. adder' \in [Adders -> Adder] /\ msg_aggr_list' \in Seq(Entry)
    BY SMT, <1>1, <1>2, <1>3, AggrType DEF Adder
  <1>5. /\ n \in Nat /\ DOMAIN msg_aggr_list = 1..n
        /\ DOMAIN msg_aggr_list' = 1..(n + 1) /\ msg_aggr_list'[n + 1] = e
        /\ \A i \in 1..n : msg_aggr_list'[i] = msg_aggr_list[i]
    BY SMT, <1>1, <1>2, <1>3
  <1> HIDE DEF n
  <1>6. 1..(n + 1) = (1..n) \cup {n + 1} /\ n + 1 \notin 1..n
    BY SMT, <1>5
  <1> SUFFICES ASSUME ~ clash, ~ Clashes(a) PROVE AggrWaiters' /\ AggrApart'
    BY <1>1, <1>4
  <1>7. AggrWaiters /\ AggrApart
    BY DEF AggrInv
  <1>8. /\ adder'[a] = "waiting"
        /\ \A b \in Adders : b # a => adder'[b] = adder[b]
    BY <1>1, AggrType
  <1>9. /\ \A i \in 1..n : msg_aggr_list[i].index # index[a]
        /\ \A b \in Adders : adder[b] = "answered" => index[b] # index[a]
    BY <1>5 DEF Clashes, Range
  <1>10. \A i \in 1..n : msg_aggr_list[i].who # a /\ msg_aggr_list[i].who \in Adders
    BY SMTT(20), <1>5, <1>7, <1>9, AggrType DEF AggrWaiters
  <1>11. AggrWaiters'
    <2>1. \A i \in 1..(n + 1) :
             /\ adder'[msg_aggr_list'[i].who] = "waiting"
             /\ msg_aggr_list'[i].index = index[msg_aggr_list'[i].who]
      BY SMTT(20), <1>2, <1>5, <1>6, <1>7, <1>8, <1>10 DEF AggrWaiters
    <2>2. \A b \in Adders : adder'[b] = "waiting" =>
             \E i \in 1..(n + 1) : msg_aggr_list'[i].who = b
      BY SMT, <1>2, <1>5, <1>6, <1>7, <1>8 DEF AggrWaiters
    <2> QED
      BY <1>1, <1>5, <2>1, <2>2 DEF AggrWaiters
  <1>12. AggrApart'
    <2>1. \A i, j \in 1..(n + 1) :
             msg_aggr_list'[i].index = msg_aggr_list'[j].index => i = j
      BY SMTT(20), <1>2, <1>5, <1>6, <1>7, <1>9 DEF AggrApart
    <2>2. \A i \in 1..(n + 1), b \in Adders :
             adder'[b] = "answered" => index[b] # msg_aggr_list'[i].index
      BY SMT, <1>2, <1>5, <1>6, <1>7, <1>8, <1>9 DEF AggrApart
    <2> QED
      BY <1>1, <1>5, <2>1, <2>2 DEF AggrApart
  <1> QED
    BY <1>11, <1>12

\* The sender, and the end of the daemon up to the join.
LEMMA SenderSteps ==
  ASSUME AggrInv, SenderStep \/ fini_begin \/ fini_signal
  PROVE  AggrInv'
  <1> USE DEF AggrInv
  <1>1. /\ UNCHANGED <<index, msg_index, msg_aggr_list, adds, clash>>
        /\ running' \in BOOLEAN /\ max_msgs' \in BOOLEAN
        /\ fini' \in {"no", "set", "join", "end"}
    BY DEF SenderStep, fini_begin, fini_signal, sender_start, sender_enter,
           sender_woken, window_expires, sender_send, AggrTypeOK
  <1>2. msg_list' \in Seq(Entry) /\ flight' \subseteq Entry
    <2>1. msg_list' = msg_list \/ msg_list' = << >>
      BY DEF SenderStep, fini_begin, fini_signal, sender_start, sender_enter,
             sender_woken, window_expires, sender_send
    <2>2. flight' = flight \/ flight' = flight \cup Range(msg_list)
      BY DEF SenderStep, fini_begin, fini_signal, sender_start, sender_enter,
             sender_woken, window_expires, sender_send
    <2>3. msg_list \in Seq(Entry) /\ flight \subseteq Entry /\ << >> \in Seq(Entry)
      BY SMT DEF AggrTypeOK
    <2>4. Range(msg_list) \subseteq Entry
      BY SMT, <2>3 DEF Range
    <2> QED
      BY <2>1, <2>2, <2>3, <2>4
  <1>3. /\ adder' \in [Adders -> Adder] /\ sender' \in Sender
        /\ \A a \in Adders : \/ adder'[a] = adder[a]
                             \/ adder[a] = "blocked" /\ adder'[a] = "woken"
    <2>1. CASE fini_signal
      BY <2>1, AggrType, AggrSignal DEF fini_signal
    <2>2. CASE sender_send
      <3>1. /\ adder' = [a \in Adders |->
                          IF adder[a] = "blocked" THEN "woken" ELSE adder[a]]
            /\ sender' \in Sender
        BY <2>2 DEF sender_send, Sender
      <3> QED
        BY <3>1, AggrType DEF Adder
    <2>3. CASE ~ fini_signal /\ ~ sender_send
      <3>1. adder' = adder
        BY <2>3 DEF SenderStep, fini_begin, sender_start, sender_enter,
                    sender_woken, window_expires
      <3>2. sender' \in Sender
        BY <2>3 DEF SenderStep, fini_begin, sender_start, sender_enter,
                    sender_woken, window_expires, AggrTypeOK, Sender
      <3> QED
        BY <3>1, <3>2, AggrType
    <2> QED
      BY <2>1, <2>2, <2>3
  <1>4. ~ clash' => AggrWaiters' /\ AggrApart'
    BY <1>1, <1>3, AggrQuiet
  <1>5. AggrTypeOK'
    BY <1>1, <1>2, <1>3 DEF AggrTypeOK
  <1> QED
    BY <1>4, <1>5

\* msg_aggr_add_msg up to the wait for the answer.
LEMMA AddSteps ==
  ASSUME AggrInv, NEW a \in Adders,
         \/ add_begin(a) \/ add_block(a) \/ add_return(a)
         \/ \E wait \in BOOLEAN : add_append(a, wait)
  PROVE  AggrInv'
  <1> USE DEF AggrInv
  <1>1. ASSUME add_begin(a) \/ add_block(a) \/ add_return(a) PROVE AggrInv'
    <2>1. /\ UNCHANGED <<running, sender, index, msg_index, msg_list, max_msgs,
                         msg_aggr_list, flight, fini, clash>>
          /\ adder[a] # "waiting"
          /\ \/ adder' = [adder EXCEPT ![a] = "lock"]
             \/ adder' = [adder EXCEPT ![a] = "blocked"]
             \/ adder' = [adder EXCEPT ![a] = "idle"]
      BY <1>1 DEF add_begin, add_block, add_return
    <2>2. adds' \in 0..MaxAdds
      <3>1. adds \in 0..MaxAdds /\ MaxAdds \in Nat
        BY AggrAssumption DEF AggrTypeOK
      <3>2. adds' = adds \/ (adds < MaxAdds /\ adds' = adds + 1)
        BY <1>1 DEF add_begin, add_block, add_return
      <3> QED
        BY SMT, <3>1, <3>2
    <2>3. /\ adder' \in [Adders -> Adder]
          /\ adder'[a] \notin {"waiting", "answered"}
          /\ \A b \in Adders : b # a => adder'[b] = adder[b]
      BY <2>1, AggrType DEF Adder
    <2>4. ~ clash' => AggrWaiters' /\ AggrApart'
      BY <2>1, <2>3, AggrQuiet
    <2>5. AggrTypeOK'
      BY <2>1, <2>2, <2>3 DEF AggrTypeOK
    <2> QED
      BY <2>4, <2>5
  <1>2. ASSUME NEW wait \in BOOLEAN, add_append(a, wait) PROVE AggrInv'
    <2> DEFINE e == [who |-> a, index |-> msg_index]
               list == Append(msg_list, e)
               adr == [adder EXCEPT ![a] = IF wait THEN "register" ELSE "idle"]
    <2>1. /\ adder[a] \in {"woken", "lock"}
          /\ index' = [index EXCEPT ![a] = msg_index]
          /\ msg_index' = (msg_index + 1) % IndexMod
          /\ msg_list' = list
          /\ max_msgs' = (max_msgs \/ Len(list) >= max_msg_cnt)
          /\ signal(adr) \/ (adder' = adr /\ sender' = sender)
          /\ UNCHANGED <<running, msg_aggr_list, flight, fini, adds, clash>>
      BY <1>2 DEF add_append
    <2>2. msg_index \in 0..(IndexMod - 1) /\ IndexMod \in Nat \ {0}
      BY AggrAssumption DEF AggrTypeOK
    <2>3. msg_index' \in 0..(IndexMod - 1)
      BY SMT, <2>1, <2>2
    <2>4. index' \in [Adders -> 0..(IndexMod - 1)]
          /\ \A b \in Adders : b # a => index'[b] = index[b]
      BY <2>1, <2>2, AggrType
    <2>5. msg_list' \in Seq(Entry)
      <3>1. e \in Entry
        BY <2>2 DEF Entry
      <3> QED
        BY SMT, <2>1, <3>1 DEF AggrTypeOK
    <2>6. /\ adr \in [Adders -> Adder] /\ adr[a] \in {"register", "idle"}
          /\ \A b \in Adders : b # a => adr[b] = adder[b]
      BY AggrType DEF Adder
    <2>7. max_msgs' \in BOOLEAN
      BY <2>1 DEF AggrTypeOK
    <2> HIDE DEF e, list, adr
    <2>8. /\ adder' \in [Adders -> Adder] /\ sender' \in Sender
          /\ \A b \in Adders : \/ adder'[b] = adr[b]
                               \/ adr[b] = "blocked" /\ adder'[b] = "woken"
      <3>1. CASE signal(adr)
        BY <2>6, <3>1, AggrSignal
      <3>2. CASE adder' = adr /\ sender' = sender
        BY <2>6, <3>2 DEF AggrTypeOK
      <3> QED
        BY <2>1, <3>1, <3>2
    <2>9. \A b \in Adders :
            \/ adder'[b] = adder[b] /\ index'[b] = index[b]
            \/ adder[b] # "waiting" /\ adder'[b] \notin {"waiting", "answered"}
      BY <2>1, <2>4, <2>6, <2>8
    <2>10. ~ clash' => AggrWaiters' /\ AggrApart'
      BY <2>1, <2>9, AggrQuiet
    <2>11. AggrTypeOK'
      BY <2>1, <2>3, <2>4, <2>5, <2>7, <2>8 DEF AggrTypeOK
    <2> QED
      BY <2>10, <2>11
  <1> QED
    BY <1>1, <1>2

\* The steps that change msg_aggr_list.
LEMMA ListSteps ==
  ASSUME AggrInv,
         \/ \E a \in Adders : add_register(a) \/ add_timeout(a)
         \/ \E m \in flight : msg_aggr_resp(m)
         \/ fini_end
  PROVE  AggrInv'
  <1> USE DEF AggrInv
  <1>1. ASSUME NEW a \in Adders, add_register(a) PROVE AggrInv'
    <2>1. /\ adder' \in [Adders -> Adder] /\ msg_aggr_list' \in Seq(Entry)
          /\ ~ clash' => AggrWaiters' /\ AggrApart'
      BY <1>1, AggrRegister
    <2>2. clash' \in BOOLEAN
      BY <1>1 DEF add_register, AggrTypeOK
    <2>3. AggrTypeOK'
      BY <1>1, <2>1, <2>2 DEF add_register, AggrTypeOK
    <2> QED
      BY <2>1, <2>3
  <1>2. ASSUME NEW a \in Adders, add_timeout(a) PROVE AggrInv'
    <2>1. /\ adder' \in [Adders -> Adder]
          /\ ~ clash' => AggrWaiters' /\ AggrApart'
      BY <1>2, AggrTimeout
    <2>2. _handle_msg_aggr_ret(index[a])
      BY <1>2 DEF add_timeout
    <2>3. msg_aggr_list' \in Seq(Entry)
      BY <2>2, AggrTaken
    <2>4. AggrTypeOK'
      BY <1>2, <2>1, <2>3 DEF add_timeout, AggrTypeOK
    <2> QED
      BY <2>1, <2>4
  <1>3. ASSUME NEW m \in flight, msg_aggr_resp(m) PROVE AggrInv'
    <2> DEFINE i == m.index
    <2>1. /\ _handle_msg_aggr_ret(i) /\ adder' = Notified(adder, Handled(i))
          /\ flight' = flight \ {m}
          /\ UNCHANGED <<running, sender, index, msg_index, msg_list, max_msgs, fini,
                         adds, clash>>
      BY <1>3 DEF msg_aggr_resp
    <2> HIDE DEF i
    <2>2. msg_aggr_list' \in Seq(Entry)
      BY <2>1, AggrTaken
    <2>3. /\ adder' \in [Adders -> Adder]
          /\ ~ clash' => AggrWaiters' /\ AggrApart'
      BY <2>1, AggrType, AggrAnswer
    <2>4. AggrTypeOK'
      BY <2>1, <2>2, <2>3 DEF AggrTypeOK
    <2> QED
      BY <2>3, <2>4
  <1>4. CASE fini_end
    <2>1. /\ _handle_msg_aggr_ret(0) /\ adder' = Notified(adder, Handled(0))
          /\ fini' = "end" /\ msg_list' = << >>
          /\ UNCHANGED <<running, sender, index, msg_index, max_msgs, flight, adds, clash>>
      BY <1>4 DEF fini_end
    <2>2. msg_aggr_list' \in Seq(Entry) /\ << >> \in Seq(Entry)
      BY SMT, <2>1, AggrTaken
    <2>3. /\ adder' \in [Adders -> Adder]
          /\ ~ clash' => AggrWaiters' /\ AggrApart'
      BY <2>1, AggrType, AggrAnswer
    <2>4. AggrTypeOK'
      BY <2>1, <2>2, <2>3 DEF AggrTypeOK
    <2> QED
      BY <2>3, <2>4
  <1> QED
    BY <1>1, <1>2, <1>3, <1>4

LEMMA NextAggr == AggrInv /\ [AggrNext]_aggr_vars => AggrInv'
  <1> SUFFICES ASSUME AggrInv, [AggrNext]_aggr_vars PROVE AggrInv'
    OBVIOUS
  <1>1. CASE UNCHANGED aggr_vars
    BY <1>1 DEF aggr_vars, AggrInv, AggrTypeOK, AggrWaiters, AggrApart
  <1>2. CASE SenderStep \/ fini_begin \/ fini_signal
    BY <1>2, SenderSteps
  <1>3. ASSUME NEW a \in Adders, add_begin(a) \/ AddStep(a) PROVE AggrInv'
    BY <1>3, AddSteps, ListSteps DEF AddStep
  <1>4. CASE (\E m \in flight : msg_aggr_resp(m)) \/ fini_end
    BY <1>4, ListSteps
  <1> QED
    BY <1>1, <1>2, <1>3, <1>4 DEF AggrNext

\* msg_aggr_list has an entry of every thread that waits in msg_aggr_add_msg and of no
\* other, however many threads add messages and however late, if ever, answers come:
\* an answer never finds a waiter that has timed out and freed its entry.  This lasts
\* until the 16 bit counter comes round to an index in use.
THEOREM AggrEntriesLive == AggrSpec => []EntriesLive
  <1>1. AggrInit => AggrInv
    BY InitAggr
  <1>2. AggrInv /\ [AggrNext]_aggr_vars => AggrInv'
    BY NextAggr
  <1>3. AggrInv => EntriesLive
    <2> SUFFICES ASSUME AggrInv, ~ clash
                 PROVE  /\ {e.who : e \in Range(msg_aggr_list)}
                             = {a \in Adders : adder[a] = "waiting"}
                        /\ \A e \in Range(msg_aggr_list) : e.index = index[e.who]
      BY DEF EntriesLive
    <2>1. AggrWaiters
      BY DEF AggrInv
    <2>2. \A i \in DOMAIN msg_aggr_list : msg_aggr_list[i].who \in Adders
      BY AggrType
    <2>3. \A e \in Range(msg_aggr_list) :
             e.index = index[e.who] /\ e.who \in Adders /\ adder[e.who] = "waiting"
      BY SMT, <2>1, <2>2 DEF AggrWaiters, Range
    <2>4. \A a \in Adders : adder[a] = "waiting" =>
             \E e \in Range(msg_aggr_list) : e.who = a
      BY <2>1 DEF AggrWaiters, Range
    <2> QED
      BY SMT, <2>3, <2>4
  <1> QED
    BY <1>1, <1>2, <1>3, PTL DEF AggrSpec
=============================================================================
