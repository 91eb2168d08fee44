----------------------------- MODULE LocksProofs -----------------------------
(***************************************************************************)
(* Proofs about module Locks, for any finite number of threads and any     *)
(* ordered set of lock classes.                                            *)
(***************************************************************************)
EXTENDS Locks, FiniteSetTheorems, TLAPS

\* Zenon proves most leaves; a leaf that needs arithmetic names SMT.
USE Zenon

\* The inductive invariant of the locks.
LockInv == TypeOK /\ CallShape /\ CountersExact

-----------------------------------------------------------------------------
(* Arithmetic of the counters: sets of threads are finite.                   *)

LEMMA CardAdd ==
  ASSUME NEW S \in SUBSET Threads, NEW t \in Threads, t \notin S
  PROVE  Cardinality(S \cup {t}) = Cardinality(S) + 1
  BY FS_Subset, FS_AddElement, ThreadsAssumption

LEMMA CardRemove ==
  ASSUME NEW S \in SUBSET Threads, NEW t \in S
  PROVE  Cardinality(S \ {t}) = Cardinality(S) - 1
  BY FS_Subset, FS_RemoveElement, ThreadsAssumption

LEMMA CardZero ==
  ASSUME NEW S \in SUBSET Threads
  PROVE  /\ Cardinality(S) \in Nat
         /\ Cardinality(S) = 0 <=> S = {}
  BY FS_Subset, FS_EmptySet, FS_CardinalityType, ThreadsAssumption

LEMMA Counted ==
  ASSUME TypeOK, CountersExact, NEW e \in Entity
  PROVE  /\ read_lock[e] = 0 <=> Readers(e) = {}
         /\ write_lock[e] = 0 <=> Writers(e) = {}
         /\ write_wait_lock[e] = 0 <=> Pending(e) = {}
  <1>1. /\ Readers(e) \in SUBSET Threads
        /\ Writers(e) \in SUBSET Threads
        /\ Pending(e) \in SUBSET Threads
    BY DEF Readers, Writers, Pending
  <1> QED
    BY <1>1, CardZero DEF CountersExact

LEMMA NoRequestWanted == Wanted(NoRequest) = {}
  BY DEF Wanted, NoRequest

\* A call that still has to lock something has exactly one next class.
LEMMA NextUnique ==
  ASSUME TypeOK, NEW t \in Threads, NEW e \in Entity, NEW f \in Entity,
         NextToLock(t, e), NextToLock(t, f)
  PROVE  e = f
  <1>1. e <= f /\ f <= e
    BY DEF NextToLock
  <1>2. e \in Nat /\ f \in Nat
    BY EntityAssumption
  <1> QED
    BY SMT, <1>1, <1>2

LEMMA NextExists ==
  ASSUME TypeOK, CallShape, NEW t \in Threads, pc[t] \in {"lock", "loop"}
  PROVE  \E e \in Entity : NextToLock(t, e)
  <1>1. Wanted(req[t]) \ held[t] # {}
    BY DEF CallShape, ThreadShape
  <1>2. Wanted(req[t]) \ held[t] \in SUBSET Entity
    BY DEF Wanted
  <1> QED
    BY <1>1, <1>2, EntityAssumption DEF NextToLock

-----------------------------------------------------------------------------
(* Type correctness and the shape of a call.                                 *)

LEMMA InitLockInv == Init => LockInv
  <1> SUFFICES ASSUME Init PROVE LockInv
    OBVIOUS
  <1> USE DEF Init, init_locks
  <1>1. TypeOK
    BY DEF TypeOK, PC
  <1>2. CallShape
    BY DEF CallShape, ThreadShape
  <1>3. CountersExact
    <2> SUFFICES ASSUME NEW e \in Entity
                 PROVE  Readers(e) = {} /\ Writers(e) = {} /\ Pending(e) = {}
      BY CardZero DEF CountersExact
    <2> QED
      BY DEF Readers, Writers, Pending
  <1> QED
    BY <1>1, <1>2, <1>3 DEF LockInv


\* Every step keeps the types.  The counters stay natural numbers because a
\* thread only gives back what CountersExact says is counted.
LEMMA TypeStep == LockInv /\ [Next]_vars => TypeOK'
  <1> SUFFICES ASSUME LockInv, [Next]_vars PROVE TypeOK'
    OBVIOUS
  <1> USE DEF LockInv, TypeOK, PC
  <1>0. NoRequest \in [Entity -> LockLevel]
    BY DEF NoRequest, LockLevel
  <1>1. ASSUME NEW t \in Threads, NEW e \in Entity, wr_rdlock(t, e)
        PROVE  TypeOK'
    BY SMT, <1>1 DEF wr_rdlock, Granted, Refused, Sleep, Unwind
  <1>2. ASSUME NEW t \in Threads, NEW e \in Entity, wr_wrlock(t, e)
        PROVE  TypeOK'
    <2>1. pc[t] = "loop" => write_wait_lock[e] >= 1
      <3>1. pc[t] = "loop" => Pending(e) # {}
        BY <1>2 DEF wr_wrlock, Testing, Pending
      <3> QED
        BY SMT, <3>1, Counted
    <2>2. write_wait_lock' \in [Entity -> Nat]
      BY SMT, <1>2, <2>1 DEF wr_wrlock
    <2> QED
      BY SMT, <1>2, <2>2 DEF wr_wrlock, Granted, Refused, Sleep, Unwind
  <1>3. ASSUME NEW t \in Threads, NEW e \in Entity, wr_unlock(t, e)
        PROVE  TypeOK'
    <2>1. req[t][e] = "READ_LOCK" => read_lock[e] >= 1
      <3>1. req[t][e] = "READ_LOCK" => Readers(e) # {}
        BY <1>3 DEF wr_unlock, NextToUnlock, Readers
      <3> QED
        BY SMT, <3>1, Counted
    <2>2. req[t][e] = "WRITE_LOCK" => write_lock[e] >= 1
      <3>1. req[t][e] = "WRITE_LOCK" => Writers(e) # {}
        BY <1>3 DEF wr_unlock, NextToUnlock, Writers
      <3> QED
        BY SMT, <3>1, Counted
    <2>3. read_lock' \in [Entity -> Nat] /\ write_lock' \in [Entity -> Nat]
      BY SMT, <1>3, <2>1, <2>2 DEF wr_unlock
    <2> QED
      BY <1>3, <2>3 DEF wr_unlock, Unwind, Broadcast
  <1>4. ASSUME NEW t \in Threads, NEW levels \in Requests, 
               NEW m \in {"wait", "try"}, lock_slurmctld(t, levels, m)
        PROVE  TypeOK'
    BY <1>4 DEF lock_slurmctld
  <1>5. ASSUME NEW t \in Threads, lock_state_files(t)
        PROVE  TypeOK'
    BY <1>5 DEF lock_state_files
  <1>6. ASSUME NEW t \in Threads, unlock_state_files(t)
        PROVE  TypeOK'
    BY <1>6 DEF unlock_state_files
  <1>7. CASE UNCHANGED vars
    BY <1>7 DEF vars
  <1> QED
    BY <1>1, <1>2, <1>3, <1>4, <1>5, <1>6, <1>7 DEF Next, Step, Call

\* A step of one thread leaves the shape of the others alone: at most it
\* wakes them up.
LEMMA OthersShape ==
  ASSUME LockInv, NEW u \in Threads,
         UNCHANGED <<pc[u], req[u], mode[u], held[u], files[u]>>,
         u \in asleep' => u \in asleep
  PROVE  ThreadShape(u)'
  BY DEF LockInv, CallShape, ThreadShape

\* Every step keeps the shape of the calls.
LEMMA ShapeStep == LockInv /\ [Next]_vars => CallShape'
  <1> SUFFICES ASSUME LockInv, [Next]_vars, NEW u \in Threads
               PROVE  ThreadShape(u)'
    BY DEF CallShape
  <1> USE DEF LockInv, TypeOK
  <1>0. ThreadShape(u)
    BY DEF CallShape
  <1>1. ASSUME NEW t \in Threads, NEW e \in Entity, Granted(t, e), t \notin asleep,
               pc[t] \in {"lock", "loop"}, NextToLock(t, e), UNCHANGED files
        PROVE  ThreadShape(u)'
    <2>1. CASE u # t
      BY <1>1, <2>1, OthersShape DEF Granted
    <2>2. CASE u = t
      <3>1. /\ held'[t] = held[t] \cup {e}
            /\ UNCHANGED <<req, mode, asleep, files>>
            /\ pc'[t] = IF Wanted(req[t]) = held[t] \cup {e}
                          THEN "held" ELSE "lock"
        BY <1>1 DEF Granted
      <3>2. \A d \in held'[t] : \A f \in Wanted(req[t]) \ held'[t] : d < f
        BY SMT, <1>0, <1>1, <2>2, <3>1, EntityAssumption
           DEF ThreadShape, NextToLock, Wanted
      <3>3. files[t] = "no"
        BY <1>0, <1>1, <2>2 DEF ThreadShape
      <3> QED
        BY <1>0, <1>1, <2>2, <3>1, <3>2, <3>3 DEF ThreadShape, NextToLock
    <2> QED
      BY <2>1, <2>2
  <1>2. ASSUME NEW t \in Threads, Sleep(t), mode[t] = "wait",
               pc[t] \in {"lock", "loop"}, UNCHANGED files
        PROVE  ThreadShape(u)'
    BY <1>0, <1>2, OthersShape DEF Sleep, ThreadShape
  <1>3. ASSUME NEW t \in Threads, NEW left \in SUBSET held[t], Unwind(t, left),
               t \notin asleep', asleep' \subseteq asleep, UNCHANGED files,
               files[t] = "no"
        PROVE  ThreadShape(u)'
    <2>1. CASE u # t
      BY <1>3, <2>1, OthersShape DEF Unwind
    <2>2. CASE u = t /\ left = {}
      BY <1>3, <2>2, NoRequestWanted DEF Unwind, ThreadShape
    <2>3. CASE u = t /\ left # {}
      BY <1>0, <1>3, <2>3 DEF Unwind, ThreadShape
    <2> QED
      BY <2>1, <2>2, <2>3
  <1>4. ASSUME NEW t \in Threads, NEW e \in Entity, wr_rdlock(t, e) \/ wr_wrlock(t, e)
        PROVE  ThreadShape(u)'
    <2>1. /\ pc[t] \in {"lock", "loop"} /\ t \notin asleep /\ NextToLock(t, e)
          /\ UNCHANGED files
          /\ \/ Granted(t, e)
             \/ Sleep(t) /\ mode[t] = "wait"
             \/ Refused(t)
      BY <1>4 DEF wr_rdlock, wr_wrlock, Testing
    <2>2. files[t] = "no"
      BY <2>1 DEF CallShape, ThreadShape
    <2> QED
      BY <1>1, <1>2, <1>3, <2>1, <2>2 DEF Refused
  <1>5. ASSUME NEW t \in Threads, NEW e \in Entity, wr_unlock(t, e)
        PROVE  ThreadShape(u)'
    <2>1. Unwind(t, held[t] \ {e}) /\ asleep' = {} /\ files[t] = "no" /\ UNCHANGED files
      BY <1>5 DEF wr_unlock, Broadcast
    <2> QED
      BY <2>1, <1>3
  <1>6. ASSUME NEW t \in Threads, NEW levels \in Requests,
               NEW m \in {"wait", "try"}, lock_slurmctld(t, levels, m)
        PROVE  ThreadShape(u)'
    <2>1. CASE u # t
      BY <1>6, <2>1, OthersShape DEF lock_slurmctld
    <2>2. CASE u = t
      BY <1>0, <1>6, <2>2, NoRequestWanted, RequestsAssumption
         DEF lock_slurmctld, ThreadShape
    <2> QED
      BY <2>1, <2>2
  <1>7. ASSUME NEW t \in Threads, lock_state_files(t)
        PROVE  ThreadShape(u)'
    BY <1>0, <1>7 DEF lock_state_files, ThreadShape
  <1>8. ASSUME NEW t \in Threads, unlock_state_files(t)
        PROVE  ThreadShape(u)'
    BY <1>0, <1>8 DEF unlock_state_files, ThreadShape
  <1>9. CASE UNCHANGED vars
    BY <1>0, <1>9 DEF vars, ThreadShape
  <1> QED
    BY <1>4, <1>5, <1>6, <1>7, <1>8, <1>9 DEF Next, Step, Call

-----------------------------------------------------------------------------
(* The counters.                                                             *)

\* What a thread contributes to the sets the counters count depends only on
\* where it is in its call.
LEMMA SameContribution ==
  ASSUME TypeOK, TypeOK', NEW e \in Entity, NEW t \in Threads,
         \A u \in Threads \ {t} : UNCHANGED <<pc[u], req[u], held[u]>>
  PROVE  /\ Readers(e)' \ {t} = Readers(e) \ {t}
         /\ Writers(e)' \ {t} = Writers(e) \ {t}
         /\ Pending(e)' \ {t} = Pending(e) \ {t}
  BY DEF Readers, Writers, Pending, NextToLock

\* How the cardinality of a set of threads changes when only t's membership
\* may have changed.
LEMMA CardChange ==
  ASSUME NEW S \in SUBSET Threads, NEW T \in SUBSET Threads, NEW t \in Threads,
         T \ {t} = S \ {t}
  PROVE  /\ t \notin S /\ t \in T => Cardinality(T) = Cardinality(S) + 1
         /\ t \in S /\ t \notin T => Cardinality(T) = Cardinality(S) - 1
         /\ (t \in S <=> t \in T) => Cardinality(T) = Cardinality(S)
  <1>1. t \notin S /\ t \in T => T = S \cup {t}
    OBVIOUS
  <1>2. t \in S /\ t \notin T => T = S \ {t}
    OBVIOUS
  <1>3. (t \in S <=> t \in T) => T = S
    BY SMT
  <1> QED
    BY <1>1, <1>2, <1>3, CardAdd, CardRemove

\* A counter follows its set when it moves with t's membership.
LEMMA CountersStep == LockInv /\ [Next]_vars => CountersExact'
  <1> SUFFICES ASSUME LockInv, [Next]_vars, NEW e \in Entity
               PROVE  /\ read_lock'[e] = Cardinality(Readers(e)')
                      /\ write_lock'[e] = Cardinality(Writers(e)')
                      /\ write_wait_lock'[e] = Cardinality(Pending(e)')
    BY DEF CountersExact
  <1>a. TypeOK'
    BY TypeStep
  <1>b. CallShape'
    BY ShapeStep
  <1>c. /\ read_lock[e] = Cardinality(Readers(e))
        /\ write_lock[e] = Cardinality(Writers(e))
        /\ write_wait_lock[e] = Cardinality(Pending(e))
    BY DEF LockInv, CountersExact
  <1>d. /\ Readers(e) \in SUBSET Threads /\ Readers(e)' \in SUBSET Threads
        /\ Writers(e) \in SUBSET Threads /\ Writers(e)' \in SUBSET Threads
        /\ Pending(e) \in SUBSET Threads /\ Pending(e)' \in SUBSET Threads
    BY DEF Readers, Writers, Pending
  <1> DEFINE InR(t) == e \in held[t] /\ req[t][e] = "READ_LOCK"
             InW(t) == e \in held[t] /\ req[t][e] = "WRITE_LOCK"
             InP(t) == /\ pc[t] = "loop" /\ NextToLock(t, e)
                       /\ req[t][e] = "WRITE_LOCK"
             Only(t) == \A u \in Threads \ {t} : UNCHANGED <<pc[u], req[u], held[u]>>
             Delta(n, m, in, out) ==
                 /\ ~in /\ out => m = n + 1
                 /\ in /\ ~out => m = n - 1
                 /\ (in <=> out) => m = n
  <1>e. ASSUME NEW t \in Threads, Only(t),
               Delta(read_lock[e], read_lock'[e], InR(t), InR(t)'),
               Delta(write_lock[e], write_lock'[e], InW(t), InW(t)'),
               Delta(write_wait_lock[e], write_wait_lock'[e], InP(t), InP(t)')
        PROVE  /\ read_lock'[e] = Cardinality(Readers(e)')
               /\ write_lock'[e] = Cardinality(Writers(e)')
               /\ write_wait_lock'[e] = Cardinality(Pending(e)')
    <2>1. /\ Readers(e)' \ {t} = Readers(e) \ {t}
          /\ Writers(e)' \ {t} = Writers(e) \ {t}
          /\ Pending(e)' \ {t} = Pending(e) \ {t}
      BY <1>a, <1>e, SameContribution DEF LockInv
    <2>2. /\ (t \in Readers(e) <=> InR(t)) /\ (t \in Readers(e)' <=> InR(t)')
          /\ (t \in Writers(e) <=> InW(t)) /\ (t \in Writers(e)' <=> InW(t)')
          /\ (t \in Pending(e) <=> InP(t)) /\ (t \in Pending(e)' <=> InP(t)')
      BY DEF Readers, Writers, Pending
    <2> HIDE DEF InR, InW, InP
    <2>3. read_lock'[e] = Cardinality(Readers(e)')
      <3>1. /\ ~InR(t) /\ InR(t)' => Cardinality(Readers(e)') = Cardinality(Readers(e)) + 1
            /\ InR(t) /\ ~InR(t)' => Cardinality(Readers(e)') = Cardinality(Readers(e)) - 1
            /\ (InR(t) <=> InR(t)') => Cardinality(Readers(e)') = Cardinality(Readers(e))
        BY <1>d, <2>1, <2>2, CardChange
      <3> QED
        BY <1>c, <1>e, <3>1
    <2>4. write_lock'[e] = Cardinality(Writers(e)')
      <3>1. /\ ~InW(t) /\ InW(t)' => Cardinality(Writers(e)') = Cardinality(Writers(e)) + 1
            /\ InW(t) /\ ~InW(t)' => Cardinality(Writers(e)') = Cardinality(Writers(e)) - 1
            /\ (InW(t) <=> InW(t)') => Cardinality(Writers(e)') = Cardinality(Writers(e))
        BY <1>d, <2>1, <2>2, CardChange
      <3> QED
        BY <1>c, <1>e, <3>1
    <2>5. write_wait_lock'[e] = Cardinality(Pending(e)')
      <3>1. /\ ~InP(t) /\ InP(t)' => Cardinality(Pending(e)') = Cardinality(Pending(e)) + 1
            /\ InP(t) /\ ~InP(t)' => Cardinality(Pending(e)') = Cardinality(Pending(e)) - 1
            /\ (InP(t) <=> InP(t)') => Cardinality(Pending(e)') = Cardinality(Pending(e))
        BY <1>d, <2>1, <2>2, CardChange
      <3> QED
        BY <1>c, <1>e, <3>1
    <2> QED
      BY <2>3, <2>4, <2>5
  <1> USE DEF LockInv, TypeOK
  <1>1. ASSUME NEW t \in Threads, NEW f \in Entity, wr_rdlock(t, f)
        PROVE  /\ Only(t)
               /\ Delta(read_lock[e], read_lock'[e], InR(t), InR(t)')
               /\ Delta(write_lock[e], write_lock'[e], InW(t), InW(t)')
               /\ Delta(write_wait_lock[e], write_wait_lock'[e], InP(t), InP(t)')
    <2>0. /\ pc[t] \in {"lock", "loop"} /\ NextToLock(t, f) /\ f \notin held[t]
          /\ req[t][f] = "READ_LOCK"
      BY <1>1 DEF wr_rdlock, Testing, NextToLock
    <2>1. ~InP(t)
      BY <2>0, NextUnique
    <2>2. CASE MayRead(f)
      <3>1. /\ held' = [held EXCEPT ![t] = @ \cup {f}] /\ pc'[t] \in {"held", "lock"}
            /\ \A u \in Threads \ {t} : pc'[u] = pc[u]
            /\ UNCHANGED <<req, write_lock, write_wait_lock>>
            /\ read_lock' = [read_lock EXCEPT ![f] = @ + 1]
        BY <1>1, <2>2 DEF wr_rdlock, Granted
      <3>2. ~InP(t)'
        BY <3>1
      <3> QED
        BY <2>0, <2>1, <3>1, <3>2
    <2>3. CASE ~MayRead(f) /\ mode[t] = "wait"
      <3>1. /\ pc' = [pc EXCEPT ![t] = "loop"]
            /\ UNCHANGED <<held, req, read_lock, write_lock, write_wait_lock>>
        BY <1>1, <2>3 DEF wr_rdlock, Sleep
      <3>2. ~InP(t)'
        BY SMT, <2>0, <3>1, EntityAssumption DEF NextToLock
      <3> QED
        BY <2>0, <2>1, <3>1, <3>2
    <2>4. CASE ~MayRead(f) /\ mode[t] = "try"
      <3>1. /\ Unwind(t, held[t])
            /\ UNCHANGED <<read_lock, write_lock, write_wait_lock>>
        BY <1>1, <2>4 DEF wr_rdlock, Refused
      <3>2. ~InP(t)'
        BY <3>1 DEF Unwind
      <3> QED
        BY <2>0, <2>1, <3>1, <3>2 DEF Unwind
    <2> QED
      BY <2>2, <2>3, <2>4
  <1>2. ASSUME NEW t \in Threads, NEW f \in Entity, wr_wrlock(t, f)
        PROVE  /\ Only(t)
               /\ Delta(read_lock[e], read_lock'[e], InR(t), InR(t)')
               /\ Delta(write_lock[e], write_lock'[e], InW(t), InW(t)')
               /\ Delta(write_wait_lock[e], write_wait_lock'[e], InP(t), InP(t)')
    <2>0. /\ pc[t] \in {"lock", "loop"} /\ NextToLock(t, f) /\ f \notin held[t]
          /\ req[t][f] = "WRITE_LOCK" /\ UNCHANGED read_lock
      BY <1>2 DEF wr_wrlock, Testing, NextToLock
    <2>1. InP(t) <=> pc[t] = "loop" /\ e = f
      BY <2>0, NextUnique
    <2>2. CASE MayWrite(f)
      <3>1. /\ held' = [held EXCEPT ![t] = @ \cup {f}] /\ pc'[t] \in {"held", "lock"}
            /\ \A u \in Threads \ {t} : pc'[u] = pc[u]
            /\ UNCHANGED req
            /\ write_lock' = [write_lock EXCEPT ![f] = @ + 1]
            /\ write_wait_lock' = [write_wait_lock EXCEPT ![f] =
                                      (@ + 0) - (IF pc[t] = "loop" THEN 1 ELSE 0)]
        BY <1>2, <2>2 DEF wr_wrlock, Granted
      <3>2. ~InP(t)'
        BY <3>1
      <3>3. Delta(write_lock[e], write_lock'[e], InW(t), InW(t)')
        BY <2>0, <3>1
      <3>4. Delta(write_wait_lock[e], write_wait_lock'[e], InP(t), InP(t)')
        BY SMT, <2>0, <2>1, <3>1, <3>2
      <3> QED
        BY <2>0, <3>1, <3>3, <3>4
    <2>3. CASE ~MayWrite(f) /\ mode[t] = "wait"
      <3>1. /\ pc' = [pc EXCEPT ![t] = "loop"]
            /\ UNCHANGED <<held, req, write_lock>>
            /\ write_wait_lock' = [write_wait_lock EXCEPT ![f] =
                                      (@ + 1) - (IF pc[t] = "loop" THEN 1 ELSE 0)]
        BY <1>2, <2>3 DEF wr_wrlock, Sleep
      <3>2. InP(t)' <=> e = f
        BY SMT, <2>0, <3>1, EntityAssumption DEF NextToLock
      <3> QED
        BY SMT, <2>0, <2>1, <3>1, <3>2
    <2>4. CASE ~MayWrite(f) /\ mode[t] = "try"
      <3>0. pc[t] = "lock"
        BY <2>0, <2>4 DEF CallShape, ThreadShape
      <3>1. /\ Unwind(t, held[t])
            /\ UNCHANGED write_lock
            /\ write_wait_lock' = [write_wait_lock EXCEPT ![f] =
                                      (@ + 0) - (IF pc[t] = "loop" THEN 1 ELSE 0)]
        BY <1>2, <2>4 DEF wr_wrlock, Refused
      <3>2. ~InP(t)'
        BY <3>1 DEF Unwind
      <3> QED
        BY SMT, <2>0, <2>1, <3>0, <3>1, <3>2 DEF Unwind
    <2> QED
      BY <2>2, <2>3, <2>4
  <1>3. ASSUME NEW t \in Threads, NEW f \in Entity, wr_unlock(t, f)
        PROVE  /\ Only(t)
               /\ Delta(read_lock[e], read_lock'[e], InR(t), InR(t)')
               /\ Delta(write_lock[e], write_lock'[e], InW(t), InW(t)')
               /\ Delta(write_wait_lock[e], write_wait_lock'[e], InP(t), InP(t)')
    <2>0. /\ pc[t] \in {"held", "unlock"} /\ f \in held[t]
          /\ Unwind(t, held[t] \ {f}) /\ UNCHANGED write_wait_lock
      BY <1>3 DEF wr_unlock, NextToUnlock
    <2>1. ~InP(t) /\ ~InP(t)'
      BY <2>0 DEF Unwind
    <2>2. e \in held'[t] <=> e \in held[t] /\ e # f
      BY <2>0 DEF Unwind
    <2>3. e \in held'[t] => req'[t] = req[t]
      BY <2>0 DEF Unwind
    <2>4. Only(t)
      BY <2>0 DEF Unwind
    <2>5. \/ /\ req[t][f] = "READ_LOCK" /\ UNCHANGED write_lock
             /\ read_lock' = [read_lock EXCEPT ![f] = @ - 1]
          \/ /\ req[t][f] = "WRITE_LOCK" /\ UNCHANGED read_lock
             /\ write_lock' = [write_lock EXCEPT ![f] = @ - 1]
      BY <1>3 DEF wr_unlock
    <2>6. Delta(write_wait_lock[e], write_wait_lock'[e], InP(t), InP(t)')
      BY <2>0, <2>1
    <2>7. Delta(read_lock[e], read_lock'[e], InR(t), InR(t)')
      BY <2>0, <2>2, <2>3, <2>5
    <2>8. Delta(write_lock[e], write_lock'[e], InW(t), InW(t)')
      BY <2>0, <2>2, <2>3, <2>5
    <2> QED
      BY <2>4, <2>6, <2>7, <2>8
  <1>4. ASSUME NEW t \in Threads, NEW levels \in Requests,
               NEW m \in {"wait", "try"}, lock_slurmctld(t, levels, m)
        PROVE  /\ Only(t)
               /\ Delta(read_lock[e], read_lock'[e], InR(t), InR(t)')
               /\ Delta(write_lock[e], write_lock'[e], InW(t), InW(t)')
               /\ Delta(write_wait_lock[e], write_wait_lock'[e], InP(t), InP(t)')
    <2>1. held[t] = {}
      BY <1>4, NoRequestWanted DEF lock_slurmctld, CallShape, ThreadShape
    <2> QED
      BY <1>4, <2>1 DEF lock_slurmctld
  <1>5. CASE UNCHANGED <<read_lock, write_lock, write_wait_lock, pc, req, held>>
    BY <1>5, <1>c DEF Readers, Writers, Pending, NextToLock
  <1>6. CASE UNCHANGED vars
    BY <1>5, <1>6 DEF vars
  <1>7. ASSUME NEW t \in Threads, lock_state_files(t) \/ unlock_state_files(t)
        PROVE  UNCHANGED <<read_lock, write_lock, write_wait_lock, pc, req, held>>
    BY <1>7 DEF lock_state_files, unlock_state_files
  <1> HIDE DEF InR, InW, InP, Only, Delta, LockInv, TypeOK
  <1>8. ASSUME NEW t \in Threads, NEW f \in Entity,
               wr_rdlock(t, f) \/ wr_wrlock(t, f) \/ wr_unlock(t, f)
        PROVE  /\ read_lock'[e] = Cardinality(Readers(e)')
               /\ write_lock'[e] = Cardinality(Writers(e)')
               /\ write_wait_lock'[e] = Cardinality(Pending(e)')
    <2>1. CASE wr_rdlock(t, f)
      BY <1>1, <1>e, <2>1
    <2>2. CASE wr_wrlock(t, f)
      BY <1>2, <1>e, <2>2
    <2>3. CASE wr_unlock(t, f)
      BY <1>3, <1>e, <2>3
    <2> QED
      BY <1>8, <2>1, <2>2, <2>3
  <1>9. ASSUME NEW t \in Threads, NEW levels \in Requests,
               NEW m \in {"wait", "try"}, lock_slurmctld(t, levels, m)
        PROVE  /\ read_lock'[e] = Cardinality(Readers(e)')
               /\ write_lock'[e] = Cardinality(Writers(e)')
               /\ write_wait_lock'[e] = Cardinality(Pending(e)')
    BY <1>4, <1>9, <1>e
  <1> QED
    BY <1>5, <1>6, <1>7, <1>8, <1>9 DEF Next, Step, Call

-----------------------------------------------------------------------------
(* The theorems.                                                             *)

\* In every reachable state the variables have their types, every thread
\* holds what its place in the call says, and the counters of locks.c count
\* exactly the threads that hold or wait for each class.
THEOREM LockInvariant == Spec => []LockInv
  <1>1. LockInv /\ [Next]_vars => LockInv'
    BY TypeStep, ShapeStep, CountersStep DEF LockInv
  <1> QED
    BY <1>1, InitLockInv, PTL DEF Spec

\* The variables of locks.c keep their types; in particular no counter is
\* ever decremented below zero.
THEOREM TypeCorrect == Spec => []TypeOK
  BY LockInvariant, PTL DEF LockInv

\* No path through lock, try_lock and unlock leaks or double-releases a lock.
THEOREM CountersCorrect == Spec => []CountersExact
  BY LockInvariant, PTL DEF LockInv

\* A step that adds a reader finds no writer, and one that adds a writer finds
\* neither: the tests of wr_rdlock and wr_wrlock on the counters are tests on
\* the threads, by CountersExact.
LEMMA ExclusionStep == LockInv /\ Exclusion /\ [Next]_vars => Exclusion'
  <1> SUFFICES ASSUME LockInv, Exclusion, [Next]_vars,
                      NEW a \in Threads, NEW b \in Threads, a # b,
                      NEW e \in held'[a] \cap held'[b]
               PROVE  req'[a][e] = "READ_LOCK" /\ req'[b][e] = "READ_LOCK"
    BY DEF Exclusion
  <1> USE DEF LockInv, TypeOK
  <1>0. e \in Entity
    BY TypeStep
  <1>1. ASSUME \A u \in Threads : held'[u] \subseteq held[u] /\
                   (held'[u] # {} => req'[u] = req[u])
        PROVE  req'[a][e] = "READ_LOCK" /\ req'[b][e] = "READ_LOCK"
    <2>1. e \in held[a] \cap held[b] /\ req'[a] = req[a] /\ req'[b] = req[b]
      BY <1>1
    <2> QED
      BY SMT, <2>1 DEF Exclusion
  <1>h. ASSUME NEW u \in Threads, NEW f \in Entity, f \in held[u]
        PROVE  req[u][f] # "NO_LOCK" /\ req[u] \in [Entity -> LockLevel]
    BY SMT, <1>h, RequestsAssumption DEF CallShape, ThreadShape, Wanted, NoRequest, LockLevel
  <1>2. ASSUME NEW t \in Threads, NEW f \in Entity, NEW u \in Threads \ {t},
               wr_rdlock(t, f), MayRead(f), f \in held[u]
        PROVE  req[u][f] = "READ_LOCK"
    <2>1. u \notin Writers(f)
      BY <1>2, Counted DEF MayRead
    <2>2. req[u][f] # "NO_LOCK" /\ req[u] \in [Entity -> LockLevel]
      BY <1>2, <1>h
    <2> QED
      BY <1>2, <2>1, <2>2 DEF Writers, LockLevel
  <1>3. ASSUME NEW t \in Threads, NEW f \in Entity, NEW u \in Threads \ {t},
               wr_wrlock(t, f), MayWrite(f)
        PROVE  f \notin held[u]
    <2>1. u \notin Writers(f) /\ u \notin Readers(f)
      BY <1>3, Counted DEF MayWrite
    <2>2. f \in held[u] => req[u][f] # "NO_LOCK" /\ req[u] \in [Entity -> LockLevel]
      BY <1>3, <1>h
    <2> QED
      BY <1>3, <2>1, <2>2 DEF Readers, Writers, LockLevel
  <1>4. ASSUME NEW t \in Threads, NEW f \in Entity, wr_rdlock(t, f)
        PROVE  req'[a][e] = "READ_LOCK" /\ req'[b][e] = "READ_LOCK"
    <2>1. CASE MayRead(f)
      <3>1. held' = [held EXCEPT ![t] = @ \cup {f}] /\ req' = req /\ req[t][f] = "READ_LOCK"
        BY <1>4, <2>1 DEF wr_rdlock, Granted, Testing
      <3> QED
        BY SMT, <1>2, <1>4, <2>1, <3>1 DEF Exclusion
    <2>2. CASE ~MayRead(f)
      BY SMT, <1>1, <1>4, <2>2 DEF wr_rdlock, Sleep, Refused, Unwind
    <2> QED
      BY <2>1, <2>2
  <1>5. ASSUME NEW t \in Threads, NEW f \in Entity, wr_wrlock(t, f)
        PROVE  req'[a][e] = "READ_LOCK" /\ req'[b][e] = "READ_LOCK"
    <2>1. CASE MayWrite(f)
      <3>1. held' = [held EXCEPT ![t] = @ \cup {f}] /\ req' = req
        BY <1>5, <2>1 DEF wr_wrlock, Granted
      <3> QED
        BY SMT, <1>3, <1>5, <2>1, <3>1 DEF Exclusion
    <2>2. CASE ~MayWrite(f)
      BY SMT, <1>1, <1>5, <2>2 DEF wr_wrlock, Sleep, Refused, Unwind
    <2> QED
      BY <2>1, <2>2
  <1>6. ASSUME NEW t \in Threads, NEW f \in Entity, wr_unlock(t, f)
        PROVE  req'[a][e] = "READ_LOCK" /\ req'[b][e] = "READ_LOCK"
    BY <1>1, <1>6 DEF wr_unlock, Unwind
  <1>7. ASSUME NEW t \in Threads, NEW levels \in Requests,
               NEW m \in {"wait", "try"}, lock_slurmctld(t, levels, m)
        PROVE  req'[a][e] = "READ_LOCK" /\ req'[b][e] = "READ_LOCK"
    <2>1. held[t] = {}
      BY <1>7, NoRequestWanted DEF lock_slurmctld, CallShape, ThreadShape
    <2> QED
      BY <1>1, <1>7, <2>1 DEF lock_slurmctld
  <1>8. CASE UNCHANGED <<held, req>>
    BY <1>1, <1>8
  <1> QED
    BY <1>4, <1>5, <1>6, <1>7, <1>8
       DEF Next, Step, Call, lock_state_files, unlock_state_files, vars

\* A class of slurmctld's data held for writing is held by one thread alone.
THEOREM LocksExclude == Spec => []Exclusion
  <1>1. Init => Exclusion
    BY DEF Init, Exclusion
  <1> QED
    BY <1>1, ExclusionStep, LockInvariant, PTL DEF Spec

\* Only an unlock makes the condition of a sleeper true, and an unlock wakes
\* every sleeper; a sleeper is asleep because it tested its condition.
LEMMA SleepersStep == LockInv /\ SleepersBlocked /\ [Next]_vars => SleepersBlocked'
  <1> DEFINE Blocked(t, e) ==
               /\ NextToLock(t, e)
               /\ req[t][e] = "READ_LOCK" => ~MayRead(e)
               /\ req[t][e] = "WRITE_LOCK" => ~MayWrite(e)
             Kept ==
               \A e \in Entity :
                   /\ write_lock[e] # 0 \/ write_wait_lock[e] # 0
                        => write_lock'[e] # 0 \/ write_wait_lock'[e] # 0
                   /\ read_lock[e] # 0 \/ write_lock[e] # 0
                        => read_lock'[e] # 0 \/ write_lock'[e] # 0
  <1> SUFFICES ASSUME LockInv, SleepersBlocked, [Next]_vars, NEW s \in asleep'
               PROVE  \E e \in Entity : Blocked(s, e)'
    BY DEF SleepersBlocked
  <1> USE DEF LockInv, TypeOK
  <1>0. s \in Threads
    BY TypeStep
  <1>1. ASSUME s \in asleep, UNCHANGED <<held[s], req[s]>>, Kept
        PROVE  \E e \in Entity : Blocked(s, e)'
    <2>1. PICK e \in Entity : Blocked(s, e)
      BY <1>1 DEF SleepersBlocked
    <2>2. NextToLock(s, e)'
      BY <1>0, <1>1, <2>1 DEF NextToLock
    <2>3. Blocked(s, e)'
      <3>1. req'[s][e] = req[s][e]
        BY <1>1
      <3>2. /\ ~MayRead(e) => ~MayRead(e)'
            /\ ~MayWrite(e) => ~MayWrite(e)'
        BY <1>1 DEF MayRead, MayWrite
      <3>3. /\ req[s][e] = "READ_LOCK" => ~MayRead(e)
            /\ req[s][e] = "WRITE_LOCK" => ~MayWrite(e)
        BY <2>1
      <3> QED
        BY <2>2, <3>1, <3>2, <3>3
    <2> QED
      BY <2>3
  <1> HIDE DEF Blocked, Kept
  <1>2. ASSUME NEW t \in Threads, NEW f \in Entity, wr_rdlock(t, f)
        PROVE  \E e \in Entity : Blocked(s, e)'
    <2>0. t \notin asleep /\ NextToLock(t, f) /\ req[t][f] = "READ_LOCK"
          /\ UNCHANGED <<write_lock, write_wait_lock>>
      BY <1>2 DEF wr_rdlock, Testing
    <2>1. CASE MayRead(f)
      <3>1. /\ asleep' = asleep /\ req' = req
            /\ held' = [held EXCEPT ![t] = @ \cup {f}]
            /\ read_lock' = [read_lock EXCEPT ![f] = @ + 1]
        BY <1>2, <2>1 DEF wr_rdlock, Granted
      <3>2. s \in asleep /\ UNCHANGED <<held[s], req[s]>>
        BY <1>0, <2>0, <3>1
      <3>3. Kept
        BY SMT, <2>0, <3>1 DEF Kept
      <3> QED
        BY <1>1, <3>2, <3>3
    <2>2. CASE ~MayRead(f) /\ mode[t] = "wait"
      <3>1. /\ asleep' = asleep \cup {t}
            /\ UNCHANGED <<held, req, read_lock>>
        BY <1>2, <2>2 DEF wr_rdlock, Sleep
      <3>2. Blocked(t, f)'
        BY <2>0, <2>2, <3>1 DEF Blocked, NextToLock, MayRead
      <3>3. Kept
        BY <2>0, <3>1 DEF Kept
      <3>4. s \in asleep \/ s = t
        BY <3>1
      <3> QED
        BY <1>1, <3>1, <3>2, <3>3, <3>4
    <2>3. CASE ~MayRead(f) /\ mode[t] = "try"
      <3>1. asleep' = asleep /\ read_lock' = read_lock /\ Unwind(t, held[t])
        BY <1>2, <2>3 DEF wr_rdlock, Refused
      <3>2. s \in asleep /\ UNCHANGED <<held[s], req[s]>>
        BY <1>0, <2>0, <3>1 DEF Unwind
      <3>3. Kept
        BY <2>0, <3>1 DEF Kept
      <3> QED
        BY <1>1, <3>2, <3>3
    <2> QED
      BY <2>1, <2>2, <2>3
  <1>3. ASSUME NEW t \in Threads, NEW f \in Entity, wr_wrlock(t, f)
        PROVE  \E e \in Entity : Blocked(s, e)'
    <2>0. t \notin asleep /\ NextToLock(t, f) /\ req[t][f] = "WRITE_LOCK"
          /\ pc[t] \in {"lock", "loop"} /\ UNCHANGED read_lock
      BY <1>3 DEF wr_wrlock, Testing
    <2>1. CASE MayWrite(f)
      <3>1. /\ write_lock' = [write_lock EXCEPT ![f] = @ + 1]
            /\ \A e \in Entity \ {f} : write_wait_lock'[e] = write_wait_lock[e]
            /\ asleep' = asleep /\ req' = req
            /\ held' = [held EXCEPT ![t] = @ \cup {f}]
        BY <1>3, <2>1 DEF wr_wrlock, Granted
      <3>2. s \in asleep /\ UNCHANGED <<held[s], req[s]>>
        BY <1>0, <2>0, <3>1
      <3>3. Kept
        <4>1. write_lock'[f] # 0
          BY SMT, <3>1
        <4>2. \A e \in Entity \ {f} : write_lock'[e] = write_lock[e]
          BY <3>1
        <4> QED
          BY <2>0, <3>1, <4>1, <4>2 DEF Kept
      <3> QED
        BY <1>1, <3>2, <3>3
    <2>2. CASE ~MayWrite(f) /\ mode[t] = "wait"
      <3>1. /\ asleep' = asleep \cup {t}
            /\ UNCHANGED <<held, req, write_lock>>
            /\ \A e \in Entity : write_wait_lock'[e] >= write_wait_lock[e]
        BY SMT, <1>3, <2>2 DEF wr_wrlock, Sleep
      <3>2. Blocked(t, f)'
        BY <2>0, <2>2, <3>1 DEF Blocked, NextToLock, MayWrite
      <3>3. \A e \in Entity : write_wait_lock[e] # 0 => write_wait_lock'[e] # 0
        BY SMT, <3>1, TypeStep
      <3>4. Kept
        BY <2>0, <3>1, <3>3 DEF Kept
      <3>5. s \in asleep \/ s = t
        BY <3>1
      <3> QED
        BY <1>1, <3>1, <3>2, <3>4, <3>5
    <2>3. CASE ~MayWrite(f) /\ mode[t] = "try"
      <3>0. pc[t] = "lock"
        BY <2>0, <2>3 DEF CallShape, ThreadShape
      <3>1. /\ asleep' = asleep /\ write_lock' = write_lock
            /\ write_wait_lock' = write_wait_lock
            /\ Unwind(t, held[t])
        BY SMT, <1>3, <2>3, <3>0 DEF wr_wrlock, Refused
      <3>2. s \in asleep /\ UNCHANGED <<held[s], req[s]>>
        BY <1>0, <2>0, <3>1 DEF Unwind
      <3>3. Kept
        BY <2>0, <3>1 DEF Kept
      <3> QED
        BY <1>1, <3>2, <3>3
    <2> QED
      BY <2>1, <2>2, <2>3
  <1>4. ASSUME NEW t \in Threads, NEW f \in Entity, wr_unlock(t, f)
        PROVE  FALSE
    BY <1>4 DEF wr_unlock, Broadcast
  <1>5. ASSUME NEW t \in Threads, NEW levels \in Requests,
               NEW m \in {"wait", "try"}, lock_slurmctld(t, levels, m)
        PROVE  \E e \in Entity : Blocked(s, e)'
    <2>1. t \notin asleep
      BY <1>5 DEF lock_slurmctld, CallShape, ThreadShape
    <2>2. s \in asleep /\ UNCHANGED <<held[s], req[s]>>
      BY <1>0, <1>5, <2>1 DEF lock_slurmctld
    <2>3. Kept
      BY <1>5 DEF lock_slurmctld, Kept
    <2> QED
      BY <1>1, <2>2, <2>3
  <1>6. CASE UNCHANGED <<read_lock, write_lock, write_wait_lock, asleep, held, req>>
    <2>1. Kept
      BY <1>6 DEF Kept
    <2> QED
      BY <1>1, <1>6, <2>1
  <1> QED
    BY <1>2, <1>3, <1>4, <1>5, <1>6
       DEF Next, Step, Call, lock_state_files, unlock_state_files, vars

\* No thread sleeps in wr_rdlock or wr_wrlock while the lock it waits for is
\* free: the single condition variable loses no wakeup.
THEOREM NoLostWakeup == Spec => []SleepersBlocked
  <1>1. Init => SleepersBlocked
    BY DEF Init, SleepersBlocked
  <1> QED
    BY <1>1, SleepersStep, LockInvariant, PTL DEF Spec

\* Take the sleeper that waits for the greatest class.  Whoever holds that
\* class is in a call, and is not asleep: asleep it would wait for a class
\* beyond it, since every call locks the classes in order.
LEMMA OrderExcludesCycle == LockInv /\ SleepersBlocked => NoCircularWait
  <1> SUFFICES ASSUME LockInv, SleepersBlocked, asleep # {},
                      \A t \in Threads \ asleep : pc[t] = "idle"
               PROVE  FALSE
    BY DEF NoCircularWait
  <1> USE DEF LockInv, TypeOK
  <1> DEFINE W == {e \in Entity : \E t \in asleep : NextToLock(t, e)}
  <1>1. PICK m \in W : \A x \in W : x <= m
    <2>1. W # {} /\ W \in SUBSET Entity
      BY DEF SleepersBlocked
    <2> QED
      BY <2>1, EntityAssumption
  <1>2. PICK s \in asleep : NextToLock(s, m)
    BY <1>1
  <1>3. ASSUME NEW u \in Threads, m \in held[u]
        PROVE  FALSE
    <2>1. u \in asleep
      BY <1>3, NoRequestWanted DEF CallShape, ThreadShape
    <2>2. pc[u] = "loop"
      BY <2>1 DEF CallShape, ThreadShape
    <2>3. PICK f \in Entity : NextToLock(u, f)
      BY <2>2, NextExists
    <2>4. m < f
      BY <1>3, <2>2, <2>3 DEF CallShape, ThreadShape, NextToLock
    <2>5. f <= m
      BY <1>1, <2>1, <2>3
    <2> QED
      BY SMT, <2>4, <2>5, EntityAssumption
  <1>4. Readers(m) = {} /\ Writers(m) = {}
    BY <1>3 DEF Readers, Writers
  <1>5. MayWrite(m)
    BY <1>4, Counted DEF MayWrite
  <1>6. Pending(m) = {}
    <2> SUFFICES ASSUME NEW u \in Pending(m) PROVE FALSE
      OBVIOUS
    <2>1. u \in asleep /\ NextToLock(u, m) /\ req[u][m] = "WRITE_LOCK"
      BY DEF Pending
    <2> QED
      BY <1>5, <2>1, NextUnique DEF SleepersBlocked
  <1>7. MayRead(m)
    BY <1>4, <1>6, Counted DEF MayRead
  <1>8. req[s][m] \in {"READ_LOCK", "WRITE_LOCK"}
    BY SMT, <1>2, RequestsAssumption
       DEF NextToLock, Wanted, NoRequest, LockLevel
  <1> QED
    BY <1>2, <1>5, <1>7, <1>8, NextUnique DEF SleepersBlocked

\* Whatever sets of classes the callers ask for, they never all wait for one
\* another in lock_slurmctld.
THEOREM NoDeadlock == Spec => []NoCircularWait
  BY OrderExcludesCycle, LockInvariant, NoLostWakeup, PTL

\* No reader passes a waiting writer in wr_rdlock.
THEOREM WriterPreference == Spec => WritersFirst
  <1>1. LockInv /\ [Next]_vars =>
          [\A e \in Entity : write_wait_lock[e] > 0
                                => read_lock'[e] <= read_lock[e]]_vars
    <2> SUFFICES ASSUME LockInv, [Next]_vars, NEW e \in Entity,
                        write_wait_lock[e] > 0
                 PROVE  read_lock'[e] <= read_lock[e]
      OBVIOUS
    <2> USE DEF LockInv, TypeOK
    <2>1. ASSUME NEW t \in Threads, NEW f \in Entity, wr_rdlock(t, f)
          PROVE  read_lock'[e] <= read_lock[e]
      BY SMT, <2>1 DEF wr_rdlock, MayRead
    <2>2. ASSUME NEW t \in Threads, NEW f \in Entity, wr_unlock(t, f)
          PROVE  read_lock'[e] <= read_lock[e]
      BY SMT, <2>2 DEF wr_unlock
    <2>3. CASE UNCHANGED read_lock
      BY SMT, <2>3
    <2> QED
      BY <2>1, <2>2, <2>3 DEF Next, Step, Call, wr_wrlock, lock_slurmctld,
         lock_state_files, unlock_state_files, vars
  <1> QED
    BY <1>1, LockInvariant, PTL DEF Spec, WritersFirst
=============================================================================
