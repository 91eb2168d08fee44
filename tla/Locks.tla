------------------------------- MODULE Locks -------------------------------
(***************************************************************************)
(* The read/write locks of slurmctld (src/slurmctld/locks.c): one lock per *)
(* class of data (config, job, node, partition, federation), built from    *)
(* three counters per class, one mutex and one condition variable.         *)
(*                                                                         *)
(* Every critical section of locks_mutex is one atomic step here, because  *)
(* the code touches the counters only with that mutex held.  A thread that *)
(* calls pthread_cond_wait is in `asleep' until somebody broadcasts; it    *)
(* then competes again and re-evaluates its condition.                     *)
(***************************************************************************)
EXTENDS Naturals, FiniteSets

CONSTANTS
    Threads,    \* the pthreads of slurmctld that take these locks
    Entity,     \* lock_datatype_t: CONFIG_LOCK .. FED_LOCK, in locking order
    Requests    \* the slurmctld_lock_t arguments callers pass

LockLevel == {"NO_LOCK", "READ_LOCK", "WRITE_LOCK"}

\* The classes an argument asks for: the branches lock_slurmctld takes.
Wanted(levels) == {e \in Entity : levels[e] # "NO_LOCK"}

NoRequest == [e \in Entity |-> "NO_LOCK"]

ASSUME ThreadsAssumption == IsFiniteSet(Threads)

\* The enum is ordered, and every set of classes has a greatest member.
ASSUME EntityAssumption ==
    /\ Entity \subseteq Nat
    /\ \A S \in SUBSET Entity : S # {} => \E m \in S : \A x \in S : x <= m
    /\ \A S \in SUBSET Entity : S # {} => \E m \in S : \A x \in S : m <= x

ASSUME RequestsAssumption ==
    /\ Requests \subseteq [Entity -> LockLevel]
    /\ \A levels \in Requests : Wanted(levels) # {}

VARIABLES
    read_lock,       \* read locks in use, per class
    write_lock,      \* write locks in use, per class
    write_wait_lock, \* write locks pending, per class
    pc,              \* where each thread is in the calls below
    req,             \* lock_levels argument of the current call
    mode,            \* wait_lock argument: "try" in try_lock_slurmctld
    held,            \* classes the current call has locked so far
    asleep,          \* threads inside pthread_cond_wait, not yet signalled
    files            \* state_mutex: "no", "want" or "own", per thread

vars == <<read_lock, write_lock, write_wait_lock, pc, req, mode, held,
          asleep, files>>

PC == {"idle", "lock", "loop", "held", "unlock"}

TypeOK ==
    /\ read_lock \in [Entity -> Nat]
    /\ write_lock \in [Entity -> Nat]
    /\ write_wait_lock \in [Entity -> Nat]
    /\ pc \in [Threads -> PC]
    /\ req \in [Threads -> Requests \cup {NoRequest}]
    /\ mode \in [Threads -> {"wait", "try"}]
    /\ held \in [Threads -> SUBSET Entity]
    /\ asleep \in SUBSET Threads
    /\ files \in [Threads -> {"no", "want", "own"}]

init_locks ==
    /\ read_lock = [e \in Entity |-> 0]
    /\ write_lock = [e \in Entity |-> 0]
    /\ write_wait_lock = [e \in Entity |-> 0]

Init ==
    /\ init_locks
    /\ pc = [t \in Threads |-> "idle"]
    /\ req = [t \in Threads |-> NoRequest]
    /\ mode = [t \in Threads |-> "wait"]
    /\ held = [t \in Threads |-> {}]
    /\ asleep = {}
    /\ files = [t \in Threads |-> "no"]
-----------------------------------------------------------------------------
\* Altered form: the classes in any order.
NextToLockAnyOrder(t, e) == e \in Wanted(req[t]) \ held[t]

\* The order in which lock_slurmctld and try_lock_slurmctld visit the classes.
NextToLock(t, e) ==
    /\ e \in Wanted(req[t]) \ held[t]
    /\ \A f \in Wanted(req[t]) \ held[t] : e <= f

\* The order in which unlock_slurmctld and the failure paths visit them.
NextToUnlock(t, e) ==
    /\ e \in held[t]
    /\ \A f \in held[t] : f <= e

\* t holds locks_mutex at the top of the while loop for class e: either it
\* has just issued the request or it has come back from pthread_cond_wait.
Testing(t, e, level) ==
    /\ pc[t] \in {"lock", "loop"}
    /\ t \notin asleep
    /\ NextToLock(t, e)
    /\ req[t][e] = level

\* The class is locked; the call goes on to the next class or returns.
Granted(t, e) ==
    /\ held' = [held EXCEPT ![t] = @ \cup {e}]
    /\ pc' = [pc EXCEPT ![t] = IF Wanted(req[t]) = held[t] \cup {e}
                                THEN "held" ELSE "lock"]
    /\ UNCHANGED <<req, mode, asleep>>

\* The rest of a call that still has the classes `left' to unlock: with none
\* left it returns, and its arguments are gone.
Unwind(t, left) ==
    /\ held' = [held EXCEPT ![t] = left]
    /\ pc' = [pc EXCEPT ![t] = IF left = {} THEN "idle" ELSE "unlock"]
    /\ req' = [req EXCEPT ![t] = IF left = {} THEN NoRequest ELSE @]
    /\ mode' = [mode EXCEPT ![t] = IF left = {} THEN "wait" ELSE @]

\* try_lock_slurmctld gives back what it took and returns -1.
Refused(t) ==
    /\ Unwind(t, held[t])
    /\ UNCHANGED asleep

\* pthread_cond_wait on locks_cond
Sleep(t) ==
    /\ pc' = [pc EXCEPT ![t] = "loop"]
    /\ asleep' = asleep \cup {t}
    /\ UNCHANGED <<held, req, mode>>

\* Altered form: readers pass waiting writers.
MayReadPastWriter(e) == write_lock[e] = 0

MayRead(e) == write_lock[e] = 0 /\ write_wait_lock[e] = 0

\* Altered form: the writer looks at writers only.
MayWriteOverReaders(e) == write_lock[e] = 0

MayWrite(e) == read_lock[e] = 0 /\ write_lock[e] = 0

wr_rdlock(t, e) ==
    /\ Testing(t, e, "READ_LOCK")
    /\ \/ /\ MayRead(e)
          /\ read_lock' = [read_lock EXCEPT ![e] = @ + 1]
          /\ Granted(t, e)
       \/ /\ ~MayRead(e) /\ mode[t] = "wait"
          /\ Sleep(t)
          /\ UNCHANGED read_lock
       \/ /\ ~MayRead(e) /\ mode[t] = "try"
          /\ Refused(t)
          /\ UNCHANGED read_lock
    /\ UNCHANGED <<write_lock, write_wait_lock, files>>

\* A writer counts itself in write_wait_lock on entry, and out again when it
\* gets the lock or gives up, all within one hold of the mutex if it does not
\* have to sleep.
wr_wrlock(t, e) ==
    /\ Testing(t, e, "WRITE_LOCK")
    /\ LET before == IF pc[t] = "loop" THEN 1 ELSE 0
           Count(after) == write_wait_lock' =
               [write_wait_lock EXCEPT ![e] = (@ + after) - before]
       IN \/ /\ MayWrite(e)
             /\ write_lock' = [write_lock EXCEPT ![e] = @ + 1]
             /\ Count(0)
             /\ Granted(t, e)
          \/ /\ ~MayWrite(e) /\ mode[t] = "wait"
             /\ Count(1)
             /\ Sleep(t)
             /\ UNCHANGED write_lock
          \/ /\ ~MayWrite(e) /\ mode[t] = "try"
             /\ Count(0)
             /\ Refused(t)
             /\ UNCHANGED write_lock
    /\ UNCHANGED <<read_lock, files>>

\* Altered form: nobody is woken.
NoBroadcast == UNCHANGED asleep

Broadcast == asleep' = {}

\* unlock_slurmctld, one class; also the undo path of try_lock_slurmctld.
\* wr_rdunlock and wr_wrunlock both end in a broadcast.
wr_unlock(t, e) ==
    /\ pc[t] \in {"held", "unlock"}
    /\ files[t] = "no"
    /\ NextToUnlock(t, e)
    /\ \/ /\ req[t][e] = "READ_LOCK"
          /\ read_lock' = [read_lock EXCEPT ![e] = @ - 1]
          /\ UNCHANGED write_lock
       \/ /\ req[t][e] = "WRITE_LOCK"
          /\ write_lock' = [write_lock EXCEPT ![e] = @ - 1]
          /\ UNCHANGED read_lock
    /\ Broadcast
    /\ Unwind(t, held[t] \ {e})
    /\ UNCHANGED <<write_wait_lock, files>>

\* A thread calls lock_slurmctld (m = "wait") or try_lock_slurmctld.
lock_slurmctld(t, levels, m) ==
    /\ pc[t] = "idle" /\ files[t] = "no"
    /\ pc' = [pc EXCEPT ![t] = "lock"]
    /\ req' = [req EXCEPT ![t] = levels]
    /\ mode' = [mode EXCEPT ![t] = m]
    /\ UNCHANGED <<read_lock, write_lock, write_wait_lock, held, asleep, files>>

\* State files are written with no lock held and read back with locks held;
\* no caller takes a lock while it owns state_mutex.
lock_state_files(t) ==
    /\ pc[t] \in {"idle", "held"}
    /\ \/ files[t] = "no" /\ files' = [files EXCEPT ![t] = "want"]
       \/ /\ files[t] = "want"
          /\ \A u \in Threads : files[u] # "own"
          /\ files' = [files EXCEPT ![t] = "own"]
    /\ UNCHANGED <<read_lock, write_lock, write_wait_lock, pc, req, mode, held,
                   asleep>>

unlock_state_files(t) ==
    /\ files[t] = "own"
    /\ files' = [files EXCEPT ![t] = "no"]
    /\ UNCHANGED <<read_lock, write_lock, write_wait_lock, pc, req, mode, held,
                   asleep>>
-----------------------------------------------------------------------------
\* What a thread inside a call does, on its own.
Step(t) ==
    \/ \E e \in Entity : wr_rdlock(t, e) \/ wr_wrlock(t, e) \/ wr_unlock(t, e)
    \/ files[t] = "want" /\ lock_state_files(t)
    \/ unlock_state_files(t)

Call(t) ==
    \/ \E levels \in Requests, m \in {"wait", "try"} : lock_slurmctld(t, levels, m)
    \/ files[t] = "no" /\ lock_state_files(t)

Next == \E t \in Threads : Step(t) \/ Call(t)

\* A thread that can take a mutex eventually does, and a thread that holds
\* locks finishes its work and releases them; nothing makes a thread call.
Fairness == \A t \in Threads : WF_vars(Step(t))

Spec == Init /\ [][Next]_vars /\ Fairness
-----------------------------------------------------------------------------
Readers(e) == {t \in Threads : e \in held[t] /\ req[t][e] = "READ_LOCK"}

Writers(e) == {t \in Threads : e \in held[t] /\ req[t][e] = "WRITE_LOCK"}

\* Threads inside the while loop of wr_wrlock for class e.
Pending(e) ==
    {t \in Threads : /\ pc[t] = "loop" /\ NextToLock(t, e)
                     /\ req[t][e] = "WRITE_LOCK"}

\* Where a thread is in a call determines what it holds: a prefix, in locking
\* order, of what it asked for while locking; all of it in between; nothing
\* outside the call.
ThreadShape(t) ==
    /\ held[t] \subseteq Wanted(req[t])
    /\ pc[t] = "idle" => req[t] = NoRequest
    /\ pc[t] \in {"lock", "loop"} =>
           /\ held[t] # Wanted(req[t])
           /\ \A e \in held[t] : \A f \in Wanted(req[t]) \ held[t] : e < f
    /\ pc[t] = "held" => held[t] = Wanted(req[t])
    /\ pc[t] \in {"held", "unlock"} => held[t] # {}
    /\ pc[t] = "loop" => mode[t] = "wait"
    /\ t \in asleep => pc[t] = "loop"
    /\ files[t] # "no" => pc[t] \in {"idle", "held"}

CallShape == \A t \in Threads : ThreadShape(t)

\* The counters agree with the threads: they never under- or overcount, so
\* no lock is leaked or released twice, whatever path a call takes.
CountersExact ==
    \A e \in Entity :
        /\ read_lock[e] = Cardinality(Readers(e))
        /\ write_lock[e] = Cardinality(Writers(e))
        /\ write_wait_lock[e] = Cardinality(Pending(e))

\* Two threads in possession of the same class both only read it: what
\* lock_slurmctld promises every caller in slurmctld.
Exclusion ==
    \A t, u \in Threads : \A e \in held[t] \cap held[u] :
        t # u => req[t][e] = "READ_LOCK" /\ req[u][e] = "READ_LOCK"

\* No lost wakeup: a thread left in pthread_cond_wait is there because the
\* condition it waits for is false.
SleepersBlocked ==
    \A t \in asleep : \E e \in Entity :
        /\ NextToLock(t, e)
        /\ req[t][e] = "READ_LOCK" => ~MayRead(e)
        /\ req[t][e] = "WRITE_LOCK" => ~MayWrite(e)

\* The fixed order of classes excludes a circular wait: if any thread is
\* inside pthread_cond_wait, some thread that is in a call is not.
NoCircularWait ==
    asleep # {} => \E t \in Threads \ asleep : pc[t] # "idle"

\* Writers first: while a writer waits for a class no reader is let in, which
\* is what keeps a stream of readers from starving it.
WritersFirst ==
    [][\A e \in Entity : write_wait_lock[e] > 0 => read_lock'[e] <= read_lock[e]]_vars

\* Every call returns once threads stop making new calls.
CallsReturn ==
    <>[][\A t \in Threads : ~Call(t)]_vars
        => \A t \in Threads : pc[t] \in {"lock", "loop"} ~> pc[t] \in {"held", "idle"}
=============================================================================
