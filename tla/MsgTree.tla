------------------------------ MODULE MsgTree ------------------------------
(***************************************************************************)
(* The head of a message tree (start_msg_tree(), _start_msg_tree_internal()*)
(* and _fwd_tree_thread() in src/common/forward.c).  The hosts are split   *)
(* into branches with one thread each; a thread sends the message to the   *)
(* first host of its branch, which forwards it to the others and returns   *)
(* their answers with its own.  If that fails the thread abandons the tree *)
(* and starts a thread for every host of the branch it has no answer from. *)
(* mutex, condition, thread count and list of answers live on the stack of *)
(* start_msg_tree, which must not return before the last thread is done.   *)
(***************************************************************************)
EXTENDS Naturals, FiniteSets

CONSTANTS
    Hosts,
    NoThread        \* not a host

ASSUME HostsAssumption == IsFiniteSet(Hosts) /\ NoThread \notin Hosts

VARIABLES
    branch,         \* split of the hosts: the first host of each host's branch
    started,        \* branches whose thread was created
    head,           \* start_msg_tree
    thr_count,
    thr,            \* the threads, named after the first host they are given
    tree_hl,        \* thread whose hostlist holds each host, or NoThread
    name,           \* host each thread is asking
    ret_list        \* number of answers listed for each host

tree_vars == <<branch, started, head, thr_count, thr, tree_hl, name, ret_list>>

Live(t) == thr[t] \in {"loop", "sent", "spawn", "destroy"}

Left(t) == {h \in Hosts : tree_hl[h] = t}

\* route_g_split_hostlist: any split into branches.
Splits == {f \in [Hosts -> Hosts] : \A h \in Hosts : f[f[h]] = f[h]}

TreeInit ==
    /\ branch \in Splits
    /\ started = {}
    /\ head = "start"
    /\ thr_count = 0
    /\ thr = [h \in Hosts |-> "none"]
    /\ tree_hl = [h \in Hosts |-> NoThread]
    /\ name = [h \in Hosts |-> NoThread]
    /\ ret_list = [h \in Hosts |-> 0]
-----------------------------------------------------------------------------
(* start_msg_tree                                                            *)

\* _start_msg_tree_internal counts a thread before it creates it.
head_start(b) ==
    /\ head = "start"
    /\ b \in {branch[h] : h \in Hosts} \ started
    /\ started' = started \cup {b}
    /\ thr_count' = thr_count + 1
    /\ thr' = [thr EXCEPT ![b] = "loop"]
    /\ tree_hl' = [h \in Hosts |-> IF branch[h] = b THEN b ELSE tree_hl[h]]
    /\ UNCHANGED <<branch, head, name, ret_list>>

head_started ==
    /\ head = "start" /\ \A h \in Hosts : branch[h] \in started
    /\ head' = "check"
    /\ UNCHANGED <<branch, started, thr_count, thr, tree_hl, name, ret_list>>

\* while (thr_count > 0) wait for notify
head_check ==
    /\ head = "check"
    /\ head' = IF thr_count > 0 THEN "asleep" ELSE "returned"
    /\ UNCHANGED <<branch, started, thr_count, thr, tree_hl, name, ret_list>>

\* slurm_cond_signal(notify), with tree_mutex held
Signalled == IF head = "asleep" THEN "check" ELSE head
-----------------------------------------------------------------------------
(* _fwd_tree_thread                                                          *)

\* hostlist_shift (the host a thread is named after is the first of its list)
\* and slurm_conf_get_addr, which may not know the host.
fwd_shift(t, n) ==
    /\ thr[t] = "loop" /\ n \in Left(t)
    /\ t \in Left(t) => n = t
    /\ tree_hl' = [tree_hl EXCEPT ![n] = NoThread]
    /\ \/ /\ ret_list' = [ret_list EXCEPT ![n] = @ + 1]
          /\ head' = Signalled
          /\ UNCHANGED <<thr, name>>
       \/ /\ thr' = [thr EXCEPT ![t] = "sent"]
          /\ name' = [name EXCEPT ![t] = n]
          /\ UNCHANGED <<head, ret_list>>
    /\ UNCHANGED <<branch, started, thr_count>>

\* slurm_send_addr_recv_msgs fails: it returns the host as failed and sets
\* errno.  The thread abandons the tree if there are other hosts.
fwd_failed(t) ==
    /\ thr[t] = "sent"
    /\ ret_list' = [ret_list EXCEPT ![name[t]] = @ + 1]
    /\ head' = Signalled
    /\ thr' = [thr EXCEPT ![t] = IF Left(t) = {} THEN "loop" ELSE "spawn"]
    /\ UNCHANGED <<branch, started, thr_count, tree_hl, name>>

\* Mutant of fwd_answered: the hosts that answered stay in the list it abandons.
AnsweredKeep(t, got) ==
    /\ thr[t] = "sent" /\ got \subseteq Left(t)
    /\ ret_list' = [h \in Hosts |-> IF h \in got \cup {name[t]}
                                      THEN ret_list[h] + 1 ELSE ret_list[h]]
    /\ head' = Signalled
    /\ thr' = [thr EXCEPT ![t] = IF got = Left(t) THEN "destroy" ELSE "spawn"]
    /\ UNCHANGED <<branch, started, thr_count, name, tree_hl>>

\* It returns the answers of the host and of the hosts in got.  If some are
\* missing those listed are deleted from the hostlist and the tree abandoned.
fwd_answered(t, got) ==
    /\ thr[t] = "sent" /\ got \subseteq Left(t)
    /\ ret_list' = [h \in Hosts |-> IF h \in got \cup {name[t]}
                                      THEN ret_list[h] + 1 ELSE ret_list[h]]
    /\ head' = Signalled
    /\ IF got = Left(t)
         THEN /\ thr' = [thr EXCEPT ![t] = "destroy"]
              /\ UNCHANGED tree_hl
         ELSE /\ thr' = [thr EXCEPT ![t] = "spawn"]
              /\ tree_hl' = [h \in Hosts |-> IF h \in got THEN NoThread ELSE tree_hl[h]]
    /\ UNCHANGED <<branch, started, thr_count, name>>

\* Mutant of fwd_spawn: a thread of an abandoned branch is not counted.
SpawnUncounted(t, n) ==
    /\ thr[t] = "spawn" /\ n \in Left(t)
    /\ thr' = [thr EXCEPT ![n] = "loop"]
    /\ tree_hl' = [tree_hl EXCEPT ![n] = n]
    /\ UNCHANGED <<branch, started, head, name, ret_list, thr_count>>

\* _start_msg_tree_internal with a thread for every host left.
fwd_spawn(t, n) ==
    /\ thr[t] = "spawn" /\ n \in Left(t)
    /\ thr_count' = thr_count + 1
    /\ thr' = [thr EXCEPT ![n] = "loop"]
    /\ tree_hl' = [tree_hl EXCEPT ![n] = n]
    /\ UNCHANGED <<branch, started, head, name, ret_list>>

fwd_spawned(t) ==
    /\ thr[t] = "spawn" /\ Left(t) = {}
    /\ thr' = [thr EXCEPT ![t] = "loop"]
    /\ UNCHANGED <<branch, started, head, thr_count, tree_hl, name, ret_list>>

\* hostlist_shift returns NULL
fwd_exit(t) ==
    /\ thr[t] = "loop" /\ Left(t) = {}
    /\ thr' = [thr EXCEPT ![t] = "destroy"]
    /\ UNCHANGED <<branch, started, head, thr_count, tree_hl, name, ret_list>>

\* Mutant of _destroy_tree_fwd: the thread is not taken from the count.
DestroyUncounted(t) ==
    /\ thr[t] = "destroy"
    /\ thr' = [thr EXCEPT ![t] = "gone"]
    /\ tree_hl' = [h \in Hosts |-> IF tree_hl[h] = t THEN NoThread ELSE tree_hl[h]]
    /\ head' = Signalled
    /\ UNCHANGED <<branch, started, name, ret_list, thr_count>>

_destroy_tree_fwd(t) ==
    /\ thr[t] = "destroy"
    /\ thr' = [thr EXCEPT ![t] = "gone"]
    /\ tree_hl' = [h \in Hosts |-> IF tree_hl[h] = t THEN NoThread ELSE tree_hl[h]]
    /\ thr_count' = thr_count - 1
    /\ head' = Signalled
    /\ UNCHANGED <<branch, started, name, ret_list>>
-----------------------------------------------------------------------------
Step(t) ==
    \/ \E n \in Left(t) : fwd_shift(t, n) \/ fwd_spawn(t, n)
    \/ fwd_failed(t) \/ \E got \in SUBSET Left(t) : fwd_answered(t, got)
    \/ fwd_spawned(t) \/ fwd_exit(t) \/ _destroy_tree_fwd(t)

TreeNext ==
    \/ \E b \in Hosts : head_start(b)
    \/ head_started \/ head_check
    \/ \E t \in Hosts : Step(t)

TreeSpec == TreeInit /\ [][TreeNext]_tree_vars

\* Threads run, and a send ends by its timeout at the latest.
TreeFairness ==
    /\ WF_tree_vars(\E b \in Hosts : head_start(b))
    /\ WF_tree_vars(head_started) /\ WF_tree_vars(head_check)
    /\ \A t \in Hosts : WF_tree_vars(Step(t))

TreeLiveSpec == TreeSpec /\ TreeFairness
-----------------------------------------------------------------------------
\* Every variable stays in its type.
TreeTypeOK ==
    /\ branch \in Splits
    /\ started \subseteq Hosts
    /\ head \in {"start", "check", "asleep", "returned"}
    /\ thr_count \in Nat
    /\ thr \in [Hosts -> {"none", "loop", "sent", "spawn", "destroy", "gone"}]
    /\ tree_hl \in [Hosts -> Hosts \cup {NoThread}]
    /\ name \in [Hosts -> Hosts \cup {NoThread}]
    /\ ret_list \in [Hosts -> Nat]

\* _start_msg_tree_internal, _destroy_tree_fwd: thr_count is the number of
\* threads that may still use the stack of start_msg_tree.
CountExact == thr_count = Cardinality({t \in Hosts : Live(t)})

\* start_msg_tree: no thread is left when it returns and its mutex, condition
\* and counter go out of scope.
HeadLast == head = "returned" => \A t \in Hosts : ~Live(t)

\* start_msg_tree, xassert(count >= host_count): when it returns every host has
\* exactly one answer, whatever failed in the tree below.
AllAnsweredOnce == head = "returned" => \A h \in Hosts : ret_list[h] = 1

\* start_msg_tree and its threads keep the promise of Broadcast: no host is listed twice
\* at any time and for any order of failures, and the call returns with all of them.
Promise == INSTANCE Broadcast WITH
               answered <- {h \in Hosts : ret_list[h] = 1},
               returned <- (head = "returned")
TreeKeepsPromise == Promise!Spec

\* No host is ever listed twice, at any time and for any order of failures.
NeverTwice == \A h \in Hosts : ret_list[h] <= 1

\* start_msg_tree waits for notify only while a thread will signal it.
HeadWakes == head = "asleep" => thr_count > 0

\* start_msg_tree returns, however many branches fail.
TreeReturns == <>(head = "returned")
=============================================================================
