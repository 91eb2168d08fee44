----------------------------- MODULE Broadcast -----------------------------
(***************************************************************************)
(* What forwarding a message along a tree promises to the thread that asks *)
(* for it, whatever happens to the nodes of the tree: the list of answers  *)
(* grows by hosts that have none, a failure being an answer too, and the   *)
(* call returns when every host has one.  start_msg_tree() implements it   *)
(* by counting its threads (module MsgTree), forward_wait() by counting    *)
(* the answers (module ForwardMsg).                                        *)
(***************************************************************************)
CONSTANT Hosts

VARIABLES
    answered,   \* hosts with an answer in the list, exactly one
    returned    \* the call has returned

vars == <<answered, returned>>

Init == answered = {} /\ returned = FALSE

Answer(S) ==
    /\ ~returned
    /\ S \cap answered = {}
    /\ answered' = answered \cup S
    /\ UNCHANGED returned

Return ==
    /\ answered = Hosts
    /\ returned' = TRUE
    /\ UNCHANGED answered

Next == (\E S \in SUBSET Hosts : Answer(S)) \/ Return

Spec == Init /\ [][Next]_vars
=============================================================================
