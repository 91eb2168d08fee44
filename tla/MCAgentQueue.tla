---------------------------- MODULE MCAgentQueue ----------------------------
(***************************************************************************)
(* A small load for AgentQueue: an ordinary request, a batch launch and a  *)
(* shutdown request, of different sizes.                                   *)
(***************************************************************************)
EXTENDS AgentQueue, TLC

CONSTANTS signal, launch, stop

MCkind == (signal :> "other") @@ (launch :> "launch")
              @@ (stop :> "shutdown")

MCnode_count == (signal :> 3) @@ (launch :> 1) @@ (stop :> 2)
=============================================================================
