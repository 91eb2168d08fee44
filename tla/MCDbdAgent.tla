----------------------------- MODULE MCDbdAgent -----------------------------
(***************************************************************************)
(* Instance of DbdAgent.  Each message is of a class that is purged or of  *)
(* one that is not; those purged first and those purged second take turns. *)
(***************************************************************************)
EXTENDS DbdAgent

MCKinds == [n \in 1..MaxMsgs |-> {"other", IF n % 2 = 1 THEN "step" ELSE "start"}]
=============================================================================
