---------------------------- MODULE MCForwardMsg ----------------------------
(***************************************************************************)
(* Instances of ForwardMsg for a few hosts; the cfg files name them.       *)
(***************************************************************************)
EXTENDS ForwardMsg
=============================================================================
