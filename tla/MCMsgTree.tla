----------------------------- MODULE MCMsgTree -----------------------------
(***************************************************************************)
(* Instance of MsgTree for a few hosts; the cfg file names them.           *)
(***************************************************************************)
EXTENDS MsgTree
=============================================================================
