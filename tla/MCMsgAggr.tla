------------------------------ MODULE MCMsgAggr ------------------------------
(***************************************************************************)
(* Instance of MsgAggr.                                                    *)
(***************************************************************************)
EXTENDS MsgAggr
=============================================================================
