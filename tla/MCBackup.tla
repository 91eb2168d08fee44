------------------------------ MODULE MCBackup ------------------------------
(***************************************************************************)
(* Instance of Backup; the cfg file gives the bounds.                      *)
(***************************************************************************)
EXTENDS Backup
=============================================================================
