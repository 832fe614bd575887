-------------------------- MODULE MCCancelCommands --------------------------
(* Instance of CancelCommands.                                             *)
EXTENDS CancelCommands
=============================================================================
