---------------------------- MODULE MCSupervisor ----------------------------
(***************************************************************************)
(* A small instance of Supervisor for TLC.                                 *)
(***************************************************************************)
EXTENDS Supervisor

=============================================================================
