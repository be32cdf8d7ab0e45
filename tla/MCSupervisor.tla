---------------------------- MODULE MCSupervisor ----------------------------
(***************************************************************************)
(* Supervisor on small sets of slots.                                      *)
(***************************************************************************)
EXTENDS Supervisor
=============================================================================
