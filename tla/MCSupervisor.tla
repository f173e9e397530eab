---------------------------- MODULE MCSupervisor ----------------------------
(* The supervisor with two released pairs and a handful of revisions. *)
EXTENDS Supervisor
=============================================================================
