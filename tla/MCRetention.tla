---------------------------- MODULE MCRetention ----------------------------
(* One visitor around one cutover: others could only keep the old worker *)
(* busy for longer. *)
EXTENDS Retention
=============================================================================
