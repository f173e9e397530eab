-------------------------- MODULE MCAdmissionBans --------------------------
(* AdmissionBans on the small instances of MCAdmission. *)
EXTENDS MCAdmission, AdmissionBans
=============================================================================
