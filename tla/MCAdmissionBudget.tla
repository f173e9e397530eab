-------------------------- MODULE MCAdmissionBudget --------------------------
(* AdmissionBudget on the small instances of MCAdmission. *)
EXTENDS MCAdmission, AdmissionBudget
=============================================================================
