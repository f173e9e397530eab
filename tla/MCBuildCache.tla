---------------------------- MODULE MCBuildCache ----------------------------
(* A worker with a prepared package beside workers that take uploads. *)
EXTENDS BuildCache
=============================================================================
