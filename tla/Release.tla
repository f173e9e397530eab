------------------------------- MODULE Release -------------------------------
(***************************************************************************)
(* The Android version of a deployment: version.rs, where the web server   *)
(* resolves it (main), and the revision the supervisor of the deployment   *)
(* allocates for an update (run_managed.py).  A result is a set with the   *)
(* revision, or the empty set for an error.                                *)
(***************************************************************************)
EXTENDS Integers

CONSTANTS
    BaseCode,       \* 800 000
    MaxRevision     \* 2 100 000 000 - BaseCode

ASSUME ReleaseAssumption == BaseCode \in Nat /\ MaxRevision \in Nat

\* Zero stands for automatic and for a development build.
ResolveWith(configured, compiled) ==
    LET revision == IF compiled = 0 THEN configured ELSE compiled
    IN  IF \/ (compiled # 0 /\ configured # 0 /\ compiled # configured)
           \/ revision = 0
           \/ revision > MaxRevision
        THEN {} ELSE {revision}

\* `wanted' is the deployment revision, an option again.
Deployment(configured, compiled, wanted) ==
    UNION {IF wanted = {} THEN {base}
           ELSE UNION {ResolveWith(w, 0) : w \in {w \in wanted : w >= base}} :
            base \in ResolveWith(configured, compiled)}

VersionCode(revision) == BaseCode + revision

\* main resolves the release, keeps it as the configured revision, and serves
\* the deployment's version.
Serving(c) ==
    UNION {Deployment(base, c.compiled, c.wanted) :
            base \in ResolveWith(c.configured, c.compiled)}

\* Mutant: the revision in use is allocated again.
AllocateInPlace(previous, compiled) ==
    {r \in {IF previous > compiled THEN previous ELSE compiled} : r \in 1..MaxRevision}

\* next_revision
Allocate(previous, compiled) ==
    {r \in {IF previous + 1 > compiled THEN previous + 1 ELSE compiled} :
        r \in 1..MaxRevision}

\* stage writes the generation's configuration: the revision is allocated
\* above the version the installation reports, and the release is left to the
\* binary.
Staged(installed, compiled) ==
    {[configured |-> 0, compiled |-> compiled, wanted |-> {r}] :
        r \in UNION {Allocate(v, compiled) : v \in Serving(installed)}}
=============================================================================
