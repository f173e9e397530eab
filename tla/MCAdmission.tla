----------------------------- MODULE MCAdmission -----------------------------
(* The admission layer on small instances. *)
EXTENDS Admission, TLC

\* One second of the model stands for the shortest interval of the code that
\* matters here (60 seconds); the other durations keep their order: a handler
\* other than the upload's ends before the next sweep, and no bucket takes
\* longer to refill than the idle floor.
MCCap    == [k \in Class |-> IF k = General THEN 2 ELSE 1]
MCPeriod == [k \in Class |-> IF k = General THEN 1 ELSE 2]
OneCap   == [k \in Class |-> 1]

Symmetry == Permutations(Request) \cup Permutations(IP)
=============================================================================
