--------------------------- MODULE AdmissionBudget ---------------------------
(***************************************************************************)
(* The admission layer with a history of the budget each address has been  *)
(* granted over its whole life, including what the ledger forgets when it  *)
(* prunes an entry.  The history follows the steps of Admission and never  *)
(* influences them.                                                        *)
(***************************************************************************)
EXTENDS Admission

\* The sweep forgets no bucket that is still refilling: 600 seconds are the
\* longest period, ttl is 60 seconds more, and no thread rests half a minute
\* between reading the clock and locking the ledger.
ASSUME TtlAssumption == \A k \in Class : Period[k] + 2 * MaxSkew <= Ttl

VARIABLES
    granted,    \* granted[i][k]: tokens of bucket k ever given to address i
    rewound     \* rewound[i][k]: seconds by which stamps ran backwards there

history    == <<granted, rewound>>
budgetVars == <<vars, history>>

BudgetInit ==
    /\ Init
    /\ granted = [i \in IP |-> [k \in Class |-> 0]]
    /\ rewound = [i \in IP |-> [k \in Class |-> 0]]

\* Address i takes from the buckets in `asked' at t and gets those in `got'.
Tally(i, t, asked, got) ==
    /\ granted' = [granted EXCEPT ![i] =
                     [k \in Class |-> IF k \in got THEN @[k] + 1 ELSE @[k]]]
    /\ rewound' = [rewound EXCEPT ![i] =
                     [k \in Class |->
                        IF k \in asked /\ i \in DOMAIN clients
                        THEN @[k] + Elapsed(clients[i].buckets[k].updated, t)
                        ELSE @[k]]]

BudgetAdmit(r) ==
    LET i == req[r].ip  t == req[r].stamp  both == {General, req[r].class}
    IN  \/ /\ RefuseFull(r) \/ RefuseBanned(r) \/ RefuseCrowded(r)
           /\ UNCHANGED history
        \/ RefuseRate(r) /\ Tally(i, t, {General}, {})
        \/ RefuseOperation(r) /\ Tally(i, t, both, {General})
        \/ Accept(r) /\ Tally(i, t, both, both)

BudgetNext ==
    \/ /\ \/ Tick
          \/ \E r \in Request :
               \/ \E i \in IP, k \in Class : Arrive(r, i, k)
               \/ RespondOk(r)
               \/ RespondFailure(r)
               \/ HandlerTimeout(r)
               \/ Failed(r)
               \/ DropLease(r)
               \/ ReleasePermit(r)
       /\ UNCHANGED history
    \/ \E r \in Request : BudgetAdmit(r)

BudgetSpec == BudgetInit /\ [][BudgetNext]_budgetVars

-----------------------------------------------------------------------------
(* Properties.                                                             *)

\* The units of bucket k that address i could draw on right now.
Available(i, k) ==
    IF i \in DOMAIN clients
    THEN Refilled(clients[i].buckets[k], Cap[k], Period[k], now)
    ELSE Cap[k] * Period[k]

\* An address is never granted more than a full bucket plus what has been
\* refilled since the service started, even though the sweep throws entries
\* away and a returning address starts with full buckets (ttl outlasts every
\* refill period).  Stamps that reach the ledger out of order refill the
\* seconds by which they ran back once more, and nothing else does.
BudgetConserved ==
    \A i \in IP, k \in Class :
        granted[i][k] * Period[k] + Available(i, k)
            <= Cap[k] * (Period[k] + now + rewound[i][k])
=============================================================================
