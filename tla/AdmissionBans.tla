---------------------------- MODULE AdmissionBans ----------------------------
(***************************************************************************)
(* The admission layer with a history of the failures of each address and  *)
(* of the bans pronounced, including what the ledger forgets when it       *)
(* prunes an entry.  The history follows the steps of Admission and never  *)
(* influences them.                                                        *)
(***************************************************************************)
EXTENDS Admission, Sequences

\* ttl is at least a minute longer than the failure window, and no thread rests
\* that long between reading the clock and locking the ledger.
ASSUME SkewAssumption == FailureWindow + MaxSkew <= Ttl

VARIABLES
    sentence,   \* sentence[i]: the latest ban end ever pronounced
    failLog     \* failLog[i]: stamps of the failures since the last ban

banHistory == <<sentence, failLog>>
banVars    == <<vars, banHistory>>

\* The failures within one window after which a ban must have been
\* pronounced; also the length to which failLog is kept.
CertainBan == IF FailureLimit = 1 THEN 1 ELSE 3 * FailureLimit - 3

BanInit ==
    /\ Init
    /\ sentence = [i \in IP |-> 0]
    /\ failLog = [i \in IP |-> <<>>]

Latest(s, n) == IF Len(s) > n THEN SubSeq(s, Len(s) - n + 1, Len(s)) ELSE s

\* A failure enters the log; the ban it leads to closes the log.
BanFailed(r) ==
    LET i == req[r].ip
        t == req[r].stamp
        pronounced == i \in DOMAIN clients' /\ clients'[i].failures >= FailureLimit
    IN  /\ Failed(r)
        /\ failLog' = [failLog EXCEPT ![i] =
                         IF pronounced THEN <<>>
                         ELSE Latest(Append(@, t), CertainBan)]
        /\ sentence' = [sentence EXCEPT ![i] =
                          IF pronounced /\ t + BanSeconds > @
                          THEN t + BanSeconds ELSE @]

BanNext ==
    \/ /\ \/ Tick
          \/ \E r \in Request :
               \/ \E i \in IP, k \in Class : Arrive(r, i, k)
               \/ Admit(r)
               \/ RespondOk(r)
               \/ RespondFailure(r)
               \/ HandlerTimeout(r)
               \/ DropLease(r)
               \/ ReleasePermit(r)
       /\ UNCHANGED banHistory
    \/ \E r \in Request : BanFailed(r)

BanSpec == BanInit /\ [][BanNext]_banVars

-----------------------------------------------------------------------------
(* Properties.                                                             *)

\* A ban is served to its end: no sweep, pardon or request in flight lets the
\* address in earlier, except by the skew between racing failures, the last
\* of which to reach the ledger sets the end of the ban.
BanServed ==
    [][\A r \in Request :
         req[r].phase = "stamped" /\ req'[r].phase = "handling"
            => now + MaxSkew >= sentence[req[r].ip]]_banVars

\* The time between the earliest and the latest of the logged failures.
Within(s, seconds) ==
    \A m, n \in DOMAIN s : s[n] - s[m] < seconds

\* The ban the code guarantees.  The fixed window may restart once, at a
\* failure whose predecessor in the old window came before, and the sweep may
\* forget the entry of slow uploads once: up to 3 * FailureLimit - 4 failures
\* less than a window apart pass without a ban, and no more.
RepeatedFailuresBan ==
    \A i \in IP :
        Len(failLog[i]) = CertainBan => ~Within(failLog[i], FailureWindow)

\* README.md: "Eight qualifying failures within ten minutes trigger a
\* fifteen-minute in-process ban": no FailureLimit failures less than the
\* window apart pass without a ban.
DocumentedBan ==
    \A i \in IP :
        Len(failLog[i]) >= FailureLimit
            => ~Within(Latest(failLog[i], FailureLimit), FailureWindow)
=============================================================================
