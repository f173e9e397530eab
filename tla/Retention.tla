------------------------------ MODULE Retention ------------------------------
(***************************************************************************)
(* How long a replaced worker is kept: forward and the statistics task of  *)
(* patcher-web/src/gateway.rs, and the draining half of BlueGreen.maintain *)
(* (deploy/run_managed.py), from the cutover to the stop of the old        *)
(* worker.  The old worker's tickets follow PrebuiltWorker; an upload is a *)
(* request of any length that ends in a grant.                             *)
(*                                                                         *)
(* The gateway reads routes.json, then counts the request, then sends it;  *)
(* the supervisor sees the count through a file that is rewritten every    *)
(* second, and looks at it once per turn of its loop.                      *)
(***************************************************************************)
EXTENDS Integers, FiniteSets

CONSTANTS
    Visitor,         \* clients, with one request and one ticket each
    ChallengeTtl,    \* 180
    GrantTtl,        \* 600
    Retain,          \* 780
    Quiet,           \* 600
    FreshFor,        \* 5
    HandlerSeconds,  \* 15: how long a request other than an upload may take
    MaxGap,          \* bound: the longest turn of the supervisor's loop
    LatestCutover,   \* bound: the latest time of the cutover
    MaxTime          \* bound: the last second

ASSUME RetentionAssumption ==
    /\ IsFiniteSet(Visitor)
    /\ ChallengeTtl \in Nat
    /\ GrantTtl \in Nat
    /\ Retain \in Nat
    /\ Quiet \in Nat
    /\ FreshFor \in Nat
    /\ HandlerSeconds \in Nat
    /\ MaxGap \in Nat \ {0}
    /\ LatestCutover \in Nat
    /\ MaxTime \in Nat

\* The order of the code's durations: a challenge and a grant in a row fit in
\* the retention (180 + 600 = 780), a grant in the quiet time (600), and a
\* request that was routed before the cutover shows in the statistics early
\* enough (600 + 15 + 5 < 780).
ASSUME WindowAssumption ==
    /\ Retain >= ChallengeTtl + GrantTtl
    /\ Retain >= GrantTtl + HandlerSeconds + FreshFor
    /\ Quiet >= GrantTtl

VARIABLES
    now,       \* seconds; wall clock and monotonic clock agree
    stage,     \* "alone": the old worker is active; "both"; "stopped"
    since,     \* retired: time of the cutover
    lastBusy,  \* retired: last turn that found the old worker busy
    turn,      \* time of the supervisor's last turn
    stats,     \* routes.stats.json: flights of the old worker, and mtime
    flight,    \* flight[v]: the request of v that the gateway forwards
    ticket,    \* ticket[v]: what v holds of the old worker
    stopped    \* history: when the old worker was stopped

vars == <<now, stage, since, lastBusy, turn, stats, flight, ticket, stopped>>

NoFlight == [kind |-> "none", phase |-> "none", start |-> 0]
NoTicket == [kind |-> "none", until |-> 0]

\* Requests the gateway's counter for the old worker includes (Flight).
Counted == {v \in Visitor : flight[v].phase \in {"flying", "answered"}}

\* The ticket would still be accepted.
Valid(v) == ticket[v].kind # "none" /\ now <= ticket[v].until

-----------------------------------------------------------------------------
Init ==
    /\ now = 0
    /\ stage = "alone"
    /\ since = 0
    /\ lastBusy = 0
    /\ turn = 0
    /\ stats = [count |-> 0, mtime |-> 0]
    /\ flight = [v \in Visitor |-> NoFlight]
    /\ ticket = [v \in Visitor |-> NoTicket]
    /\ stopped = 0

\* forward reads routes.json: new work goes to the active worker, a proof or
\* a download to the worker whose revision its token names, while it is one
\* of the targets.
Route(v, kind) ==
    /\ flight[v] = NoFlight
    /\ \/ kind \in {"ask", "upload"} /\ ticket[v] = NoTicket /\ stage = "alone"
       \/ kind = "prove" /\ ticket[v].kind = "challenge" /\ stage # "stopped"
       \/ kind = "download" /\ ticket[v].kind = "grant" /\ stage # "stopped"
    /\ flight' = [flight EXCEPT ![v] = [kind |-> kind, phase |-> "routed", start |-> now]]
    /\ UNCHANGED <<now, stage, since, lastBusy, turn, stats, ticket, stopped>>

\* forward counts the request and sends it.
Depart(v) ==
    /\ flight[v].phase = "routed"
    /\ flight' = [flight EXCEPT ![v].phase = "flying"]
    /\ UNCHANGED <<now, stage, since, lastBusy, turn, stats, ticket, stopped>>

\* What the old worker gives for a request of v.
Outcome(v) ==
    CASE flight[v].kind = "ask"                 -> [kind |-> "challenge", until |-> now + ChallengeTtl]
      [] flight[v].kind = "upload"              -> [kind |-> "grant", until |-> now + GrantTtl]
      [] flight[v].kind = "prove" /\ Valid(v)   -> [kind |-> "grant", until |-> now + GrantTtl]
      [] OTHER                                  -> NoTicket

\* The old worker's handler answers; the body is still to be streamed.
Answer(v) ==
    /\ flight[v].phase = "flying"
    /\ stage # "stopped"
    /\ ticket' = [ticket EXCEPT ![v] = Outcome(v)]
    /\ flight' = [flight EXCEPT ![v].phase = "answered"]
    /\ UNCHANGED <<now, stage, since, lastBusy, turn, stats, stopped>>

\* The body ends, or the client, the timeout or the worker ends the request:
\* Flight is dropped.
Land(v) ==
    /\ flight[v].phase \in {"routed", "flying", "answered"}
    /\ flight' = [flight EXCEPT ![v] = NoFlight]
    /\ UNCHANGED <<now, stage, since, lastBusy, turn, stats, ticket, stopped>>

\* The statistics task of serve.
Snapshot ==
    /\ stats' = [count |-> Cardinality(Counted), mtime |-> now]
    /\ UNCHANGED <<now, stage, since, lastBusy, turn, flight, ticket, stopped>>

\* BlueGreen.activate has published the new worker.
Cutover ==
    /\ stage = "alone"
    /\ stage' = "both"
    /\ since' = now
    /\ lastBusy' = now
    /\ turn' = now
    /\ UNCHANGED <<now, stats, flight, ticket, stopped>>

Fresh == now - stats.mtime < FreshFor
Busy  == stats.count # 0

\* Mutants: only the retention time counts; the quiet time does not.
DueByAge    == now - since >= Retain
DueUnquiet  == Fresh /\ ~Busy /\ now - since >= Retain

\* The retired worker may go, seen from a turn that is neither busy nor
\* without fresh statistics.
Due == Fresh /\ ~Busy /\ now - since >= Retain /\ now - lastBusy >= Quiet

\* One turn of maintain with a retired worker.
Maintain ==
    /\ stage = "both"
    /\ turn' = now
    /\ lastBusy' = IF Busy \/ ~Fresh THEN now ELSE lastBusy
    /\ \/ ~Due /\ UNCHANGED <<stage, stopped>>
       \/ Due /\ stage' = "stopped" /\ stopped' = now
    /\ UNCHANGED <<now, since, stats, flight, ticket>>

\* A second passes, until the old worker is stopped: requests other than
\* uploads are answered or ended in time, and the supervisor's loop comes
\* round.
Tick ==
    /\ now < MaxTime
    /\ \A v \in Visitor :
         flight[v].phase \in {"routed", "flying"}
            => \/ flight[v].kind = "upload" /\ flight[v].phase = "flying"
               \/ now - flight[v].start < HandlerSeconds
    /\ stage # "stopped"
    /\ stage = "alone" => now < LatestCutover
    /\ stage = "both" => now - turn < MaxGap
    /\ now' = now + 1
    /\ UNCHANGED <<stage, since, lastBusy, turn, stats, flight, ticket, stopped>>

Next ==
    \/ \E v \in Visitor :
         \/ \E kind \in {"ask", "prove", "upload", "download"} : Route(v, kind)
         \/ Depart(v)
         \/ Answer(v)
         \/ Land(v)
    \/ Snapshot
    \/ Cutover
    \/ Maintain
    \/ Tick

Spec == Init /\ [][Next]_vars

-----------------------------------------------------------------------------
(* Properties.                                                             *)

\* The clocks of the retention, the statistics file and the visitors' flights
\* and tickets are well formed.
TypeOK ==
    /\ now \in Nat
    /\ stage \in {"alone", "both", "stopped"}
    /\ since \in Nat
    /\ lastBusy \in Nat
    /\ turn \in Nat
    /\ stats \in [count : Nat, mtime : Nat]
    /\ flight \in [Visitor -> [kind : {"none", "ask", "prove", "upload", "download"},
                               phase : {"none", "routed", "flying", "answered"},
                               start : Nat]]
    /\ ticket \in [Visitor -> [kind : {"none", "challenge", "grant"}, until : Nat]]
    /\ stopped \in Nat

\* An upload that was under way at the cutover is never cut off: the old
\* worker is not stopped before it has been answered, however long it takes.
UploadsFinish ==
    stage = "stopped" =>
        \A v \in Visitor : flight[v].kind = "upload" => flight[v].phase = "answered"

Larger(m, n) == IF m >= n THEN m ELSE n

\* What retention guarantees when run_managed.py reports "expired token window
\* closed": a ticket that its worker does not outlive ends within the time a
\* request may take, or within one turn of the supervisor's loop, after the
\* worker was stopped.
RemainderBounded ==
    stage = "stopped" =>
        \A v \in Visitor :
            ticket[v].kind # "none"
                => ticket[v].until <= stopped + Larger(HandlerSeconds, MaxGap)
=============================================================================
