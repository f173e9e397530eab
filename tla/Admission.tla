------------------------------ MODULE Admission ------------------------------
(***************************************************************************)
(* The admission layer in front of every HTTP handler: security.rs,        *)
(* Security::admit, Security::failed, Security::leave, Lease and           *)
(* protect_inner.                                                          *)
(*                                                                         *)
(* A request takes a global permit, reads the clock, and only then locks   *)
(* the ledger; other requests run between the two, so the ledger sees      *)
(* time stamps out of order.  An admitted request owns a lease (a per-IP   *)
(* slot and the permit) until its response body is dropped.                *)
(***************************************************************************)
EXTENDS TokenBucket, FiniteSets

CONSTANTS
    IP,             \* client addresses, as client_ip resolves them
    NoIp,           \* the address of a request slot that is not in use
    Request,        \* slots for concurrent requests
    OpClass,        \* the classes with a budget of their own (Api, Upload, Download)
    Cap,            \* Cap[k]: tokens of bucket k
    Period,         \* Period[k]: seconds in which bucket k refills
    MaxInFlight,    \* max_in_flight
    MaxPerIp,       \* max_in_flight_per_ip
    MaxTracked,     \* max_tracked_ips
    FailureLimit,   \* failures_before_ban
    FailureWindow,  \* failure_window_seconds
    BanSeconds,     \* ban_seconds
    SweepInterval,  \* the 60 seconds between two sweeps of the ledger
    IdleFloor,      \* the 600 seconds of which ttl is at least made
    IdleSlack,      \* the 60 seconds added to ttl
    HandlerSeconds, \* the 15 seconds every handler but the upload's may run
    MaxSkew,        \* bound: seconds between reading the clock and locking
    MaxTime         \* bound: the last instant

\* Class::General is charged to bucket 0 only; bucket 0 is charged by all.
General == "general"
Upload  == "upload"
Class   == OpClass \cup {General}
NoBan   == -1

ASSUME SlotsAssumption ==
    /\ NoIp \notin IP
    /\ IsFiniteSet(Request)
    /\ IsFiniteSet(IP)
    /\ General \notin OpClass

\* Security::new refuses any other limits.
ASSUME LimitsAssumption ==
    /\ Cap \in [Class -> Nat \ {0}]
    /\ Period \in [Class -> Nat \ {0}]
    /\ MaxInFlight \in Nat \ {0}
    /\ MaxPerIp \in 1 .. MaxInFlight
    /\ MaxTracked \in Nat \ {0}
    /\ FailureLimit \in Nat \ {0}
    /\ FailureWindow \in Nat \ {0}
    /\ BanSeconds \in Nat \ {0}

ASSUME TimeAssumption ==
    /\ SweepInterval \in Nat
    /\ IdleFloor \in Nat
    /\ IdleSlack \in Nat
    /\ HandlerSeconds \in Nat
    /\ MaxSkew \in Nat
    /\ MaxTime \in Nat

VARIABLES
    now,        \* Instant::now()
    clients,    \* Ledger::clients, a function on the tracked addresses
    lastSweep,  \* Ledger::last_sweep
    permits,    \* permits left in the semaphore
    req         \* req[r]: where the request in slot r is

vars == <<now, clients, lastSweep, permits, req>>

Idle == [phase |-> "idle", ip |-> NoIp, class |-> General, stamp |-> 0]

Phase == {"idle", "stamped", "handling", "rejected", "streaming", "releasing"}

\* The phases in which a request holds a lease.
Leased == {"handling", "rejected", "streaming"}

Client == [buckets     : [Class -> [units : Nat, updated : Nat]],
           lastSeen    : Nat,
           failures    : Nat,
           failureStart : Nat,
           bannedUntil : Nat \cup {NoBan},
           inFlight    : Nat]

Moved(r, p) == [req EXCEPT ![r].phase = p]

-----------------------------------------------------------------------------
(* The ledger entry of one client.                                         *)

NewClient(t) ==
    [buckets      |-> [k \in Class |-> NewBucket(Cap[k], Period[k], t)],
     lastSeen     |-> t,
     failures     |-> 0,
     failureStart |-> t,
     bannedUntil  |-> NoBan,
     inFlight     |-> 0]

Ttl == (IF FailureWindow > IdleFloor THEN FailureWindow ELSE IdleFloor) + IdleSlack

SweepDue(t) == Elapsed(t, lastSweep) >= SweepInterval

\* Mutants: the sweep forgets a client whose buckets are still refilling, one
\* that is still streaming, or a ban.
KeptBetweenSweeps(c, t) ==
    \/ c.inFlight # 0
    \/ c.bannedUntil > t
    \/ Elapsed(t, c.lastSeen) < SweepInterval

KeptIfSeen(c, t) ==
    \/ c.bannedUntil > t
    \/ Elapsed(t, c.lastSeen) < Ttl

KeptUnbanned(c, t) ==
    \/ c.inFlight # 0
    \/ Elapsed(t, c.lastSeen) < Ttl

\* What the sweep keeps: live streams, live bans, and recently seen clients.
Kept(c, t) ==
    \/ c.inFlight # 0
    \/ c.bannedUntil > t
    \/ Elapsed(t, c.lastSeen) < Ttl

\* The addresses still tracked once a request stamped t has swept.
Tracked(t) ==
    IF SweepDue(t) THEN {i \in DOMAIN clients : Kept(clients[i], t)}
                   ELSE DOMAIN clients

\* The entry of address i as the request finds it, touched at t.
Entry(i, t) ==
    IF i \in Tracked(t) THEN [clients[i] EXCEPT !.lastSeen = t]
                        ELSE NewClient(t)

Banned(c, t) == c.bannedUntil > t

\* A ban that has run out is forgotten together with the failures behind it.
Pardoned(c) ==
    IF c.bannedUntil = NoBan THEN c
    ELSE [c EXCEPT !.bannedUntil = NoBan, !.failures = 0]

Crowded(c) == c.inFlight >= MaxPerIp

HasBudget(c, k, t) == CanTake(c.buckets[k], Cap[k], Period[k], t)

Charged(c, k, t) == [c EXCEPT !.buckets[k] = Take(@, Cap[k], Period[k], t)]

\* Mutant: the window restarts at every failure after its first second.
CountFailureShort(c, t) ==
    LET restart  == c.failures = 0 \/ Elapsed(t, c.failureStart) >= 1
        failures == (IF restart THEN 0 ELSE c.failures) + 1
    IN  [c EXCEPT !.failures     = failures,
                  !.failureStart = IF restart THEN t ELSE @,
                  !.bannedUntil  = IF failures >= FailureLimit
                                   THEN t + BanSeconds ELSE @]

\* The failure counter: a fixed window that starts at the first failure.
CountFailure(c, t) ==
    LET restart  == c.failures = 0 \/ Elapsed(t, c.failureStart) >= FailureWindow
        failures == (IF restart THEN 0 ELSE c.failures) + 1
    IN  [c EXCEPT !.failures     = failures,
                  !.failureStart = IF restart THEN t ELSE @,
                  !.bannedUntil  = IF failures >= FailureLimit
                                   THEN t + BanSeconds ELSE @]

-----------------------------------------------------------------------------
Init ==
    /\ now = 0
    /\ clients = [i \in {} |-> NewClient(0)]
    /\ lastSweep = 0
    /\ permits = MaxInFlight
    /\ req = [r \in Request |-> Idle]

\* Mutant: the permit is not waited for.
ArriveUnchecked(r, i, k) ==
    /\ req[r].phase = "idle"
    /\ permits' = permits - 1
    /\ req' = [req EXCEPT ![r] = [phase |-> "stamped", ip |-> i,
                                  class |-> k, stamp |-> now]]
    /\ UNCHANGED <<now, clients, lastSweep>>

\* A request arrives, gets a permit (without one it is answered 503 and
\* nothing changes) and evaluates Instant::now() for the call of admit.
Arrive(r, i, k) ==
    /\ req[r].phase = "idle"
    /\ permits > 0
    /\ permits' = permits - 1
    /\ req' = [req EXCEPT ![r] = [phase |-> "stamped", ip |-> i,
                                  class |-> k, stamp |-> now]]
    /\ UNCHANGED <<now, clients, lastSweep>>

\* Every path through admit sweeps first, when a sweep is due.
Sweep(t) == lastSweep' = IF SweepDue(t) THEN t ELSE lastSweep

\* The table the request leaves behind: swept, with entry c for address i.
Store(i, c, t) ==
    clients' = [j \in Tracked(t) \cup {i} |-> IF j = i THEN c ELSE clients[j]]

\* admit under the ledger lock, up to the decision `outcome'; the lease (or
\* the way out, with the permit still held) follows from the phase p.
Decide(r, c, p) ==
    /\ Sweep(req[r].stamp)
    /\ Store(req[r].ip, c, req[r].stamp)
    /\ req' = Moved(r, p)
    /\ UNCHANGED <<now, permits>>

\* Mutant: one entry too many.
TableFullLate(r) ==
    /\ req[r].ip \notin Tracked(req[r].stamp)
    /\ Cardinality(Tracked(req[r].stamp)) > MaxTracked

TableFull(r) ==
    /\ req[r].ip \notin Tracked(req[r].stamp)
    /\ Cardinality(Tracked(req[r].stamp)) >= MaxTracked

\* Mutant: the refusal forgets the permit.
RefuseFullLeaky(r) ==
    /\ req[r].phase = "stamped"
    /\ TableFull(r)
    /\ Sweep(req[r].stamp)
    /\ clients' = [j \in Tracked(req[r].stamp) |-> clients[j]]
    /\ req' = [req EXCEPT ![r] = Idle]
    /\ UNCHANGED <<now, permits>>

\* 503: the table has no room for a new address.
RefuseFull(r) ==
    /\ req[r].phase = "stamped"
    /\ TableFull(r)
    /\ Sweep(req[r].stamp)
    /\ clients' = [j \in Tracked(req[r].stamp) |-> clients[j]]
    /\ req' = Moved(r, "releasing")
    /\ UNCHANGED <<now, permits>>

\* 429: a live ban; nothing but last_seen changes.
RefuseBanned(r) ==
    LET t == req[r].stamp  c == Entry(req[r].ip, t)
    IN  /\ req[r].phase = "stamped"
        /\ ~TableFull(r)
        /\ Banned(c, t)
        /\ Decide(r, c, "releasing")

\* 429: the address already has all its slots in use.
RefuseCrowded(r) ==
    LET t == req[r].stamp  c == Entry(req[r].ip, t)
    IN  /\ req[r].phase = "stamped"
        /\ ~TableFull(r)
        /\ ~Banned(c, t)
        /\ Crowded(Pardoned(c))
        /\ Decide(r, Pardoned(c), "releasing")

\* 429: the request budget is spent.
RefuseRate(r) ==
    LET t == req[r].stamp  c == Entry(req[r].ip, t)
    IN  /\ req[r].phase = "stamped"
        /\ ~TableFull(r)
        /\ ~Banned(c, t)
        /\ ~Crowded(Pardoned(c))
        /\ ~HasBudget(c, General, t)
        /\ Decide(r, Charged(Pardoned(c), General, t), "releasing")

\* 429: the budget of the operation is spent; the request budget is charged
\* all the same.
RefuseOperation(r) ==
    LET t == req[r].stamp  c == Entry(req[r].ip, t)  k == req[r].class
    IN  /\ req[r].phase = "stamped"
        /\ ~TableFull(r)
        /\ ~Banned(c, t)
        /\ ~Crowded(Pardoned(c))
        /\ HasBudget(c, General, t)
        /\ k # General
        /\ ~HasBudget(c, k, t)
        /\ Decide(r, Charged(Charged(Pardoned(c), General, t), k, t), "releasing")

\* The entry of a client once one more request of class k is admitted.
WithLease(c, k, t) ==
    LET general == Charged(Pardoned(c), General, t)
        both    == IF k = General THEN general ELSE Charged(general, k, t)
    IN  [both EXCEPT !.inFlight = @ + 1]

Accept(r) ==
    LET t == req[r].stamp  c == Entry(req[r].ip, t)  k == req[r].class
    IN  /\ req[r].phase = "stamped"
        /\ ~TableFull(r)
        /\ ~Banned(c, t)
        /\ ~Crowded(Pardoned(c))
        /\ HasBudget(c, General, t)
        /\ HasBudget(c, k, t)
        /\ Decide(r, WithLease(c, k, t), "handling")

Admit(r) ==
    \/ RefuseFull(r)
    \/ RefuseBanned(r)
    \/ RefuseCrowded(r)
    \/ RefuseRate(r)
    \/ RefuseOperation(r)
    \/ Accept(r)

\* tokio's timeout has run out; the handler's own answer can still win as
\* long as the timer has not been polled. Uploads are not timed here.
TimeUp(r) == req[r].class # Upload /\ now - req[r].stamp >= HandlerSeconds
TooLate(r) == req[r].class # Upload /\ now - req[r].stamp > HandlerSeconds + MaxSkew

\* The handler answers with a status that failed() ignores (2xx, 409, 410,
\* 429, 5xx): the body starts streaming.
RespondOk(r) ==
    /\ req[r].phase = "handling"
    /\ ~TooLate(r)
    /\ req' = Moved(r, "streaming")
    /\ UNCHANGED <<now, clients, lastSweep, permits>>

\* The request is denied by the header checks of protect_inner or answered
\* with a status that counts as a failure; the clock is read for failed().
RespondFailure(r) ==
    /\ req[r].phase = "handling"
    /\ ~TooLate(r)
    /\ req' = [req EXCEPT ![r].phase = "rejected", ![r].stamp = now]
    /\ UNCHANGED <<now, clients, lastSweep, permits>>

\* 408: the handler ran into its timeout; failed() ignores the status.
HandlerTimeout(r) ==
    /\ req[r].phase = "handling"
    /\ TimeUp(r)
    /\ req' = Moved(r, "streaming")
    /\ UNCHANGED <<now, clients, lastSweep, permits>>

\* failed() under the ledger lock; an address no longer tracked is ignored.
Failed(r) ==
    LET i == req[r].ip
    IN  /\ req[r].phase = "rejected"
        /\ clients' = [j \in DOMAIN clients |->
                         IF j = i THEN CountFailure(clients[j], req[r].stamp)
                                  ELSE clients[j]]
        /\ req' = Moved(r, "streaming")
        /\ UNCHANGED <<now, lastSweep, permits>>

\* leave() under the ledger lock: saturating, and a no-op for an address no
\* longer tracked.
Leave(i) ==
    clients' = [j \in DOMAIN clients |->
                  IF j = i /\ clients[j].inFlight > 0
                  THEN [clients[j] EXCEPT !.inFlight = @ - 1]
                  ELSE clients[j]]

\* The lease is dropped: the client went away while the handler ran, or the
\* response body ended, was cancelled or reached its 1800 seconds.
\* Lease::drop calls leave, then the permit field is dropped.
DropLease(r) ==
    /\ req[r].phase \in {"handling", "streaming"}
    /\ Leave(req[r].ip)
    /\ req' = Moved(r, "releasing")
    /\ UNCHANGED <<now, lastSweep, permits>>

\* The semaphore gets the permit of a finished or a refused request back.
ReleasePermit(r) ==
    /\ req[r].phase = "releasing"
    /\ permits' = permits + 1
    /\ req' = [req EXCEPT ![r] = Idle]
    /\ UNCHANGED <<now, clients, lastSweep>>

\* A second passes. MaxSkew bounds how long a thread may rest between
\* Instant::now() and the lock of the ledger.
Tick ==
    /\ now < MaxTime
    /\ \A r \in Request :
         req[r].phase \in {"stamped", "rejected"} => now - req[r].stamp < MaxSkew
    /\ now' = now + 1
    /\ UNCHANGED <<clients, lastSweep, permits, req>>

Step(r) ==
    \/ \E i \in IP, k \in Class : Arrive(r, i, k)
    \/ Admit(r)
    \/ RespondOk(r)
    \/ RespondFailure(r)
    \/ HandlerTimeout(r)
    \/ Failed(r)
    \/ DropLease(r)
    \/ ReleasePermit(r)

Next == Tick \/ \E r \in Request : Step(r)

Spec == Init /\ [][Next]_vars

-----------------------------------------------------------------------------
(* Properties.                                                             *)

\* Every reachable ledger is well formed: tracked addresses only, counters that
\* never go below zero, and no more permits than the semaphore was given.
TypeOK ==
    /\ now \in Nat
    /\ DOMAIN clients \subseteq IP
    /\ clients \in [DOMAIN clients -> Client]
    /\ lastSweep \in Nat
    /\ permits \in 0 .. MaxInFlight
    /\ req \in [Request -> [phase : Phase, ip : IP \cup {NoIp},
                            class : Class, stamp : Nat]]
    /\ \A r \in Request : req[r].phase # "idle" => req[r].ip \in IP

LeasesOf(i) == {r \in Request : req[r].ip = i /\ req[r].phase \in Leased}

InFlight(i) == IF i \in DOMAIN clients THEN clients[i].inFlight ELSE 0

\* Slots in use: requests that hold a permit of the semaphore.
Holders == {r \in Request : req[r].phase # "idle"}

\* The slot counter of every address is exactly the number of its live
\* leases, in whatever order requests are admitted, fail, stream, are
\* cancelled, and the sweep prunes the table (security.rs, retain and leave).
LeaseAccounting == \A i \in IP : InFlight(i) = Cardinality(LeasesOf(i))

\* No address ever has more live leases than max_in_flight_per_ip.
PerIpBound == \A i \in IP : Cardinality(LeasesOf(i)) <= MaxPerIp

\* Permits are neither lost nor invented: what is free and what is held make
\* up the semaphore, however requests end (security.rs, Lease).
PermitAccounting == permits + Cardinality(Holders) = MaxInFlight

\* The table never outgrows max_tracked_ips.
TableBound == Cardinality(DOMAIN clients) <= MaxTracked
=============================================================================
