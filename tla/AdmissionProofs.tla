--------------------------- MODULE AdmissionProofs ---------------------------
(***************************************************************************)
(* Proofs about the admission layer, for every set of addresses and slots  *)
(* and every choice of limits that Security::new accepts.                  *)
(***************************************************************************)
EXTENDS Admission, FiniteSetTheorems, TLAPS

-----------------------------------------------------------------------------
(* The token bucket.                                                       *)

\* A product of naturals is a natural.
LEMMA ProductNat == \A m, n \in Nat : m * n \in Nat
  OBVIOUS

Bucket == [units : Nat, updated : Nat]

\* A bucket stays a bucket: take never drives the units below zero.
LEMMA TakeType ==
  ASSUME NEW b \in Bucket, NEW cap \in Nat \ {0}, NEW period \in Nat \ {0},
         NEW t \in Nat
  PROVE  /\ Refilled(b, cap, period, t) \in Nat
         /\ Take(b, cap, period, t) \in Bucket
  <1>1. Elapsed(t, b.updated) \in Nat
    BY DEF Elapsed, Bucket
  <1>2. Elapsed(t, b.updated) * cap \in Nat /\ cap * period \in Nat
    BY <1>1, ProductNat
  <1>3. Refilled(b, cap, period, t) \in Nat
    BY <1>2 DEF Refilled, Bucket
  <1> QED
    BY <1>3 DEF Take, Bucket

-----------------------------------------------------------------------------
(* The operations on the ledger entry of a client.                         *)

\* A client that is seen for the first time is well formed.
LEMMA NewClientType ==
  ASSUME NEW t \in Nat
  PROVE  /\ NewClient(t) \in Client
         /\ NewClient(t).inFlight = 0
  <1>1. \A k \in Class : NewBucket(Cap[k], Period[k], t) \in Bucket
    BY LimitsAssumption, ProductNat DEF NewBucket, Bucket
  <1> QED
    BY <1>1 DEF NewClient, Client, Bucket

\* Charging a bucket changes nothing else of the entry.
LEMMA ChargedType ==
  ASSUME NEW c \in Client, NEW k \in Class, NEW t \in Nat
  PROVE  /\ Charged(c, k, t) \in Client
         /\ Charged(c, k, t).inFlight = c.inFlight
  <1>1. c.buckets[k] \in Bucket /\ Cap[k] \in Nat \ {0} /\ Period[k] \in Nat \ {0}
    BY LimitsAssumption DEF Client, Bucket
  <1>2. Take(c.buckets[k], Cap[k], Period[k], t) \in Bucket
    BY <1>1, TakeType
  <1> QED
    BY <1>2 DEF Charged, Client, Bucket

\* Lifting an expired ban keeps the client well formed.
LEMMA PardonedType ==
  ASSUME NEW c \in Client
  PROVE  /\ Pardoned(c) \in Client
         /\ Pardoned(c).inFlight = c.inFlight
  BY DEF Pardoned, Client, NoBan

\* Admission adds exactly one to the slots of the entry.
LEMMA WithLeaseType ==
  ASSUME NEW c \in Client, NEW k \in Class, NEW t \in Nat
  PROVE  /\ WithLease(c, k, t) \in Client
         /\ WithLease(c, k, t).inFlight = c.inFlight + 1
  <1> DEFINE g == Charged(Pardoned(c), General, t)
             b == IF k = General THEN g ELSE Charged(g, k, t)
  <1>1. General \in Class
    BY DEF Class
  <1>2. g \in Client /\ g.inFlight = c.inFlight
    BY <1>1, PardonedType, ChargedType
  <1>3. b \in Client /\ b.inFlight = c.inFlight
    BY <1>2, ChargedType
  <1> HIDE DEF g, b
  <1>4. [b EXCEPT !.inFlight = @ + 1] \in Client
        /\ [b EXCEPT !.inFlight = @ + 1].inFlight = b.inFlight + 1
    BY <1>3 DEF Client
  <1> QED
    BY <1>3, <1>4 DEF WithLease, g, b

\* Counting a failure leaves the slots of the entry alone.
LEMMA CountFailureType ==
  ASSUME NEW c \in Client, NEW t \in Nat
  PROVE  /\ CountFailure(c, t) \in Client
         /\ CountFailure(c, t).inFlight = c.inFlight
  <1> DEFINE restart == c.failures = 0 \/ Elapsed(t, c.failureStart) >= FailureWindow
             f == (IF restart THEN 0 ELSE c.failures) + 1
             s == IF restart THEN t ELSE c.failureStart
             u == IF f >= FailureLimit THEN t + BanSeconds ELSE c.bannedUntil
  <1>1. f \in Nat /\ s \in Nat /\ u \in Nat \cup {NoBan}
    BY LimitsAssumption DEF Client, NoBan
  <1>2. CountFailure(c, t)
          = [c EXCEPT !.failures = f, !.failureStart = s, !.bannedUntil = u]
    BY DEF CountFailure, Client
  <1> HIDE DEF restart, f, s, u
  <1> QED
    BY <1>1, <1>2 DEF Client

\* The entry a request finds has the slots the table counts for its address:
\* the sweep only drops entries without any.
LEMMA EntryType ==
  ASSUME TypeOK, NEW i \in IP, NEW t \in Nat
  PROVE  /\ Entry(i, t) \in Client
         /\ Entry(i, t).inFlight = InFlight(i)
  <1>1. CASE i \in Tracked(t)
    <2>1. i \in DOMAIN clients
      BY <1>1 DEF Tracked
    <2>2. clients[i] \in Client
      BY <2>1 DEF TypeOK
    <2>3. [clients[i] EXCEPT !.lastSeen = t] \in Client
          /\ [clients[i] EXCEPT !.lastSeen = t].inFlight = clients[i].inFlight
      BY <2>2 DEF Client
    <2> QED
      BY <1>1, <2>1, <2>3 DEF Entry, InFlight
  <1>2. CASE i \notin Tracked(t)
    <2>1. i \in DOMAIN clients => clients[i].inFlight = 0
      BY <1>2 DEF Tracked, Kept
    <2> QED
      BY <1>2, <2>1, NewClientType DEF Entry, InFlight
  <1> QED
    BY <1>1, <1>2

-----------------------------------------------------------------------------
(* The inductive invariant.  The permits stay within the semaphore only    *)
(* because they are counted, and the bound per address holds only because  *)
(* its counter is exact: none of the parts is inductive alone.             *)

IInv == TypeOK /\ LeaseAccounting /\ PerIpBound /\ PermitAccounting /\ TableBound

\* What the table looks like after a request has swept it and stored its
\* entry: well formed, and with the old counters everywhere else.
LEMMA StoreLemma ==
  ASSUME TypeOK, NEW i \in IP, NEW t \in Nat, NEW c \in Client, Store(i, c, t)
  PROVE  /\ DOMAIN clients' \subseteq IP
         /\ clients' \in [DOMAIN clients' -> Client]
         /\ InFlight(i)' = c.inFlight
         /\ \A j \in IP : j # i => InFlight(j)' = InFlight(j)
         /\ DOMAIN clients' = Tracked(t) \cup {i}
  <1>1. Tracked(t) \subseteq DOMAIN clients
    BY DEF Tracked
  <1>2. \A j \in DOMAIN clients : clients[j] \in Client
    BY DEF TypeOK
  <1>3. DOMAIN clients' = Tracked(t) \cup {i}
    BY DEF Store
  <1>4. clients' \in [DOMAIN clients' -> Client]
    BY <1>1, <1>2, <1>3 DEF Store
  <1>5. InFlight(i)' = c.inFlight
    BY <1>3 DEF Store, InFlight
  <1>6. ASSUME NEW j \in IP, j # i  PROVE InFlight(j)' = InFlight(j)
    <2>1. CASE j \in Tracked(t)
      BY <1>1, <1>3, <1>6, <2>1 DEF Store, InFlight
    <2>2. CASE j \notin Tracked(t)
      <3>1. j \in DOMAIN clients => clients[j].inFlight = 0
        BY <2>2 DEF Tracked, Kept
      <3> QED
        BY <1>3, <1>6, <2>2, <3>1 DEF InFlight
    <2> QED
      BY <2>1, <2>2
  <1> QED
    BY <1>1, <1>3, <1>4, <1>5, <1>6 DEF TypeOK

\* A step that moves no request into or out of a lease and leaves the
\* counters as they are keeps the accounts.
LEMMA SameLeases ==
  ASSUME LeaseAccounting, PerIpBound,
         \A i \in IP : InFlight(i)' = InFlight(i),
         \A i \in IP : LeasesOf(i)' = LeasesOf(i)
  PROVE  LeaseAccounting' /\ PerIpBound'
  BY DEF LeaseAccounting, PerIpBound

\* The table bound survives a store that is not refused for want of room.
LEMMA StoreBound ==
  ASSUME TypeOK, TableBound, NEW r \in Request, req[r].ip \in IP, ~TableFull(r),
         DOMAIN clients' = Tracked(req[r].stamp) \cup {req[r].ip}
  PROVE  TableBound'
  <1> DEFINE T == Tracked(req[r].stamp)
             i == req[r].ip
  <1>1. T \subseteq DOMAIN clients /\ IsFiniteSet(DOMAIN clients)
    BY SlotsAssumption, FS_Subset DEF Tracked, TypeOK
  <1>2. IsFiniteSet(T) /\ Cardinality(T) <= Cardinality(DOMAIN clients)
    BY <1>1, FS_Subset
  <1>3. Cardinality(T) \in Nat /\ Cardinality(DOMAIN clients) \in Nat
    BY <1>1, <1>2, FS_CardinalityType
  <1>4. CASE i \in T
    <2>1. T \cup {i} = T
      BY <1>4
    <2> QED
      BY <2>1, <1>2, <1>3, LimitsAssumption DEF TableBound
  <1>5. CASE i \notin T
    <2>1. Cardinality(T) < MaxTracked
      BY <1>3, <1>5, LimitsAssumption DEF TableFull
    <2>2. Cardinality(T \cup {i}) = Cardinality(T) + 1
      BY <1>2, <1>5, FS_AddElement
    <2> QED
      BY <2>1, <2>2, <1>3, LimitsAssumption DEF TableBound
  <1> QED
    BY <1>4, <1>5

\* A refused request: whatever the reason, only its own phase moves.
LEMMA RefusalStep ==
  ASSUME IInv, NEW r \in Request, req[r].phase = "stamped", ~TableFull(r),
         NEW c \in Client, c.inFlight = InFlight(req[r].ip),
         Decide(r, c, "releasing")
  PROVE  IInv'
  <1>0. PICK i \in IP, t \in Nat : i = req[r].ip /\ t = req[r].stamp
    BY DEF IInv, TypeOK
  <1>2. /\ DOMAIN clients' \subseteq IP
        /\ clients' \in [DOMAIN clients' -> Client]
        /\ InFlight(i)' = c.inFlight
        /\ \A j \in IP : j # i => InFlight(j)' = InFlight(j)
        /\ DOMAIN clients' = Tracked(t) \cup {i}
    BY <1>0, StoreLemma DEF IInv, Decide
  <1>3. req' = [req EXCEPT ![r].phase = "releasing"] /\ now' = now /\ permits' = permits
    BY DEF Decide, Moved
  <1>4. TypeOK'
    <2>1. lastSweep' \in Nat
      BY <1>0 DEF Decide, Sweep, IInv, TypeOK
    <2> QED
      BY <1>2, <1>3, <2>1 DEF IInv, TypeOK, Phase
  <1>5. \A j \in IP : InFlight(j)' = InFlight(j)
    BY <1>0, <1>2
  <1>6. \A j \in IP : LeasesOf(j)' = LeasesOf(j)
    BY <1>3 DEF LeasesOf, Leased, IInv, TypeOK
  <1>7. Holders' = Holders
    BY <1>3 DEF Holders, IInv, TypeOK
  <1>8. TableBound'
    BY <1>0, <1>2, StoreBound DEF IInv
  <1> QED
    BY <1>3, <1>4, <1>5, <1>6, <1>7, <1>8, SameLeases DEF IInv, PermitAccounting

\* No room in the table: the sweep is all that happens to it.
LEMMA RefuseFullStep ==
  ASSUME IInv, NEW r \in Request, RefuseFull(r)
  PROVE  IInv'
  <1>0. PICK t \in Nat : t = req[r].stamp
    BY DEF IInv, TypeOK
  <1>1. Tracked(t) \subseteq DOMAIN clients /\ DOMAIN clients' = Tracked(t)
    BY <1>0 DEF RefuseFull, Tracked
  <1>2. req' = [req EXCEPT ![r].phase = "releasing"] /\ now' = now /\ permits' = permits
    BY DEF RefuseFull, Moved
  <1>3. req[r].phase = "stamped" /\ req[r].ip \in IP
    BY DEF RefuseFull, IInv, TypeOK
  <1>4. \A j \in DOMAIN clients' : clients'[j] = clients[j]
    BY <1>0, <1>1 DEF RefuseFull
  <1>5. TypeOK'
    <2>1. lastSweep' \in Nat
      BY <1>0 DEF RefuseFull, Sweep, IInv, TypeOK
    <2>2. clients' \in [DOMAIN clients' -> Client]
      BY <1>0, <1>1 DEF RefuseFull, IInv, TypeOK
    <2> QED
      BY <1>1, <1>2, <1>3, <2>1, <2>2 DEF IInv, TypeOK, Phase
  <1>6. \A j \in IP : InFlight(j)' = InFlight(j)
    <2>1. \A j \in DOMAIN clients : j \notin Tracked(t) => clients[j].inFlight = 0
      BY DEF Tracked, Kept
    <2> QED
      BY <1>1, <1>4, <2>1 DEF InFlight
  <1>7. \A j \in IP : LeasesOf(j)' = LeasesOf(j)
    BY <1>2, <1>3 DEF LeasesOf, Leased, IInv, TypeOK
  <1>8. Holders' = Holders
    BY <1>2, <1>3 DEF Holders, IInv, TypeOK
  <1>9. TableBound'
    <2>1. IsFiniteSet(DOMAIN clients)
      BY SlotsAssumption, FS_Subset DEF IInv, TypeOK
    <2>2. Cardinality(Tracked(t)) <= Cardinality(DOMAIN clients)
          /\ IsFiniteSet(Tracked(t))
      BY <1>1, <2>1, FS_Subset
    <2>3. Cardinality(Tracked(t)) \in Nat /\ Cardinality(DOMAIN clients) \in Nat
      BY <2>1, <2>2, FS_CardinalityType
    <2> QED
      BY <1>1, <2>2, <2>3, LimitsAssumption DEF IInv, TableBound
  <1> QED
    BY <1>2, <1>5, <1>6, <1>7, <1>8, <1>9, SameLeases DEF IInv, PermitAccounting

\* Admission: the new lease and the counter of its address go up together.
LEMMA AcceptStep ==
  ASSUME IInv, NEW r \in Request, Accept(r)
  PROVE  IInv'
  <1>0. PICK i \in IP, t \in Nat, k \in Class :
          i = req[r].ip /\ t = req[r].stamp /\ k = req[r].class
    BY DEF Accept, IInv, TypeOK
  <1>1. PICK c \in Client :
          /\ c = WithLease(Entry(i, t), k, t)
          /\ c.inFlight = InFlight(i) + 1
    BY EntryType, WithLeaseType DEF IInv
  <1>2. Decide(r, c, "handling")
    BY <1>0, <1>1 DEF Accept
  <1>3. /\ DOMAIN clients' \subseteq IP
        /\ clients' \in [DOMAIN clients' -> Client]
        /\ InFlight(i)' = c.inFlight
        /\ \A j \in IP : j # i => InFlight(j)' = InFlight(j)
        /\ DOMAIN clients' = Tracked(t) \cup {i}
    BY <1>0, <1>2, StoreLemma DEF IInv, Decide
  <1>4. req' = [req EXCEPT ![r].phase = "handling"] /\ now' = now /\ permits' = permits
    BY <1>2 DEF Decide, Moved
  <1>5. req[r].phase = "stamped" /\ ~TableFull(r)
    BY DEF Accept
  <1>6. InFlight(i) < MaxPerIp /\ InFlight(i) \in Nat
    <2>1. Entry(i, t) \in Client /\ Entry(i, t).inFlight = InFlight(i)
      BY EntryType DEF IInv
    <2>2. ~(Pardoned(Entry(i, t)).inFlight >= MaxPerIp)
      BY <1>0 DEF Accept, Crowded
    <2> QED
      BY <2>1, <2>2, PardonedType, LimitsAssumption DEF Client
  <1>7. TypeOK'
    <2>1. lastSweep' \in Nat
      BY <1>0, <1>2 DEF Decide, Sweep, IInv, TypeOK
    <2> QED
      BY <1>3, <1>4, <1>5, <2>1 DEF IInv, TypeOK, Phase
  <1>8. LeasesOf(i)' = LeasesOf(i) \cup {r} /\ r \notin LeasesOf(i)
    BY <1>0, <1>4, <1>5 DEF LeasesOf, Leased, IInv, TypeOK
  <1>9. \A j \in IP : j # i => LeasesOf(j)' = LeasesOf(j)
    BY <1>0, <1>4, <1>5 DEF LeasesOf, Leased, IInv, TypeOK
  <1>10. IsFiniteSet(LeasesOf(i))
    BY SlotsAssumption, FS_Subset DEF LeasesOf
  <1>11. Cardinality(LeasesOf(i)') = Cardinality(LeasesOf(i)) + 1
    BY <1>8, <1>10, FS_AddElement
  <1>12. LeaseAccounting' /\ PerIpBound'
    BY <1>1, <1>3, <1>6, <1>9, <1>11, LimitsAssumption
    DEF IInv, LeaseAccounting, PerIpBound
  <1>13. Holders' = Holders
    BY <1>4, <1>5 DEF Holders, IInv, TypeOK
  <1>14. TableBound'
    BY <1>0, <1>3, <1>5, StoreBound DEF IInv
  <1> QED
    BY <1>4, <1>7, <1>12, <1>13, <1>14 DEF IInv, PermitAccounting

\* Every other answer of admit refuses the request.
LEMMA AdmitStep ==
  ASSUME IInv, NEW r \in Request, Admit(r)
  PROVE  IInv'
  <1>0. PICK i \in IP, t \in Nat, k \in Class :
          i = req[r].ip /\ t = req[r].stamp /\ k = req[r].class
    BY DEF Admit, RefuseFull, RefuseBanned, RefuseCrowded, RefuseRate,
           RefuseOperation, Accept, IInv, TypeOK
  <1> DEFINE c == Entry(i, t)
             p == Pardoned(c)
             g == Charged(p, General, t)
  <1>1. General \in Class
    BY DEF Class
  <1>2. c \in Client /\ c.inFlight = InFlight(i)
    BY EntryType DEF IInv
  <1>3. p \in Client /\ p.inFlight = InFlight(i)
    BY <1>2, PardonedType
  <1>4. g \in Client /\ g.inFlight = InFlight(i)
    BY <1>1, <1>3, ChargedType
  <1>5. Charged(g, k, t) \in Client /\ Charged(g, k, t).inFlight = InFlight(i)
    BY <1>4, ChargedType
  <1>6. CASE RefuseBanned(r)
    BY <1>0, <1>2, <1>6, RefusalStep DEF RefuseBanned
  <1>7. CASE RefuseCrowded(r)
    BY <1>0, <1>3, <1>7, RefusalStep DEF RefuseCrowded
  <1>8. CASE RefuseRate(r)
    BY <1>0, <1>4, <1>8, RefusalStep DEF RefuseRate
  <1>9. CASE RefuseOperation(r)
    BY <1>0, <1>5, <1>9, RefusalStep DEF RefuseOperation
  <1> QED
    BY <1>6, <1>7, <1>8, <1>9, RefuseFullStep, AcceptStep DEF Admit

\* A new request takes one permit.
LEMMA ArriveStep ==
  ASSUME IInv, NEW r \in Request, NEW i \in IP, NEW k \in Class, Arrive(r, i, k)
  PROVE  IInv'
  <1>1. /\ req' = [req EXCEPT ![r] = [phase |-> "stamped", ip |-> i,
                                     class |-> k, stamp |-> now]]
        /\ clients' = clients /\ now' = now /\ lastSweep' = lastSweep
        /\ permits' = permits - 1 /\ permits > 0 /\ req[r].phase = "idle"
    BY DEF Arrive
  <1>2. TypeOK'
    <2>1. permits' \in 0 .. MaxInFlight
      BY <1>1, LimitsAssumption DEF IInv, TypeOK
    <2>2. [phase |-> "stamped", ip |-> i, class |-> k, stamp |-> now]
            \in [phase : Phase, ip : IP \cup {NoIp}, class : Class, stamp : Nat]
      BY DEF IInv, TypeOK, Phase
    <2>3. req' \in [Request -> [phase : Phase, ip : IP \cup {NoIp},
                               class : Class, stamp : Nat]]
      BY <1>1, <2>2 DEF IInv, TypeOK
    <2>4. \A q \in Request : req'[q].phase # "idle" => req'[q].ip \in IP
      BY <1>1 DEF IInv, TypeOK
    <2> QED
      BY <1>1, <2>1, <2>3, <2>4 DEF IInv, TypeOK
  <1>3. \A j \in IP : InFlight(j)' = InFlight(j) /\ LeasesOf(j)' = LeasesOf(j)
    BY <1>1 DEF InFlight, LeasesOf, Leased, IInv, TypeOK
  <1>4. Holders' = Holders \cup {r} /\ r \notin Holders
    BY <1>1 DEF Holders, IInv, TypeOK
  <1>5. IsFiniteSet(Holders)
    BY SlotsAssumption, FS_Subset DEF Holders
  <1>6. Cardinality(Holders') = Cardinality(Holders) + 1 /\ Cardinality(Holders) \in Nat
    BY <1>4, <1>5, FS_AddElement, FS_CardinalityType
  <1>7. PermitAccounting'
    BY <1>1, <1>6, LimitsAssumption DEF PermitAccounting, IInv, TypeOK
  <1>8. TableBound'
    BY <1>1 DEF TableBound, IInv
  <1> QED
    BY <1>2, <1>3, <1>7, <1>8, SameLeases DEF IInv

\* An answered request keeps its lease.
LEMMA AnswerStep ==
  ASSUME IInv, NEW r \in Request,
         RespondOk(r) \/ RespondFailure(r) \/ HandlerTimeout(r)
  PROVE  IInv'
  <1>1. /\ clients' = clients /\ now' = now /\ lastSweep' = lastSweep
        /\ permits' = permits /\ req[r].phase = "handling"
    BY DEF RespondOk, RespondFailure, HandlerTimeout
  <1>2. PICK p \in {"streaming", "rejected"}, t \in Nat :
          req' = [req EXCEPT ![r].phase = p, ![r].stamp = t]
    BY DEF RespondOk, RespondFailure, HandlerTimeout, Moved, IInv, TypeOK
  <1>3. TypeOK'
    BY <1>1, <1>2 DEF IInv, TypeOK, Phase
  <1>4. \A j \in IP : InFlight(j)' = InFlight(j) /\ LeasesOf(j)' = LeasesOf(j)
    BY <1>1, <1>2 DEF InFlight, LeasesOf, Leased, IInv, TypeOK
  <1>5. Holders' = Holders
    BY <1>1, <1>2 DEF Holders, IInv, TypeOK
  <1> QED
    BY <1>1, <1>3, <1>4, <1>5, SameLeases DEF IInv, PermitAccounting, TableBound

\* failed() leaves every counter of slots alone.
LEMMA FailedStep ==
  ASSUME IInv, NEW r \in Request, Failed(r)
  PROVE  IInv'
  <1>0. PICK i \in IP, t \in Nat : i = req[r].ip /\ t = req[r].stamp
    BY DEF Failed, IInv, TypeOK
  <1>1. /\ now' = now /\ lastSweep' = lastSweep /\ permits' = permits
        /\ req' = [req EXCEPT ![r].phase = "streaming"]
        /\ req[r].phase = "rejected"
    BY DEF Failed, Moved
  <1>2. clients' = [j \in DOMAIN clients |->
                      IF j = i THEN CountFailure(clients[j], t) ELSE clients[j]]
    BY <1>0 DEF Failed
  <1>3. \A j \in DOMAIN clients :
          /\ clients[j] \in Client
          /\ CountFailure(clients[j], t) \in Client
          /\ CountFailure(clients[j], t).inFlight = clients[j].inFlight
    BY CountFailureType DEF IInv, TypeOK
  <1>4. DOMAIN clients' = DOMAIN clients /\ clients' \in [DOMAIN clients' -> Client]
    BY <1>2, <1>3
  <1>5. TypeOK'
    BY <1>1, <1>4 DEF IInv, TypeOK, Phase
  <1>6. \A j \in IP : InFlight(j)' = InFlight(j)
    BY <1>2, <1>3, <1>4 DEF InFlight
  <1>7. \A j \in IP : LeasesOf(j)' = LeasesOf(j)
    BY <1>1 DEF LeasesOf, Leased, IInv, TypeOK
  <1>8. Holders' = Holders
    BY <1>1 DEF Holders, IInv, TypeOK
  <1> QED
    BY <1>1, <1>4, <1>5, <1>6, <1>7, <1>8, SameLeases
    DEF IInv, PermitAccounting, TableBound

\* Dropping a lease finds a counter of at least one: the saturating
\* subtraction in leave never saturates, and the entry is always there.
LEMMA DropLeaseStep ==
  ASSUME IInv, NEW r \in Request, DropLease(r)
  PROVE  IInv'
  <1>0. PICK i \in IP : i = req[r].ip
    BY DEF DropLease, IInv, TypeOK
  <1>1. /\ now' = now /\ lastSweep' = lastSweep /\ permits' = permits
        /\ req' = [req EXCEPT ![r].phase = "releasing"]
        /\ req[r].phase \in {"handling", "streaming"}
    BY DEF DropLease, Moved
  <1>2. r \in LeasesOf(i) /\ LeasesOf(i)' = LeasesOf(i) \ {r}
    BY <1>0, <1>1 DEF LeasesOf, Leased, IInv, TypeOK
  <1>3. \A j \in IP : j # i => LeasesOf(j)' = LeasesOf(j)
    BY <1>0, <1>1 DEF LeasesOf, Leased, IInv, TypeOK
  <1>4. IsFiniteSet(LeasesOf(i))
    BY SlotsAssumption, FS_Subset DEF LeasesOf
  <1>5. /\ Cardinality(LeasesOf(i)') = Cardinality(LeasesOf(i)) - 1
        /\ Cardinality(LeasesOf(i)) \in Nat
        /\ Cardinality(LeasesOf(i)') \in Nat
    BY <1>2, <1>4, FS_RemoveElement, FS_CardinalityType
  <1>6. InFlight(i) > 0 /\ InFlight(i) = Cardinality(LeasesOf(i))
    BY <1>5 DEF IInv, LeaseAccounting
  <1>7. i \in DOMAIN clients /\ clients[i].inFlight = InFlight(i)
    BY <1>6 DEF InFlight
  <1>8. clients' = [j \in DOMAIN clients |->
                      IF j = i THEN [clients[j] EXCEPT !.inFlight = @ - 1]
                               ELSE clients[j]]
    BY <1>0, <1>6, <1>7 DEF DropLease, Leave
  <1>9. \A j \in DOMAIN clients : clients[j] \in Client
    BY DEF IInv, TypeOK
  <1>10. [clients[i] EXCEPT !.inFlight = @ - 1] \in Client
         /\ [clients[i] EXCEPT !.inFlight = @ - 1].inFlight = InFlight(i) - 1
    BY <1>6, <1>7, <1>9 DEF Client
  <1>11. DOMAIN clients' = DOMAIN clients /\ clients' \in [DOMAIN clients' -> Client]
    BY <1>8, <1>9, <1>10
  <1>12. TypeOK'
    BY <1>1, <1>11 DEF IInv, TypeOK, Phase
  <1>13. InFlight(i)' = InFlight(i) - 1
    BY <1>7, <1>8, <1>10, <1>11 DEF InFlight
  <1>14. \A j \in IP : j # i => InFlight(j)' = InFlight(j)
    BY <1>8, <1>11 DEF InFlight
  <1>15. LeaseAccounting' /\ PerIpBound'
    BY <1>3, <1>5, <1>6, <1>13, <1>14, LimitsAssumption
    DEF IInv, LeaseAccounting, PerIpBound
  <1>16. Holders' = Holders
    BY <1>1 DEF Holders, IInv, TypeOK
  <1> QED
    BY <1>1, <1>11, <1>12, <1>15, <1>16 DEF IInv, PermitAccounting, TableBound

\* The permit goes back to the semaphore once.
LEMMA ReleaseStep ==
  ASSUME IInv, NEW r \in Request, ReleasePermit(r)
  PROVE  IInv'
  <1>1. /\ req' = [req EXCEPT ![r] = Idle] /\ permits' = permits + 1
        /\ clients' = clients /\ now' = now /\ lastSweep' = lastSweep
        /\ req[r].phase = "releasing"
    BY DEF ReleasePermit
  <1>2. Holders' = Holders \ {r} /\ r \in Holders
    BY <1>1 DEF Holders, Idle, IInv, TypeOK
  <1>3. IsFiniteSet(Holders)
    BY SlotsAssumption, FS_Subset DEF Holders
  <1>4. /\ Cardinality(Holders') = Cardinality(Holders) - 1
        /\ Cardinality(Holders) \in Nat
        /\ Cardinality(Holders') \in Nat
    BY <1>2, <1>3, FS_RemoveElement, FS_CardinalityType
  <1>5. PermitAccounting' /\ permits' \in 0 .. MaxInFlight
    BY <1>1, <1>4, LimitsAssumption DEF PermitAccounting, IInv, TypeOK
  <1>6. TypeOK'
    <2>1. Idle \in [phase : Phase, ip : IP \cup {NoIp}, class : Class, stamp : Nat]
      BY DEF Idle, Phase, Class
    <2> QED
      BY <1>1, <1>5, <2>1 DEF IInv, TypeOK, Idle
  <1>7. \A j \in IP : InFlight(j)' = InFlight(j) /\ LeasesOf(j)' = LeasesOf(j)
    BY <1>1 DEF InFlight, LeasesOf, Leased, Idle, IInv, TypeOK
  <1> QED
    BY <1>1, <1>5, <1>6, <1>7, SameLeases DEF IInv, TableBound

\* The invariant holds of the empty ledger.
LEMMA InitIInv == Init => IInv
  <1> SUFFICES ASSUME Init PROVE IInv
    OBVIOUS
  <1>1. DOMAIN clients = {} /\ req = [r \in Request |-> Idle]
    BY DEF Init
  <1>2. TypeOK
    BY <1>1, LimitsAssumption DEF Init, TypeOK, Idle, Phase, Class
  <1>3. \A i \in IP : LeasesOf(i) = {} /\ InFlight(i) = 0
    BY <1>1 DEF LeasesOf, Leased, Idle, InFlight
  <1>4. Holders = {}
    BY <1>1 DEF Holders, Idle
  <1>5. Cardinality({}) = 0
    BY FS_EmptySet
  <1>6. LeaseAccounting /\ PerIpBound
    BY <1>3, <1>5, LimitsAssumption DEF LeaseAccounting, PerIpBound
  <1>7. PermitAccounting
    BY <1>4, <1>5, LimitsAssumption DEF PermitAccounting, Init
  <1>8. TableBound
    BY <1>1, <1>5, LimitsAssumption DEF TableBound
  <1> QED
    BY <1>2, <1>6, <1>7, <1>8 DEF IInv

\* Every step preserves the invariant.
LEMMA NextIInv == IInv /\ [Next]_vars => IInv'
  <1> SUFFICES ASSUME IInv, [Next]_vars PROVE IInv'
    OBVIOUS
  <1>1. CASE Tick
    BY <1>1 DEF Tick, IInv, TypeOK, LeaseAccounting, PerIpBound, PermitAccounting,
       TableBound, LeasesOf, InFlight, Holders
  <1>2. ASSUME NEW r \in Request, Step(r) PROVE IInv'
    BY <1>2, ArriveStep, AdmitStep, AnswerStep, FailedStep, DropLeaseStep, ReleaseStep
    DEF Step
  <1>3. CASE UNCHANGED vars
    BY <1>3 DEF vars, IInv, TypeOK, LeaseAccounting, PerIpBound, PermitAccounting,
       TableBound, LeasesOf, InFlight, Holders
  <1> QED
    BY <1>1, <1>2, <1>3 DEF Next

\* Type correctness of the admission layer.
THEOREM AdmissionType == Spec => []TypeOK
  BY InitIInv, NextIInv, PTL DEF Spec, IInv

\* The slot counters are exact and bounded for every interleaving of
\* admissions, failures, cancellations, slow bodies and sweeps.
THEOREM LeasesAccounted == Spec => [](LeaseAccounting /\ PerIpBound)
  BY InitIInv, NextIInv, PTL DEF Spec, IInv

\* Permits are conserved.
THEOREM PermitsAccounted == Spec => []PermitAccounting
  BY InitIInv, NextIInv, PTL DEF Spec, IInv

\* The table of tracked addresses stays bounded.
THEOREM TableBounded == Spec => []TableBound
  BY InitIInv, NextIInv, PTL DEF Spec, IInv
=============================================================================
