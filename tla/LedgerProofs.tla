---------------------------- MODULE LedgerProofs ----------------------------
(***************************************************************************)
(* What the ledger keeps over the whole life of an address, however the    *)
(* sweep forgets it and in whatever order stamps reach it, for any limits: *)
(* the budget it was granted (AdmissionBudget) and the bans it was given   *)
(* (AdmissionBans).                                                        *)
(***************************************************************************)
EXTENDS AdmissionProofs, AdmissionBudget, AdmissionBans

\* A request that waits for the ledger has a recent stamp.
StampSound(r) ==
    req[r].phase = "stamped" => req[r].stamp <= now /\ now <= req[r].stamp + MaxSkew

\* What bucket b, the tokens n ever granted and the seconds w rewound leave of
\* the refill up to the stamp of the bucket.
Covered(b, k, n, w) ==
    n * Period[k] + b.units <= Cap[k] * (Period[k] + b.updated + w)

\* A tracked bucket is stamped about when its address was last seen.
BucketSound(c, i, k) ==
    /\ c.buckets[k].updated <= now
    /\ c.buckets[k].updated <= c.lastSeen + MaxSkew
    /\ Covered(c.buckets[k], k, granted[i][k], rewound[i][k])

\* The address is unknown to the ledger, and a full bucket stamped t or later
\* gives it nothing it would not have had.
Clear(i, k, t) ==
    \/ granted[i][k] = 0
    \/ granted[i][k] * Period[k] <= Cap[k] * (t + rewound[i][k])

BInv ==
    /\ granted \in [IP -> [Class -> Nat]]
    /\ rewound \in [IP -> [Class -> Nat]]
    /\ \A r \in Request : StampSound(r)
    /\ \A i \in DOMAIN clients :
         /\ clients[i].lastSeen <= now
         /\ \A k \in Class : BucketSound(clients[i], i, k)
    /\ \A i \in IP \ DOMAIN clients, k \in Class : Clear(i, k, now - MaxSkew)
-----------------------------------------------------------------------------
(* Arithmetic of the refill.                                               *)

LEMMA Product ==
  /\ \A c \in Nat, x, y \in Int : c * x \in Int /\ c * (x + y) = c * x + c * y
  /\ \A c \in Nat, x, y \in Int : x <= y => c * x <= c * y
  OBVIOUS

LEMMA Limits ==
  ASSUME NEW k \in Class
  PROVE  /\ Cap[k] \in Nat \ {0} /\ Period[k] \in Nat \ {0}
         /\ Cap[k] * Period[k] \in Nat
  BY LimitsAssumption, ProductNat

\* What is rewound only adds to what an address may have had.
LEMMA CoveredMore ==
  ASSUME NEW k \in Class, NEW b \in Bucket, NEW n \in Nat, NEW w \in Nat, NEW v \in Nat,
         w <= v, Covered(b, k, n, w)
  PROVE  Covered(b, k, n, v)
  <1>1. Period[k] + b.updated + w \in Int /\ Period[k] + b.updated + v \in Int
        /\ Period[k] + b.updated + w <= Period[k] + b.updated + v
    BY Limits DEF Bucket
  <1> DEFINE x == Period[k] + b.updated + w
             y == Period[k] + b.updated + v
             m == n * Period[k] + b.units
  <1>2. Cap[k] * x <= Cap[k] * y /\ Cap[k] * x \in Int /\ Cap[k] * y \in Int
    <2> HIDE DEF x, y
    <2>1. x \in Int /\ y \in Int /\ x <= y
      BY <1>1 DEF x, y
    <2> QED BY <2>1, Product, Limits
  <1>3. m \in Int
    BY Limits, ProductNat DEF Bucket
  <1>4. m <= Cap[k] * x
    BY DEF Covered
  <1>5. m <= Cap[k] * y
    <2> HIDE DEF m, x, y
    <2> QED BY <1>2, <1>3, <1>4
  <1> QED BY <1>5 DEF Covered

\* Taking from a bucket at t, in whatever order stamps arrive, keeps it covered
\* once the seconds it ran back are added.
LEMMA TakeCovered ==
  ASSUME NEW k \in Class, NEW b \in Bucket, NEW n \in Nat, NEW w \in Nat, NEW t \in Nat,
         Covered(b, k, n, w)
  PROVE  Covered(Take(b, Cap[k], Period[k], t), k,
                 IF CanTake(b, Cap[k], Period[k], t) THEN n + 1 ELSE n,
                 w + Elapsed(b.updated, t))
  <1> DEFINE C == Cap[k]
             P == Period[k]
             e == Elapsed(t, b.updated)
             d == Elapsed(b.updated, t)
             x == P + b.updated + w
             y == P + t + (w + d)
             u == Refilled(b, C, P, t)
  <1>1. C \in Nat /\ P \in Nat
    BY Limits
  <1>2. e \in Nat /\ d \in Nat /\ y = x + e /\ x \in Nat /\ y \in Nat
    BY <1>1 DEF Elapsed, Bucket
  <1>3. u \in Nat
    BY Limits, TakeType
  <1>4. u <= b.units + C * e
    <2> HIDE DEF C, P, e
    <2>1. C * e \in Nat /\ C * P \in Nat /\ e * C = C * e /\ b.units \in Nat
      BY <1>1, <1>2, ProductNat DEF Bucket
    <2> QED BY <2>1 DEF Refilled, u, e
  <1>5. C * y = C * x + C * e /\ C * x \in Int /\ C * e \in Int
    <2> HIDE DEF C, x, y, e
    <2> QED BY <1>1, <1>2, Product
  <1>6. n * P \in Nat /\ n * P + b.units <= C * x /\ b.units \in Nat
    BY <1>1, ProductNat DEF Covered, Bucket
  <1>7. n * P + u <= C * y
    <2> HIDE DEF C, P, x, y, e, u
    <2> QED BY <1>3, <1>4, <1>5, <1>6
  <1>8. (n + 1) * P = n * P + P
    <2> HIDE DEF P
    <2> QED BY <1>1
  <1>9. CASE CanTake(b, C, P, t)
    <2>1. Take(b, C, P, t) = [units |-> u - P, updated |-> t]
      BY <1>9 DEF CanTake, Take
    <2>2. (n + 1) * P + (u - P) <= C * y
      <3> HIDE DEF C, P, x, y, e, u
      <3> QED BY <1>1, <1>3, <1>6, <1>7, <1>8
    <2> QED BY <1>9, <2>1, <2>2 DEF Covered
  <1>10. CASE ~CanTake(b, C, P, t)
    <2>1. Take(b, C, P, t) = [units |-> u, updated |-> t]
      BY <1>10 DEF CanTake, Take
    <2> QED BY <1>7, <1>10, <2>1 DEF Covered
  <1> QED BY <1>9, <1>10

\* An address that is clear at t is covered by a full bucket stamped t.
LEMMA ClearCovered ==
  ASSUME BInv, NEW i \in IP, NEW k \in Class, NEW t \in Nat, Clear(i, k, t)
  PROVE  Covered(NewBucket(Cap[k], Period[k], t), k, granted[i][k], rewound[i][k])
  <1> DEFINE C == Cap[k]
             P == Period[k]
             g == granted[i][k]
             w == rewound[i][k]
             x == t + w
  <1>1. C \in Nat /\ P \in Nat /\ g \in Nat /\ w \in Nat /\ x \in Nat
    BY Limits DEF BInv
  <1>2. P + t + w = P + x
    BY <1>1
  <1>3. C * (P + x) = C * P + C * x /\ C * P \in Nat /\ C * x \in Nat /\ g * P \in Nat
    <2> HIDE DEF C, P, g, x
    <2> QED BY <1>1, Product, ProductNat
  <1>4. g * P <= C * x
    <2>1. CASE g = 0
      <3>1. g * P = 0
        BY <1>1, <2>1
      <3> QED BY <1>3, <3>1
    <2>2. CASE g # 0
      BY <2>2 DEF Clear
    <2> QED BY <2>1, <2>2
  <1>5. g * P + C * P <= C * (P + x)
    <2> HIDE DEF C, P, g, x
    <2> QED BY <1>3, <1>4
  <1> QED BY <1>2, <1>5 DEF Covered, NewBucket

LEMMA ClearLater ==
  ASSUME BInv, NEW i \in IP, NEW k \in Class, NEW s \in Int, NEW t \in Int, s <= t,
         Clear(i, k, s)
  PROVE  Clear(i, k, t)
  <1> DEFINE x == s + rewound[i][k]
             y == t + rewound[i][k]
  <1>1. x \in Int /\ y \in Int /\ x <= y
    BY DEF BInv
  <1>2. Cap[k] * x <= Cap[k] * y /\ Cap[k] * x \in Int /\ Cap[k] * y \in Int
    <2> HIDE DEF x, y
    <2> QED BY <1>1, Product, Limits
  <1>3. granted[i][k] * Period[k] \in Int
    BY Limits, ProductNat DEF BInv
  <1>4. CASE granted[i][k] # 0
    <2>1. granted[i][k] * Period[k] <= Cap[k] * x
      BY <1>4 DEF Clear
    <2>2. granted[i][k] * Period[k] <= Cap[k] * y
      <3> HIDE DEF x, y
      <3> QED BY <1>2, <1>3, <2>1
    <2> QED BY <2>2 DEF Clear
  <1> QED BY <1>4 DEF Clear

-----------------------------------------------------------------------------
(* The ledger.                                                             *)

\* An address the sweep forgets has had all its buckets refilled.
LEMMA Pruned ==
  ASSUME TypeOK, BInv, NEW t \in Nat, NEW i \in DOMAIN clients, i \notin Tracked(t),
         NEW k \in Class
  PROVE  Clear(i, k, t - MaxSkew)
  <1> DEFINE b == clients[i].buckets[k]
             x == Period[k] + b.updated + rewound[i][k]
             y == t - MaxSkew + rewound[i][k]
             m == granted[i][k] * Period[k]
  <1>1. i \in IP /\ clients[i] \in Client
    BY DEF TypeOK
  <1>2. b \in Bucket /\ clients[i].lastSeen \in Nat
    BY <1>1 DEF Client, Bucket
  <1>3. Elapsed(t, clients[i].lastSeen) >= Ttl
    <2>1. ~(Elapsed(t, clients[i].lastSeen) < Ttl)
      BY DEF Tracked, Kept
    <2>2. Elapsed(t, clients[i].lastSeen) \in Nat /\ Ttl \in Nat
      BY <1>2, LimitsAssumption, TimeAssumption DEF Elapsed, Ttl
    <2> QED BY <2>1, <2>2
  <1>4. Period[k] + 2 * MaxSkew <= Ttl /\ Ttl \in Nat /\ MaxSkew \in Nat /\ Period[k] \in Nat
    BY TtlAssumption, LimitsAssumption, TimeAssumption, Limits DEF Ttl
  <1>5. t >= clients[i].lastSeen + Ttl \/ Ttl = 0
    BY <1>2, <1>3, <1>4 DEF Elapsed
  <1>6. t >= clients[i].lastSeen + Ttl
    BY <1>2, <1>4, <1>5, Limits
  <1>7. BucketSound(clients[i], i, k)
    BY DEF BInv
  <1>8. x \in Int /\ y \in Int /\ x <= y
    BY <1>1, <1>2, <1>4, <1>6, <1>7 DEF BucketSound, BInv, Bucket
  <1>9. Cap[k] * x <= Cap[k] * y /\ Cap[k] * x \in Int /\ Cap[k] * y \in Int
    <2> HIDE DEF x, y
    <2> QED BY <1>8, Product, Limits
  <1>10. m \in Int /\ b.units \in Nat /\ m + b.units <= Cap[k] * x
    BY <1>1, <1>2, <1>7, Limits, ProductNat DEF BucketSound, Covered, BInv, Bucket
  <1>11. m <= Cap[k] * y
    <2> HIDE DEF m, x, y, b
    <2> QED BY <1>9, <1>10
  <1> QED BY <1>11 DEF Clear

\* The buckets a request finds are covered, whether its address was known,
\* forgotten by this very sweep, or new.
LEMMA EntryCovered ==
  ASSUME TypeOK, BInv, NEW i \in IP, NEW t \in Nat, t <= now, now <= t + MaxSkew,
         NEW k \in Class
  PROVE  LET b == Entry(i, t).buckets[k]
         IN  /\ b \in Bucket /\ b.updated <= now /\ b.updated <= t + MaxSkew
             /\ Covered(b, k, granted[i][k], rewound[i][k])
             /\ i \in DOMAIN clients =>
                  Elapsed(b.updated, t) <= Elapsed(clients[i].buckets[k].updated, t)
  <1>0. now \in Nat /\ MaxSkew \in Nat
    BY TimeAssumption DEF TypeOK
  <1>1. CASE i \in Tracked(t)
    <2>1. i \in DOMAIN clients /\ clients[i] \in Client
      BY <1>1 DEF Tracked, TypeOK
    <2>2. Entry(i, t).buckets = clients[i].buckets
      BY <1>1, <2>1 DEF Entry, Client
    <2>3. BucketSound(clients[i], i, k)
      BY <2>1 DEF BInv
    <2>4. clients[i].buckets[k] \in Bucket
      BY <2>1 DEF Client, Bucket
    <2>5. Elapsed(clients[i].buckets[k].updated, t) \in Nat
      BY <2>4 DEF Elapsed, Bucket
    <2> QED BY <1>0, <2>2, <2>3, <2>4, <2>5 DEF BucketSound, Bucket
  <1>2. CASE i \notin Tracked(t)
    <2>1. Entry(i, t).buckets[k] = NewBucket(Cap[k], Period[k], t)
      BY <1>2 DEF Entry, NewClient
    <2>2. NewBucket(Cap[k], Period[k], t) \in Bucket
          /\ NewBucket(Cap[k], Period[k], t).updated = t
      BY Limits DEF NewBucket, Bucket
    <2>3. Clear(i, k, t)
      <3>1. CASE i \in DOMAIN clients
        <4>1. Clear(i, k, t - MaxSkew)
          BY <1>2, <3>1, Pruned
        <4> QED BY <1>0, <4>1, ClearLater
      <3>2. CASE i \notin DOMAIN clients
        <4>1. Clear(i, k, now - MaxSkew)
          BY <3>2 DEF BInv
        <4> QED BY <1>0, <4>1, ClearLater
      <3> QED BY <3>1, <3>2
    <2>4. ASSUME i \in DOMAIN clients
          PROVE  0 <= Elapsed(clients[i].buckets[k].updated, t)
      BY <2>4 DEF TypeOK, Client, Elapsed
    <2>5. Elapsed(t, t) = 0
      BY DEF Elapsed
    <2> QED BY <1>0, <2>1, <2>2, <2>3, <2>4, <2>5, ClearCovered
  <1> QED BY <1>1, <1>2
\* What a step at t makes of bucket k of address i: nothing, or one take, with
\* the history that Tally keeps of it.
Untaken(c, i, t, k) ==
    /\ c.buckets[k] = Entry(i, t).buckets[k]
    /\ granted'[i][k] = granted[i][k]
    /\ rewound'[i][k] = rewound[i][k]

Taken(c, i, t, k) ==
    LET b == Entry(i, t).buckets[k]
    IN  /\ c.buckets[k] = Take(b, Cap[k], Period[k], t)
        /\ granted'[i][k] = IF CanTake(b, Cap[k], Period[k], t)
                            THEN granted[i][k] + 1 ELSE granted[i][k]
        /\ rewound'[i][k] = IF i \in DOMAIN clients
                            THEN rewound[i][k] + Elapsed(clients[i].buckets[k].updated, t)
                            ELSE rewound[i][k]

HistoryType ==
    /\ granted \in [IP -> [Class -> Nat]]
    /\ rewound \in [IP -> [Class -> Nat]]

\* Either way the bucket is sound afterwards.
LEMMA TakenSound ==
  ASSUME TypeOK, BInv, HistoryType', NEW i \in IP, NEW t \in Nat, t <= now,
         now <= t + MaxSkew, NEW k \in Class, NEW c \in Client, c.lastSeen = t,
         now' = now, Untaken(c, i, t, k) \/ Taken(c, i, t, k)
  PROVE  /\ c.buckets[k].updated <= now
         /\ c.buckets[k].updated <= t + MaxSkew
         /\ Covered(c.buckets[k], k, granted'[i][k], rewound'[i][k])
  <1> DEFINE b == Entry(i, t).buckets[k]
             g == granted[i][k]
             w == rewound[i][k]
             d == Elapsed(b.updated, t)
  <1>1. /\ b \in Bucket /\ b.updated <= now /\ b.updated <= t + MaxSkew
        /\ Covered(b, k, g, w)
        /\ i \in DOMAIN clients => d <= Elapsed(clients[i].buckets[k].updated, t)
    BY EntryCovered
  <1>2. g \in Nat /\ w \in Nat /\ rewound'[i][k] \in Nat /\ granted'[i][k] \in Nat
    BY DEF BInv, HistoryType
  <1>3. CASE Untaken(c, i, t, k)
    BY <1>1, <1>3 DEF Untaken
  <1>4. CASE Taken(c, i, t, k)
    <2> DEFINE a == Take(b, Cap[k], Period[k], t)
               n == IF CanTake(b, Cap[k], Period[k], t) THEN g + 1 ELSE g
    <2>1. Covered(a, k, n, w + d)
      <3> HIDE DEF b, g, w
      <3> QED BY <1>1, <1>2, TakeCovered
    <2>2. a \in Bucket /\ a.updated = t /\ n \in Nat /\ d \in Nat
      <3>1. a \in Bucket
        BY <1>1, Limits, TakeType
      <3>2. a.updated = t
        BY DEF Take
      <3>3. n \in Nat /\ d \in Nat
        BY <1>1, <1>2 DEF Elapsed, Bucket
      <3> QED BY <3>1, <3>2, <3>3
    <2>3. w + d <= rewound'[i][k]
      <3>1. CASE i \in DOMAIN clients
        <4>1. clients[i].buckets[k].updated \in Nat
          BY <3>1 DEF TypeOK, Client
        <4> QED BY <1>1, <1>2, <1>4, <2>2, <3>1, <4>1 DEF Taken, Elapsed
      <3>2. CASE i \notin DOMAIN clients
        <4>1. b = NewBucket(Cap[k], Period[k], t)
          BY <3>2 DEF Entry, NewClient, Tracked
        <4>2. d = 0
          BY <4>1 DEF NewBucket, Elapsed
        <4> QED BY <1>2, <1>4, <3>2, <4>2 DEF Taken
      <3> QED BY <3>1, <3>2
    <2>4. Covered(a, k, n, rewound'[i][k])
      <3> HIDE DEF a, n, d, w
      <3> QED BY <1>2, <2>1, <2>2, <2>3, CoveredMore
    <2>5. c.buckets[k] = a /\ granted'[i][k] = n
      BY <1>4 DEF Taken
    <2> QED BY <2>2, <2>4, <2>5, TimeAssumption DEF TypeOK
  <1> QED BY <1>3, <1>4

\* The histories and buckets of the other addresses are as before, but for
\* those the sweep forgets.
LEMMA SweptSound ==
  ASSUME TypeOK, BInv, NEW t \in Nat, t <= now, now' = now, NEW i \in IP,
         granted'[i] = granted[i], rewound'[i] = rewound[i]
  PROVE  /\ i \in Tracked(t) => /\ clients[i].lastSeen <= now'
                                /\ \A k \in Class : /\ clients[i].buckets[k].updated <= now'
                                                    /\ clients[i].buckets[k].updated
                                                         <= clients[i].lastSeen + MaxSkew
                                                    /\ Covered(clients[i].buckets[k], k,
                                                         granted'[i][k], rewound'[i][k])
         /\ i \notin Tracked(t) => \A k \in Class : Clear(i, k, now - MaxSkew)'
  <1>1. CASE i \in Tracked(t)
    <2>1. i \in DOMAIN clients
      BY <1>1 DEF Tracked
    <2> QED BY <1>1, <2>1 DEF BInv, BucketSound
  <1>2. CASE i \notin Tracked(t)
    <2>1. ASSUME NEW k \in Class PROVE Clear(i, k, now - MaxSkew)
      <3>1. CASE i \in DOMAIN clients
        <4>1. Clear(i, k, t - MaxSkew)
          BY <1>2, <3>1, Pruned
        <4> QED BY <4>1, ClearLater, TimeAssumption DEF TypeOK
      <3>2. CASE i \notin DOMAIN clients
        BY <3>2 DEF BInv
      <3> QED BY <3>1, <3>2
    <2> QED BY <1>2, <2>1 DEF Clear
  <1> QED BY <1>1, <1>2

\* admit up to any decision keeps the budget when it takes from each bucket of
\* the entry at most once.
LEMMA DecideKeeps ==
  ASSUME TypeOK, BInv, HistoryType', NEW r \in Request, req[r].phase = "stamped",
         NEW i \in IP, i = req[r].ip, NEW t \in Nat, t = req[r].stamp,
         NEW c \in Client, c.lastSeen = t, NEW p \in Phase \ {"stamped"}, Decide(r, c, p),
         \A j \in IP \ {i} : granted'[j] = granted[j] /\ rewound'[j] = rewound[j],
         \A k \in Class : Untaken(c, i, t, k) \/ Taken(c, i, t, k)
  PROVE  BInv'
  <1>1. now' = now /\ Store(i, c, t) /\ req' = [req EXCEPT ![r].phase = p]
    BY DEF Decide, Moved
  <1>2. t <= now /\ now <= t + MaxSkew
    BY DEF BInv, StampSound
  <1>3. \A q \in Request : StampSound(q)'
    <2>1. req'[r].phase = p /\ \A q \in Request \ {r} : req'[q] = req[q]
      BY <1>1 DEF TypeOK
    <2> QED BY <1>1, <2>1 DEF BInv, StampSound
  <1>4. /\ DOMAIN clients' = Tracked(t) \cup {i}
        /\ clients'[i] = c
        /\ \A j \in Tracked(t) \ {i} : clients'[j] = clients[j]
    BY <1>1 DEF Store
  <1>5. Tracked(t) \subseteq IP
    BY DEF Tracked, TypeOK
  <1>6. ASSUME NEW j \in DOMAIN clients'
        PROVE  clients'[j].lastSeen <= now' /\ \A k \in Class : BucketSound(clients[j], j, k)'
    <2>1. CASE j = i
      BY <1>1, <1>2, <1>4, <2>1, TakenSound DEF BucketSound, Covered
    <2>2. CASE j # i
      <3>1. j \in Tracked(t) /\ j \in IP \ {i} /\ clients'[j] = clients[j]
        BY <1>4, <1>5, <1>6, <2>2
      <3> QED BY <1>1, <1>2, <3>1, SweptSound DEF BucketSound, Covered
    <2> QED BY <2>1, <2>2
  <1>7. ASSUME NEW j \in IP \ DOMAIN clients', NEW k \in Class
        PROVE  Clear(j, k, now - MaxSkew)'
    <2>1. j \notin Tracked(t) /\ j \in IP \ {i}
      BY <1>4, <1>7
    <2> QED BY <1>1, <1>2, <2>1, SweptSound
  <1> QED BY <1>3, <1>6, <1>7 DEF BInv, HistoryType

LEMMA RefuseFullKeeps ==
  ASSUME TypeOK, BInv, NEW r \in Request, RefuseFull(r), UNCHANGED history
  PROVE  BInv'
  <1>1. PICK t \in Nat : t = req[r].stamp
    BY DEF TypeOK
  <1>2. /\ now' = now /\ req' = [req EXCEPT ![r].phase = "releasing"]
        /\ req[r].phase = "stamped"
        /\ clients' = [j \in Tracked(t) |-> clients[j]]
        /\ granted' = granted /\ rewound' = rewound
    BY <1>1 DEF RefuseFull, Moved, history
  <1>3. t <= now
    BY <1>1, <1>2 DEF BInv, StampSound
  <1>4. \A q \in Request : StampSound(q)'
    <2>1. req'[r].phase = "releasing" /\ \A q \in Request \ {r} : req'[q] = req[q]
      BY <1>2 DEF TypeOK
    <2> QED BY <1>2, <2>1 DEF BInv, StampSound
  <1>5. Tracked(t) \subseteq IP
    BY DEF Tracked, TypeOK
  <1>6. ASSUME NEW j \in DOMAIN clients'
        PROVE  clients'[j].lastSeen <= now' /\ \A k \in Class : BucketSound(clients[j], j, k)'
    <2>1. j \in Tracked(t) /\ j \in IP /\ clients'[j] = clients[j]
      BY <1>2, <1>5, <1>6
    <2> QED BY <1>2, <1>3, <2>1, SweptSound DEF BucketSound, Covered
  <1>7. ASSUME NEW j \in IP \ DOMAIN clients', NEW k \in Class
        PROVE  Clear(j, k, now - MaxSkew)'
    <2>1. j \notin Tracked(t)
      BY <1>2, <1>7
    <2> QED BY <1>2, <1>3, <2>1, SweptSound
  <1> QED BY <1>2, <1>4, <1>6, <1>7 DEF BInv
\* Steps outside the ledger's buckets: answers, failures, leases and permits.
LEMMA QuietKeeps ==
  ASSUME TypeOK, BInv, UNCHANGED <<now, history>>,
         \A r \in Request : req'[r].phase = "stamped" =>
            \/ req'[r].stamp = now
            \/ req[r].phase = "stamped" /\ req'[r].stamp = req[r].stamp,
         DOMAIN clients' = DOMAIN clients,
         \A i \in DOMAIN clients : /\ clients'[i].buckets = clients[i].buckets
                                   /\ clients'[i].lastSeen = clients[i].lastSeen
  PROVE  BInv'
  <1>1. now \in Nat /\ MaxSkew \in Nat
    BY TimeAssumption DEF TypeOK
  <1>2. now' = now /\ granted' = granted /\ rewound' = rewound
    BY DEF history
  <1>3. \A r \in Request : StampSound(r)'
    BY <1>1, <1>2 DEF BInv, StampSound
  <1>4. ASSUME NEW i \in DOMAIN clients'
        PROVE  clients'[i].lastSeen <= now' /\ \A k \in Class : BucketSound(clients[i], i, k)'
    BY <1>2, <1>4 DEF BInv, BucketSound, Covered
  <1>5. \A i \in IP \ DOMAIN clients', k \in Class : Clear(i, k, now - MaxSkew)'
    BY <1>2 DEF BInv, Clear
  <1> QED BY <1>2, <1>3, <1>4, <1>5 DEF BInv

LEMMA RequestKeeps ==
  ASSUME TypeOK, BInv, UNCHANGED history, NEW r \in Request,
         \/ \E i \in IP, k \in Class : Arrive(r, i, k)
         \/ RespondOk(r) \/ RespondFailure(r) \/ HandlerTimeout(r) \/ ReleasePermit(r)
         \/ Failed(r) \/ DropLease(r)
  PROVE  BInv'
  <1>1. now' = now
    BY DEF Arrive, RespondOk, RespondFailure, HandlerTimeout, ReleasePermit, Failed, DropLease
  <1>2. \A q \in Request \ {r} : req'[q] = req[q]
    BY DEF Arrive, RespondOk, RespondFailure, HandlerTimeout, ReleasePermit, Failed,
           DropLease, Moved, TypeOK
  <1>3. req'[r].phase = "stamped" => req'[r].stamp = now
    BY DEF Arrive, RespondOk, RespondFailure, HandlerTimeout, ReleasePermit, Failed,
           DropLease, Moved, TypeOK, Idle
  <1>4. /\ DOMAIN clients' = DOMAIN clients
        /\ \A i \in DOMAIN clients : /\ clients'[i].buckets = clients[i].buckets
                                     /\ clients'[i].lastSeen = clients[i].lastSeen
    <2>1. \A i \in DOMAIN clients : clients[i] \in Client
      BY DEF TypeOK
    <2>2. CASE Failed(r)
      BY <2>1, <2>2 DEF Failed, CountFailure, Client
    <2>3. CASE DropLease(r)
      BY <2>1, <2>3 DEF DropLease, Leave, Client
    <2>4. CASE ~Failed(r) /\ ~DropLease(r)
      <3>1. clients' = clients
        BY <2>4 DEF Arrive, RespondOk, RespondFailure, HandlerTimeout, ReleasePermit
      <3> QED BY <3>1
    <2> QED BY <2>2, <2>3, <2>4
  <1> QED BY <1>1, <1>2, <1>3, <1>4, QuietKeeps

\* Time only widens what an address may have had.
LEMMA TickKeeps ==
  ASSUME TypeOK, BInv, UNCHANGED history, Tick
  PROVE  BInv'
  <1>1. /\ now' = now + 1 /\ clients' = clients /\ req' = req
        /\ granted' = granted /\ rewound' = rewound
    BY DEF Tick, history
  <1>2. now \in Nat /\ MaxSkew \in Nat
    BY TimeAssumption DEF TypeOK
  <1>3. \A r \in Request : StampSound(r)'
    BY <1>1, <1>2 DEF BInv, StampSound, Tick, TypeOK
  <1>4. ASSUME NEW i \in DOMAIN clients'
        PROVE  clients'[i].lastSeen <= now' /\ \A k \in Class : BucketSound(clients[i], i, k)'
    <2>1. i \in DOMAIN clients /\ clients[i] \in Client
      BY <1>1, <1>4 DEF TypeOK
    <2> QED BY <1>1, <1>2, <2>1 DEF BInv, BucketSound, Covered, Client
  <1>5. ASSUME NEW i \in IP \ DOMAIN clients', NEW k \in Class
        PROVE  Clear(i, k, now - MaxSkew)'
    <2>1. Clear(i, k, now - MaxSkew)
      BY <1>1 DEF BInv
    <2>2. Clear(i, k, now + 1 - MaxSkew)
      BY <1>2, <2>1, ClearLater
    <2>3. (now - MaxSkew)' = now + 1 - MaxSkew
      BY <1>1, <1>2
    <2>4. Clear(i, k, now - MaxSkew)' <=> Clear(i, k, now + 1 - MaxSkew)
      BY <1>1, <2>3, Zenon DEF Clear
    <2> QED BY <2>2, <2>4
  <1> QED BY <1>1, <1>3, <1>4, <1>5 DEF BInv

-----------------------------------------------------------------------------
(* The decisions of admit.                                                 *)

LEMMA Tallied ==
  ASSUME TypeOK, BInv, NEW i \in IP, NEW t \in Nat, NEW asked, NEW got,
         Tally(i, t, asked, got)
  PROVE  /\ HistoryType'
         /\ \A j \in IP \ {i} : granted'[j] = granted[j] /\ rewound'[j] = rewound[j]
         /\ \A k \in Class :
              /\ granted'[i][k] = IF k \in got THEN granted[i][k] + 1 ELSE granted[i][k]
              /\ rewound'[i][k] = IF k \in asked /\ i \in DOMAIN clients
                                  THEN rewound[i][k]
                                         + Elapsed(clients[i].buckets[k].updated, t)
                                  ELSE rewound[i][k]
  <1>1. HistoryType
    BY DEF BInv, HistoryType
  <1>2. ASSUME i \in DOMAIN clients, NEW k \in Class
        PROVE  Elapsed(clients[i].buckets[k].updated, t) \in Nat
    BY <1>2 DEF TypeOK, Client, Elapsed
  <1>3. granted' \in [IP -> [Class -> Nat]]
    BY <1>1 DEF Tally, HistoryType
  <1>4. rewound' \in [IP -> [Class -> Nat]]
    BY <1>1, <1>2 DEF Tally, HistoryType
  <1> QED BY <1>1, <1>3, <1>4 DEF Tally, HistoryType

LEMMA EntrySeen ==
  ASSUME TypeOK, NEW i \in IP, NEW t \in Nat
  PROVE  /\ Entry(i, t) \in Client /\ Entry(i, t).lastSeen = t
         /\ Pardoned(Entry(i, t)) \in Client /\ Pardoned(Entry(i, t)).lastSeen = t
         /\ Pardoned(Entry(i, t)).buckets = Entry(i, t).buckets
  <1>1. Entry(i, t) \in Client
    BY EntryType
  <1>2. Entry(i, t).lastSeen = t
    BY DEF Entry, NewClient, Tracked, TypeOK, Client
  <1> QED BY <1>1, <1>2, PardonedType DEF Pardoned, Client

LEMMA ChargedSeen ==
  ASSUME NEW c \in Client, NEW k \in Class, NEW t \in Nat
  PROVE  /\ Charged(c, k, t) \in Client /\ Charged(c, k, t).lastSeen = c.lastSeen
         /\ Charged(c, k, t).buckets[k] = Take(c.buckets[k], Cap[k], Period[k], t)
         /\ \A l \in Class \ {k} : Charged(c, k, t).buckets[l] = c.buckets[l]
  BY ChargedType DEF Charged, Client

LEMMA AdmitKeeps ==
  ASSUME TypeOK, BInv, NEW r \in Request, BudgetAdmit(r)
  PROVE  BInv'
  <1>1. PICK i \in IP, t \in Nat, k \in Class :
          i = req[r].ip /\ t = req[r].stamp /\ k = req[r].class
    BY DEF BudgetAdmit, RefuseFull, RefuseBanned, RefuseCrowded, RefuseRate,
           RefuseOperation, Accept, TypeOK
  <1> DEFINE e == Entry(i, t)
             p == Pardoned(e)
             g == Charged(p, General, t)
  <1>2. General \in Class
    BY DEF Class
  <1>3. /\ e \in Client /\ e.lastSeen = t /\ p \in Client /\ p.lastSeen = t
        /\ p.buckets = e.buckets
    BY EntrySeen
  <1>4. /\ g \in Client /\ g.lastSeen = t
        /\ g.buckets[General] = Take(e.buckets[General], Cap[General], Period[General], t)
        /\ \A l \in Class \ {General} : g.buckets[l] = e.buckets[l]
    <2> HIDE DEF e, p
    <2> QED BY <1>2, <1>3, ChargedSeen
  <1>5. ASSUME NEW c \in {e, p}, Decide(r, c, "releasing"), UNCHANGED history,
               req[r].phase = "stamped"
        PROVE  BInv'
    <2>1. HistoryType' /\ granted' = granted /\ rewound' = rewound
      BY <1>5 DEF history, HistoryType, BInv
    <2>2. \A l \in Class : Untaken(c, i, t, l)
      BY <1>3, <1>5, <2>1 DEF Untaken
    <2>3. c \in Client /\ c.lastSeen = t
      BY <1>3, <1>5
    <2> HIDE DEF e, p
    <2> QED BY <1>1, <1>5, <2>1, <2>2, <2>3, DecideKeeps DEF Phase
  <1>6. CASE RefuseFull(r) /\ UNCHANGED history
    BY <1>6, RefuseFullKeeps
  <1>7. CASE RefuseBanned(r) /\ UNCHANGED history
    BY <1>1, <1>5, <1>7 DEF RefuseBanned
  <1>8. CASE RefuseCrowded(r) /\ UNCHANGED history
    BY <1>1, <1>5, <1>8 DEF RefuseCrowded
  <1>9. CASE RefuseRate(r) /\ Tally(i, t, {General}, {})
    <2>1. Decide(r, g, "releasing") /\ req[r].phase = "stamped" /\ ~HasBudget(e, General, t)
      BY <1>1, <1>9 DEF RefuseRate
    <2>2. \A l \in Class : Untaken(g, i, t, l) \/ Taken(g, i, t, l)
      BY <1>2, <1>4, <1>9, <2>1, Tallied DEF Untaken, Taken, HasBudget
    <2> HIDE DEF e, p, g
    <2> QED BY <1>1, <1>4, <1>9, <2>1, <2>2, Tallied, DecideKeeps DEF Phase
  <1>10. CASE RefuseOperation(r) /\ Tally(i, t, {General, k}, {General})
    <2> DEFINE h == Charged(g, k, t)
    <2>1. /\ Decide(r, h, "releasing") /\ req[r].phase = "stamped" /\ k # General
          /\ HasBudget(e, General, t) /\ ~HasBudget(e, k, t)
      BY <1>1, <1>10 DEF RefuseOperation
    <2>2. /\ h \in Client /\ h.lastSeen = t
          /\ h.buckets[k] = Take(g.buckets[k], Cap[k], Period[k], t)
          /\ \A l \in Class \ {k} : h.buckets[l] = g.buckets[l]
      <3> HIDE DEF g
      <3> QED BY <1>4, ChargedSeen
    <2>3. \A l \in Class : Untaken(h, i, t, l) \/ Taken(h, i, t, l)
      <3> HIDE DEF g, h
      <3> QED BY <1>2, <1>4, <1>10, <2>1, <2>2, Tallied DEF Untaken, Taken, HasBudget
    <2> HIDE DEF e, p, g, h
    <2> QED BY <1>1, <1>10, <2>1, <2>2, <2>3, Tallied, DecideKeeps DEF Phase
  <1>11. CASE Accept(r) /\ Tally(i, t, {General, k}, {General, k})
    <2> DEFINE b == IF k = General THEN g ELSE Charged(g, k, t)
               h == [b EXCEPT !.inFlight = @ + 1]
    <2>1. /\ Decide(r, h, "handling") /\ req[r].phase = "stamped"
          /\ HasBudget(e, General, t) /\ HasBudget(e, k, t)
      BY <1>1, <1>11 DEF Accept, WithLease
    <2>2. /\ b \in Client /\ b.lastSeen = t
          /\ b.buckets[k] = Take(e.buckets[k], Cap[k], Period[k], t)
          /\ \A l \in Class \ {k} : b.buckets[l] = g.buckets[l]
      <3> HIDE DEF g
      <3> QED BY <1>2, <1>4, ChargedSeen
    <2>3. h \in Client /\ h.lastSeen = t /\ h.buckets = b.buckets
      <3> HIDE DEF b
      <3> QED BY <2>2 DEF Client
    <2>4. \A l \in Class : Untaken(h, i, t, l) \/ Taken(h, i, t, l)
      <3> HIDE DEF g, b, h
      <3> QED BY <1>2, <1>4, <1>11, <2>1, <2>2, <2>3, Tallied DEF Untaken, Taken, HasBudget
    <2> HIDE DEF e, p, g, b, h
    <2> QED BY <1>1, <1>11, <2>1, <2>3, <2>4, Tallied, DecideKeeps DEF Phase
  <1> QED BY <1>1, <1>6, <1>7, <1>8, <1>9, <1>10, <1>11 DEF BudgetAdmit
-----------------------------------------------------------------------------
(* The budget.                                                             *)

LEMMA BudgetInitial == BudgetInit => BInv
  <1> SUFFICES ASSUME BudgetInit PROVE BInv
    OBVIOUS
  <1>1. /\ DOMAIN clients = {} /\ req = [r \in Request |-> Idle]
        /\ granted = [i \in IP |-> [k \in Class |-> 0]]
        /\ rewound = [i \in IP |-> [k \in Class |-> 0]]
    BY DEF BudgetInit, Init
  <1> QED BY <1>1 DEF BInv, StampSound, Clear, Idle

\* The history only watches the steps of Admission.
LEMMA BudgetStep == BudgetNext => Next
  <1> SUFFICES ASSUME BudgetNext PROVE Next
    OBVIOUS
  <1>1. ASSUME NEW r \in Request, BudgetAdmit(r) PROVE Step(r)
    BY <1>1 DEF BudgetAdmit, Step, Admit
  <1> QED BY <1>1 DEF BudgetNext, Next, Step

LEMMA BudgetIsAdmission == BudgetSpec => Spec
  <1>1. BudgetInit => Init
    BY DEF BudgetInit
  <1>2. [BudgetNext]_budgetVars => [Next]_vars
    BY BudgetStep DEF budgetVars
  <1> QED BY <1>1, <1>2, PTL DEF BudgetSpec, Spec

LEMMA BudgetInductive == BudgetSpec => [](TypeOK /\ BInv)
  <1>1. TypeOK /\ BInv /\ [BudgetNext]_budgetVars => BInv'
    <2> SUFFICES ASSUME TypeOK, BInv, [BudgetNext]_budgetVars PROVE BInv'
      OBVIOUS
    <2>1. CASE UNCHANGED budgetVars
      <3>1. UNCHANGED <<vars, history>>
        BY <2>1 DEF budgetVars
      <3>2. UNCHANGED <<now, history>> /\ req' = req /\ clients' = clients
        BY <3>1 DEF vars
      <3> QED BY <3>2, QuietKeeps
    <2>2. CASE BudgetNext
      BY <2>2, TickKeeps, RequestKeeps, AdmitKeeps DEF BudgetNext
    <2> QED BY <2>1, <2>2
  <1> QED BY <1>1, BudgetInitial, BudgetIsAdmission, AdmissionType, PTL DEF BudgetSpec

LEMMA BudgetFollows == TypeOK /\ BInv => BudgetConserved
  <1> SUFFICES ASSUME TypeOK, BInv, NEW i \in IP, NEW k \in Class
               PROVE  granted[i][k] * Period[k] + Available(i, k)
                        <= Cap[k] * (Period[k] + now + rewound[i][k])
    BY DEF BudgetConserved
  <1> DEFINE C == Cap[k]
             P == Period[k]
             m == granted[i][k] * P
             w == rewound[i][k]
             y == P + now + w
  <1>1. /\ C \in Nat /\ P \in Nat /\ m \in Nat /\ w \in Nat /\ now \in Nat /\ y \in Nat
        /\ C * P \in Nat /\ C * y \in Nat
    BY Limits, ProductNat DEF BInv, TypeOK
  <1>2. CASE i \in DOMAIN clients
    <2> DEFINE b == clients[i].buckets[k]
               x == P + b.updated + w
               d == Elapsed(now, b.updated)
    <2>1. b \in Bucket
      BY <1>2 DEF TypeOK, Client, Bucket
    <2>2. b.updated <= now /\ m + b.units <= C * x
      BY <1>2 DEF BInv, BucketSound, Covered
    <2>3. d \in Nat /\ x \in Nat /\ y = x + d
      <3>1. b.updated \in Nat /\ now \in Nat /\ P \in Nat /\ w \in Nat /\ b.updated <= now
        BY <1>1, <2>1, <2>2 DEF Bucket
      <3>2. d = now - b.updated
        BY <3>1 DEF Elapsed
      <3> HIDE DEF P, w, b, d
      <3> QED BY <3>1, <3>2
    <2>4. C * y = C * x + C * d /\ C * x \in Int /\ C * d \in Int
      <3> HIDE DEF C, x, y, d
      <3> QED BY <1>1, <2>3, Product
    <2>5. Available(i, k) \in Nat /\ Available(i, k) <= b.units + C * d
      <3>1. Available(i, k) = Refilled(b, C, P, now)
        BY <1>2 DEF Available
      <3>2. b.units \in Nat /\ d * C = C * d /\ C * d \in Nat
        <4> HIDE DEF C, d
        <4> QED BY <1>1, <2>1, <2>3, ProductNat DEF Bucket
      <3>3. Refilled(b, C, P, now) = IF b.units + C * d < C * P THEN b.units + C * d ELSE C * P
        BY <3>2 DEF Refilled
      <3> HIDE DEF C, P, b, d
      <3> QED BY <1>1, <3>1, <3>2, <3>3
    <2>6. b.units \in Nat
      BY <2>1 DEF Bucket
    <2>7. m + Available(i, k) <= C * y
      <3> HIDE DEF m, C, P, b, x, y, d
      <3> QED BY <1>1, <2>2, <2>4, <2>5, <2>6
    <2> QED BY <2>7
  <1>3. CASE i \notin DOMAIN clients
    <2>1. Available(i, k) = C * P
      BY <1>3 DEF Available
    <2>2. Clear(i, k, now)
      BY <1>1, <1>3, ClearLater, TimeAssumption DEF BInv
    <2>3. Covered(NewBucket(C, P, now), k, granted[i][k], w)
      BY <1>1, <2>2, ClearCovered
    <2> QED BY <2>1, <2>3 DEF Covered, NewBucket
  <1> QED BY <1>2, <1>3

\* However often the sweep forgets an address and gives it full buckets again,
\* and whatever the order in which stamps reach the ledger, an address never
\* gets more than one full bucket and the refill of its time (Bucket::take,
\* Security::admit).
THEOREM BudgetAlwaysConserved == BudgetSpec => []BudgetConserved
  BY BudgetInductive, BudgetFollows, PTL

-----------------------------------------------------------------------------
(* Bans.                                                                   *)

\* A request that waits for the ledger, to be admitted or to be counted as a
\* failure, has a recent stamp.
StampRecent(r) ==
    req[r].phase \in {"stamped", "rejected"} =>
        req[r].stamp <= now /\ now <= req[r].stamp + MaxSkew

\* The longest ban pronounced for i is over, or the ledger still holds it; a
\* racing failure may have set its end back by the skew of its stamp.
Owed(i) ==
    \/ sentence[i] <= now + MaxSkew
    \/ i \in DOMAIN clients /\ sentence[i] <= clients[i].bannedUntil + MaxSkew

SInv ==
    /\ sentence \in [IP -> Nat]
    /\ \A r \in Request : StampRecent(r)
    /\ \A i \in IP : sentence[i] <= now + BanSeconds /\ Owed(i)

LEMMA Clock ==
  ASSUME TypeOK
  PROVE  now \in Nat /\ MaxSkew \in Nat /\ BanSeconds \in Nat
  BY TimeAssumption, LimitsAssumption DEF TypeOK

\* An address that is not banned at t, or that the sweep of t forgets, owes
\* nothing any more.
LEMMA BanOver ==
  ASSUME TypeOK, SInv, NEW i \in IP, NEW t \in Nat, t <= now,
         i \notin Tracked(t) \/ ~Banned(clients[i], t)
  PROVE  sentence[i] <= now + MaxSkew
  <1> SUFFICES ASSUME i \in DOMAIN clients, sentence[i] <= clients[i].bannedUntil + MaxSkew
               PROVE  sentence[i] <= now + MaxSkew
    BY DEF SInv, Owed
  <1>1. ~(clients[i].bannedUntil > t)
    BY DEF Tracked, Kept, Banned
  <1>2. clients[i].bannedUntil \in Int /\ sentence[i] \in Nat
    BY DEF TypeOK, SInv, Client, NoBan
  <1> QED BY <1>1, <1>2, Clock

\* Every decision of admit leaves the ban of its address as it was, or finds
\* that it is over.
LEMMA DecisionKeepsBans ==
  ASSUME TypeOK, SInv, NEW i \in IP, NEW t \in Nat, t <= now, NEW c \in Client,
         Store(i, c, t), UNCHANGED <<now, sentence>>,
         \/ ~Banned(Entry(i, t), t)
         \/ c.bannedUntil = Entry(i, t).bannedUntil
  PROVE  \A j \in IP : Owed(j)'
  <1> SUFFICES ASSUME NEW j \in IP, sentence[j] > now + MaxSkew PROVE Owed(j)'
    BY Clock DEF SInv, Owed
  <1>1. j \in Tracked(t) /\ Banned(clients[j], t)
    BY BanOver, Clock DEF SInv
  <1>2. j \in DOMAIN clients /\ clients[j] \in Client
    BY <1>1 DEF Tracked, TypeOK
  <1>3. sentence[j] <= clients[j].bannedUntil + MaxSkew
    BY Clock DEF SInv, Owed
  <1>4. j \in DOMAIN clients' /\ clients'[j] = IF j = i THEN c ELSE clients[j]
    BY <1>1 DEF Store
  <1>5. CASE j = i
    <2>1. Entry(i, t).bannedUntil = clients[i].bannedUntil
      BY <1>1, <1>2, <1>5 DEF Entry, Client
    <2> QED BY <1>1, <1>3, <1>4, <1>5, <2>1 DEF Owed, Banned
  <1> QED BY <1>3, <1>4, <1>5 DEF Owed

\* The entry stored by each decision is well formed.
LEMMA StoredType ==
  ASSUME NEW c \in Client, NEW k \in Class, NEW t \in Nat
  PROVE  /\ Pardoned(c) \in Client
         /\ Charged(Pardoned(c), General, t) \in Client
         /\ Charged(Charged(Pardoned(c), General, t), k, t) \in Client
         /\ WithLease(c, k, t) \in Client
  <1>1. General \in Class
    BY DEF Class
  <1> QED BY <1>1, PardonedType, ChargedType, WithLeaseType

LEMMA AdmitKeepsBans ==
  ASSUME TypeOK, SInv, NEW r \in Request, Admit(r), UNCHANGED banHistory
  PROVE  /\ SInv'
         /\ req'[r].phase = "handling" => sentence[req[r].ip] <= now + MaxSkew
  <1>1. PICK i \in IP, t \in Nat, k \in Class :
          i = req[r].ip /\ t = req[r].stamp /\ k = req[r].class
    BY DEF Admit, RefuseFull, RefuseBanned, RefuseCrowded, RefuseRate,
           RefuseOperation, Accept, TypeOK
  <1>2. req[r].phase = "stamped" /\ now' = now
    BY DEF Admit, RefuseFull, RefuseBanned, RefuseCrowded, RefuseRate,
           RefuseOperation, Accept, Decide
  <1>3. t <= now /\ sentence' = sentence
    BY <1>1, <1>2 DEF SInv, StampRecent, banHistory
  <1> DEFINE e == Entry(i, t)
  <1>4. e \in Client
    BY EntryType
  <1>5. \/ RefuseFull(r)
        \/ \E c \in Client : /\ Decide(r, c, "releasing")
                             /\ ~Banned(e, t) \/ c.bannedUntil = e.bannedUntil
        \/ ~Banned(e, t) /\ \E c \in Client : Decide(r, c, "handling")
    <2> HIDE DEF e
    <2>1. /\ Pardoned(e) \in Client /\ Charged(Pardoned(e), General, t) \in Client
          /\ Charged(Charged(Pardoned(e), General, t), k, t) \in Client
          /\ WithLease(e, k, t) \in Client
      BY <1>4, StoredType
    <2> QED BY <1>1, <1>4, <2>1
            DEF Admit, RefuseBanned, RefuseCrowded, RefuseRate, RefuseOperation, Accept, e
  <1>6. /\ \A q \in Request \ {r} : req'[q] = req[q]
        /\ req'[r].phase \in {"releasing", "handling"}
        /\ req'[r].phase = "handling" => ~Banned(e, t)
    <2> HIDE DEF e
    <2> QED BY <1>5 DEF RefuseFull, Decide, Moved, TypeOK
  <1>7. \A j \in IP : Owed(j)'
    <2>1. CASE RefuseFull(r)
      <3> SUFFICES ASSUME NEW j \in IP, sentence[j] > now + MaxSkew PROVE Owed(j)'
        BY <1>2, <1>3, Clock DEF SInv, Owed
      <3>1. j \in Tracked(t)
        BY <1>3, BanOver, Clock DEF SInv
      <3>2. sentence[j] <= clients[j].bannedUntil + MaxSkew
        BY Clock DEF SInv, Owed
      <3>3. j \in DOMAIN clients' /\ clients'[j] = clients[j]
        BY <1>1, <2>1, <3>1 DEF RefuseFull
      <3> QED BY <1>3, <3>2, <3>3 DEF Owed
    <2>2. ASSUME NEW c \in Client, NEW p, Decide(r, c, p),
                 ~Banned(e, t) \/ c.bannedUntil = e.bannedUntil
          PROVE  \A j \in IP : Owed(j)'
      <3>1. Store(i, c, t)
        BY <1>1, <2>2 DEF Decide
      <3> QED BY <1>2, <1>3, <2>2, <3>1, DecisionKeepsBans
    <2> HIDE DEF e
    <2> QED BY <1>5, <2>1, <2>2
  <1>8. ~Banned(e, t) => sentence[i] <= now + MaxSkew
    <2> SUFFICES ASSUME ~Banned(e, t), i \in Tracked(t) PROVE ~Banned(clients[i], t)
      BY <1>3, BanOver
    <2>1. clients[i] \in Client
      BY DEF Tracked, TypeOK
    <2> QED BY <2>1 DEF Entry, Banned, Client
  <1>9. \A q \in Request : StampRecent(q)'
    BY <1>2, <1>6 DEF SInv, StampRecent
  <1> QED BY <1>1, <1>2, <1>3, <1>6, <1>7, <1>8, <1>9 DEF SInv

\* A failure that reaches the ledger late can set the end of a ban back by no
\* more than the skew.
LEMMA FailedKeepsBans ==
  ASSUME TypeOK, SInv, NEW r \in Request, BanFailed(r)
  PROVE  SInv'
  <1>1. PICK i \in IP, t \in Nat : i = req[r].ip /\ t = req[r].stamp
    BY DEF BanFailed, Failed, TypeOK
  <1>2. /\ now' = now /\ \A q \in Request \ {r} : req'[q] = req[q]
        /\ req'[r].phase = "streaming" /\ req[r].phase = "rejected"
    BY DEF BanFailed, Failed, Moved, TypeOK
  <1>3. t <= now /\ now <= t + MaxSkew
    BY <1>1, <1>2 DEF SInv, StampRecent
  <1> DEFINE pronounced == i \in DOMAIN clients /\ clients'[i].failures >= FailureLimit
  <1>4. /\ DOMAIN clients' = DOMAIN clients
        /\ \A j \in DOMAIN clients :
             clients'[j] = IF j = i THEN CountFailure(clients[j], t) ELSE clients[j]
    BY <1>1 DEF BanFailed, Failed
  <1>5. /\ \A j \in IP \ {i} : sentence'[j] = sentence[j]
        /\ sentence'[i] = IF pronounced /\ t + BanSeconds > sentence[i]
                          THEN t + BanSeconds ELSE sentence[i]
        /\ sentence' \in [IP -> Nat]
    BY <1>1, <1>4, Clock DEF BanFailed, SInv
  <1>6. i \in DOMAIN clients =>
          clients'[i].bannedUntil = IF pronounced THEN t + BanSeconds
                                    ELSE clients[i].bannedUntil
    <2> SUFFICES ASSUME i \in DOMAIN clients
                 PROVE  clients'[i].bannedUntil = IF pronounced THEN t + BanSeconds
                                                  ELSE clients[i].bannedUntil
      OBVIOUS
    <2>1. clients[i] \in Client /\ clients'[i] = CountFailure(clients[i], t)
      BY <1>4 DEF TypeOK
    <2> QED BY <2>1 DEF CountFailure, Client
  <1>7. ASSUME NEW j \in IP PROVE (sentence[j] <= now + BanSeconds)' /\ Owed(j)'
    <2>1. sentence[j] \in Nat /\ sentence[j] <= now + BanSeconds /\ Owed(j)
      BY DEF SInv
    <2>2. CASE j # i
      BY <1>2, <1>4, <1>5, <2>1, <2>2 DEF Owed
    <2>3. CASE j = i /\ pronounced
      <3>1. clients'[i].bannedUntil = t + BanSeconds /\ i \in DOMAIN clients'
        BY <1>4, <1>6, <2>3
      <3>2. sentence'[i] <= t + BanSeconds + MaxSkew /\ sentence'[i] <= now + BanSeconds
        BY <1>3, <1>5, <2>1, <2>3, Clock
      <3> HIDE DEF pronounced
      <3> QED BY <1>2, <2>3, <3>1, <3>2, Clock DEF Owed
    <2>4. CASE j = i /\ ~pronounced
      <3>1. sentence'[i] = sentence[i]
        BY <1>5, <2>4
      <3>2. i \in DOMAIN clients => clients'[i].bannedUntil = clients[i].bannedUntil
        BY <1>6, <2>4
      <3> HIDE DEF pronounced
      <3> QED BY <1>2, <1>4, <2>1, <2>4, <3>1, <3>2 DEF Owed
    <2> QED BY <2>2, <2>3, <2>4
  <1>8. \A q \in Request : StampRecent(q)'
    BY <1>2 DEF SInv, StampRecent
  <1> QED BY <1>5, <1>7, <1>8 DEF SInv

\* Steps that pronounce and lift no ban.
LEMMA OthersKeepBans ==
  ASSUME TypeOK, SInv, UNCHANGED banHistory, NEW r \in Request,
         \/ \E i \in IP, k \in Class : Arrive(r, i, k)
         \/ RespondOk(r) \/ RespondFailure(r) \/ HandlerTimeout(r)
         \/ DropLease(r) \/ ReleasePermit(r)
  PROVE  SInv' /\ (req[r].phase = "stamped" => req'[r].phase # "handling")
  <1>1. now' = now /\ sentence' = sentence
    BY DEF Arrive, RespondOk, RespondFailure, HandlerTimeout, ReleasePermit, DropLease,
           banHistory
  <1>2. \A q \in Request \ {r} : req'[q] = req[q]
    BY DEF Arrive, RespondOk, RespondFailure, HandlerTimeout, ReleasePermit,
           DropLease, Moved, TypeOK
  <1>3. /\ req'[r].phase \in {"stamped", "rejected"} => req'[r].stamp = now
        /\ req'[r].phase # "handling"
    BY DEF Arrive, RespondOk, RespondFailure, HandlerTimeout, ReleasePermit,
           DropLease, Moved, TypeOK, Idle
  <1>4. /\ DOMAIN clients' = DOMAIN clients
        /\ \A i \in DOMAIN clients : clients'[i].bannedUntil = clients[i].bannedUntil
    <2>1. \A i \in DOMAIN clients : clients[i] \in Client
      BY DEF TypeOK
    <2>2. CASE DropLease(r)
      BY <2>1, <2>2 DEF DropLease, Leave, Client
    <2>3. CASE ~DropLease(r)
      <3>1. clients' = clients
        BY <2>3 DEF Arrive, RespondOk, RespondFailure, HandlerTimeout, ReleasePermit
      <3> QED BY <3>1
    <2> QED BY <2>2, <2>3
  <1>5. \A q \in Request : StampRecent(q)'
    BY <1>1, <1>2, <1>3, Clock DEF SInv, StampRecent
  <1>6. \A i \in IP : Owed(i)'
    BY <1>1, <1>4 DEF SInv, Owed
  <1> QED BY <1>1, <1>3, <1>5, <1>6 DEF SInv

LEMMA TickKeepsBans ==
  ASSUME TypeOK, SInv, UNCHANGED banHistory, Tick
  PROVE  SInv' /\ req' = req
  <1>1. now' = now + 1 /\ clients' = clients /\ req' = req /\ sentence' = sentence
    BY DEF Tick, banHistory
  <1>2. \A r \in Request : StampRecent(r)'
    BY <1>1, Clock DEF SInv, StampRecent, Tick, TypeOK
  <1>3. ASSUME NEW i \in IP PROVE (sentence[i] <= now + BanSeconds)' /\ Owed(i)'
    <2>1. sentence[i] \in Nat /\ sentence[i] <= now + BanSeconds /\ Owed(i)
      BY DEF SInv
    <2> QED BY <1>1, <2>1, Clock DEF Owed
  <1> QED BY <1>1, <1>2, <1>3 DEF SInv

\* A step admits r only when the ban of its address is over.
Serves ==
    \A r \in Request : req[r].phase = "stamped" /\ req'[r].phase = "handling"
                          => now + MaxSkew >= sentence[req[r].ip]

LEMMA BansStep == TypeOK /\ SInv /\ [BanNext]_banVars => SInv' /\ Serves
  <1> SUFFICES ASSUME TypeOK, SInv, [BanNext]_banVars PROVE SInv' /\ Serves
    OBVIOUS
  <1>1. CASE UNCHANGED banVars
    <2>1. UNCHANGED <<vars, banHistory>>
      BY <1>1 DEF banVars
    <2>2. UNCHANGED <<now, clients, req, sentence>>
      BY <2>1 DEF vars, banHistory
    <2> QED BY <2>2 DEF SInv, StampRecent, Owed, Serves
  <1>2. CASE Tick /\ UNCHANGED banHistory
    BY <1>2, TickKeepsBans DEF Serves
  <1>3. ASSUME NEW r \in Request, UNCHANGED banHistory,
               \/ \E i \in IP, k \in Class : Arrive(r, i, k)
               \/ RespondOk(r) \/ RespondFailure(r) \/ HandlerTimeout(r)
               \/ DropLease(r) \/ ReleasePermit(r)
        PROVE  SInv' /\ Serves
    <2>1. \A q \in Request \ {r} : req'[q] = req[q]
      BY <1>3 DEF Arrive, RespondOk, RespondFailure, HandlerTimeout, ReleasePermit,
                  DropLease, Moved, TypeOK
    <2>2. SInv' /\ (req[r].phase = "stamped" => req'[r].phase # "handling")
      BY <1>3, OthersKeepBans
    <2> QED BY <2>1, <2>2 DEF Serves
  <1>4. ASSUME NEW r \in Request, Admit(r), UNCHANGED banHistory
        PROVE  SInv' /\ Serves
    <2>1. \A q \in Request \ {r} : req'[q] = req[q]
      BY <1>4 DEF Admit, RefuseFull, RefuseBanned, RefuseCrowded, RefuseRate,
                  RefuseOperation, Accept, Decide, Moved, TypeOK
    <2>2. SInv' /\ (req'[r].phase = "handling" => sentence[req[r].ip] <= now + MaxSkew)
      BY <1>4, AdmitKeepsBans
    <2>3. req[r].phase = "stamped" => sentence[req[r].ip] \in Nat
      BY DEF SInv, TypeOK
    <2> QED BY <2>1, <2>2, <2>3, Clock DEF Serves
  <1>5. ASSUME NEW r \in Request, BanFailed(r) PROVE SInv' /\ Serves
    <2>1. \A q \in Request \ {r} : req'[q] = req[q]
      BY <1>5 DEF BanFailed, Failed, Moved, TypeOK
    <2>2. req[r].phase = "rejected"
      BY <1>5 DEF BanFailed, Failed
    <2> QED BY <1>5, <2>1, <2>2, FailedKeepsBans DEF Serves
  <1> QED BY <1>1, <1>2, <1>3, <1>4, <1>5 DEF BanNext

LEMMA BansInitial == BanInit => SInv
  <1> SUFFICES ASSUME BanInit PROVE SInv
    OBVIOUS
  <1>1. /\ now = 0 /\ req = [r \in Request |-> Idle] /\ sentence = [i \in IP |-> 0]
    BY DEF BanInit, Init
  <1> QED BY <1>1, TimeAssumption, LimitsAssumption DEF SInv, StampRecent, Owed, Idle

LEMMA BansAreAdmission == BanSpec => Spec
  <1>1. BanInit => Init
    BY DEF BanInit
  <1>2. [BanNext]_banVars => [Next]_vars
    BY DEF banVars, BanNext, BanFailed, Next, Step
  <1> QED BY <1>1, <1>2, PTL DEF BanSpec, Spec

\* A ban is served to its end, up to the skew of racing failures, whatever the
\* sweep forgets and however many requests of the address are in flight
\* (Security::admit, Security::failed).
THEOREM BansAlwaysServed == BanSpec => BanServed
  <1>1. TypeOK /\ SInv /\ [BanNext]_banVars => [Serves]_banVars
    BY BansStep
  <1>2. TypeOK /\ SInv /\ [BanNext]_banVars => SInv'
    BY BansStep
  <1>3. BanSpec => [][Serves]_banVars
    BY <1>1, <1>2, BansInitial, BansAreAdmission, AdmissionType, PTL DEF BanSpec
  <1> QED BY <1>3 DEF BanServed, Serves

-----------------------------------------------------------------------------
(* Failures that are certain to lead to a ban.                             *)

\* The d-th failure of a log, from the latest.
Ago(s, d) == s[Len(s) - d + 1]

\* The latest m failures are less than a window apart, also from one at u.
Close(s, m) == \A d, e \in 1..m : Ago(s, d) - Ago(s, e) < FailureWindow
Joins(s, m, u) ==
    \A d \in 1..m : u - Ago(s, d) < FailureWindow /\ Ago(s, d) - u < FailureWindow

\* The failures the ledger counts, and the stamps the next failure may have.
Count(i) == IF i \in DOMAIN clients THEN clients[i].failures ELSE 0
MayFail(i, u) ==
    \/ u >= now
    \/ \E r \in Request : req[r].ip = i /\ req[r].phase = "rejected" /\ req[r].stamp = u

\* The next failure may be less than a window apart from the latest m.
Open(i, m) == /\ Close(failLog[i], m)
              /\ \E u \in Nat : MayFail(i, u) /\ Joins(failLog[i], m, u)

\* Before the failures it counts, the ledger has forgotten one count since the
\* log was opened, in a sweep or a pardon: those failures are as old as the
\* entry, and that cannot happen again within the window.
Forgotten(i, m) ==
    /\ m <= Count(i) + 2 * FailureLimit - 3
    /\ i \in DOMAIN clients =>
         /\ clients[i].bannedUntil = NoBan
         /\ \A d \in (Count(i) + 1)..m : Ago(failLog[i], d) <= clients[i].lastSeen + MaxSkew

\* What the ledger counts are the latest failures of the log, from the start of
\* its window on; the log is empty after a ban.
CountSound(i) ==
    LET n == Len(failLog[i])
    IN  /\ n = 0 => Count(i) = 0 \/ Count(i) >= FailureLimit
        /\ n # 0 => /\ FailureLimit # 1 /\ Count(i) < FailureLimit /\ Count(i) <= n
                    /\ Count(i) # 0 => Ago(failLog[i], Count(i)) = clients[i].failureStart

\* How many failures less than a window apart the log may hold: besides those
\* counted there are those of the window before without its first, and those
\* before a count that was forgotten.
Bounded(i, m) == m <= Count(i) + FailureLimit - 2 \/ Forgotten(i, m)

LogSound(i) ==
    /\ Len(failLog[i]) <= CertainBan
    /\ \A d \in 1..Len(failLog[i]) : Ago(failLog[i], d) <= now
    /\ CountSound(i)
    /\ \A m \in 1..Len(failLog[i]) : Open(i, m) => Bounded(i, m)
    /\ \A m \in 1..Len(failLog[i]) : Close(failLog[i], m) => m <= 3 * FailureLimit - 4

LInv == failLog \in [IP -> Seq(Nat)] /\ \A i \in IP : LogSound(i)

LEMMA Windows ==
  /\ FailureLimit \in Nat \ {0} /\ FailureWindow \in Nat \ {0} /\ CertainBan \in Nat \ {0}
  /\ FailureLimit # 1 => CertainBan = 3 * FailureLimit - 3
  /\ FailureLimit = 1 => CertainBan = 1
  /\ Ttl \in Nat /\ MaxSkew \in Nat
  BY LimitsAssumption, TimeAssumption DEF CertainBan, Ttl

\* Adding a failure moves the others back by one, and may drop the oldest.
LEMMA LogAppend ==
  ASSUME NEW s \in Seq(Nat), NEW u \in Nat, Len(s) <= CertainBan
  PROVE  LET z == Latest(Append(s, u), CertainBan)
         IN  /\ z \in Seq(Nat)
             /\ Len(z) = IF Len(s) < CertainBan THEN Len(s) + 1 ELSE CertainBan
             /\ Ago(z, 1) = u
             /\ \A d \in 2..Len(z) : Ago(z, d) = Ago(s, d - 1)
  <1> DEFINE a == Append(s, u)
             n == Len(s)
             z == Latest(a, CertainBan)
  <1>1. /\ a \in Seq(Nat) /\ Len(a) = n + 1 /\ n \in Nat /\ a[n + 1] = u
        /\ \A k \in 1..n : a[k] = s[k]
    OBVIOUS
  <1> HIDE DEF a
  <1>2. CASE n < CertainBan
    <2>1. z = a
      BY <1>1, <1>2, Windows DEF Latest
    <2>2. Ago(a, 1) = u
      BY <1>1 DEF Ago
    <2>3. ASSUME NEW d \in 2..(n + 1) PROVE Ago(a, d) = Ago(s, d - 1)
      <3> DEFINE k == n + 1 - d + 1
      <3>1. k \in 1..n /\ n - (d - 1) + 1 = k
        BY <1>1, <2>3
      <3>2. a[k] = s[k]
        <4> HIDE DEF k
        <4> QED BY <1>1, <3>1
      <3> QED BY <1>1, <3>1, <3>2 DEF Ago
    <2> HIDE DEF z
    <2>4. /\ z \in Seq(Nat) /\ Len(z) = n + 1 /\ Ago(z, 1) = u
          /\ \A d \in 2..Len(z) : Ago(z, d) = Ago(s, d - 1)
      BY <1>1, <2>1, <2>2, <2>3
    <2> QED BY <1>2, <2>4 DEF z, a
  <1>3. CASE n = CertainBan
    <2>1. z = SubSeq(a, 2, n + 1)
      BY <1>1, <1>3, Windows DEF Latest
    <2>2. z \in Seq(Nat) /\ Len(z) = n /\ \A k \in 1..n : z[k] = a[k + 1]
      BY <1>1, <2>1
    <2> HIDE DEF z
    <2>3. Ago(z, 1) = u
      BY <1>1, <1>3, <2>2, Windows DEF Ago
    <2>4. ASSUME NEW d \in 2..n PROVE Ago(z, d) = Ago(s, d - 1)
      <3> DEFINE k == n - d + 1
      <3>1. k \in 1..n /\ k + 1 \in 1..n /\ n - (d - 1) + 1 = k + 1
        BY <1>1, <2>4
      <3>2. z[k] = s[k + 1]
        <4> HIDE DEF k
        <4> QED BY <1>1, <2>2, <3>1
      <3> QED BY <2>2, <3>1, <3>2 DEF Ago
    <2>5. \A d \in 2..Len(z) : Ago(z, d) = Ago(s, d - 1)
      BY <2>2, <2>4
    <2> QED BY <1>3, <2>2, <2>3, <2>5 DEF z, a
  <1> QED BY <1>1, <1>2, <1>3, Windows

LEMMA AgoType ==
  ASSUME NEW s \in Seq(Nat), NEW d \in 1..Len(s)
  PROVE  Ago(s, d) \in Nat
  BY DEF Ago

\* A step that leaves the log of i alone keeps it sound, if what it forgets of
\* the count is covered.
LEMMA LogStays ==
  ASSUME TypeOK, LInv, NEW i \in IP, failLog'[i] = failLog[i], now' \in Nat,
         now <= now',
         \A u \in Nat : MayFail(i, u)' => MayFail(i, u),
         \/ /\ i \in DOMAIN clients <=> i \in DOMAIN clients'
            /\ i \in DOMAIN clients =>
                 /\ clients'[i].failures = clients[i].failures
                 /\ clients'[i].failureStart = clients[i].failureStart
                 /\ clients'[i].bannedUntil = clients[i].bannedUntil
                 /\ \/ clients'[i].lastSeen = clients[i].lastSeen
                    \/ clients'[i].lastSeen \in Nat /\ now <= clients'[i].lastSeen + MaxSkew
         \/ /\ Count(i)' = 0
            /\ i \in DOMAIN clients' =>
                 /\ clients'[i].bannedUntil = NoBan
                 /\ clients'[i].lastSeen \in Nat /\ now <= clients'[i].lastSeen + MaxSkew
            /\ \A m \in 1..Len(failLog[i]) : Open(i, m) => m <= 2 * FailureLimit - 3
  PROVE  LogSound(i)'
  <1> DEFINE s == failLog[i]
  <1>1. s \in Seq(Nat) /\ Len(s) \in Nat /\ LogSound(i) /\ now \in Nat
    BY DEF LInv, TypeOK
  <1>2. \A d \in 1..Len(s) : Ago(s, d) \in Nat /\ Ago(s, d) <= now
    BY <1>1, AgoType DEF LogSound
  <1>3. \A m \in 1..Len(s) : Open(i, m)' => Open(i, m)
    BY DEF Open, Close, Joins, Ago
  <1>4. CASE /\ i \in DOMAIN clients <=> i \in DOMAIN clients'
             /\ i \in DOMAIN clients =>
                 /\ clients'[i].failures = clients[i].failures
                 /\ clients'[i].failureStart = clients[i].failureStart
                 /\ clients'[i].bannedUntil = clients[i].bannedUntil
                 /\ \/ clients'[i].lastSeen = clients[i].lastSeen
                    \/ clients'[i].lastSeen \in Nat /\ now <= clients'[i].lastSeen + MaxSkew
    <2>1. Count(i)' = Count(i) /\ CountSound(i)'
      BY <1>1, <1>4 DEF Count, CountSound, LogSound, Ago
    <2>2. Count(i) \in Nat
      BY DEF Count, TypeOK, Client
    <2>3. ASSUME NEW m \in 1..Len(s), Forgotten(i, m) PROVE Forgotten(i, m)'
      <3>1. ASSUME i \in DOMAIN clients, NEW d \in (Count(i) + 1)..m
            PROVE  Ago(s, d) <= clients'[i].lastSeen + MaxSkew
        <4>1. d \in 1..Len(s)
          BY <2>2, <3>1, <1>1
        <4>2. Ago(s, d) <= clients[i].lastSeen + MaxSkew
          BY <2>3, <3>1 DEF Forgotten
        <4> QED BY <1>1, <1>2, <1>4, <3>1, <4>1, <4>2, Windows
      <3> QED BY <1>4, <2>1, <2>3, <3>1 DEF Forgotten, Ago
    <2>4. \A m \in 1..Len(s) : Open(i, m)' => Bounded(i, m)'
      BY <1>1, <1>3, <2>1, <2>3 DEF LogSound, Bounded
    <2> QED BY <1>1, <1>2, <2>1, <2>4 DEF LogSound, Ago, Close
  <1>5. CASE /\ Count(i)' = 0
             /\ i \in DOMAIN clients' =>
                 /\ clients'[i].bannedUntil = NoBan
                 /\ clients'[i].lastSeen \in Nat /\ now <= clients'[i].lastSeen + MaxSkew
             /\ \A m \in 1..Len(failLog[i]) : Open(i, m) => m <= 2 * FailureLimit - 3
    <2>1. CountSound(i)'
      BY <1>1, <1>5, Windows DEF CountSound, LogSound
    <2>2. ASSUME NEW m \in 1..Len(s), Open(i, m)' PROVE Bounded(i, m)'
      <3>1. m <= 0 + 2 * FailureLimit - 3
        BY <1>3, <1>5, <2>2, Windows
      <3>2. ASSUME i \in DOMAIN clients', NEW d \in 1..m
            PROVE  Ago(s, d) <= clients'[i].lastSeen + MaxSkew
        <4>1. d \in 1..Len(s)
          BY <1>1, <3>2
        <4> QED BY <1>1, <1>2, <1>5, <3>2, <4>1, Windows
      <3> QED BY <1>5, <3>1, <3>2 DEF Bounded, Forgotten, Ago
    <2> QED BY <1>1, <1>2, <2>1, <2>2 DEF LogSound, Ago, Close
  <1> QED BY <1>4, <1>5

\* What admit leaves of the count of its address: all of it, or nothing after a
\* pardon or when the entry is new.
LEMMA Recounted ==
  ASSUME TypeOK, NEW i \in IP, NEW t \in Nat, NEW k \in Class,
         NEW c \in {Entry(i, t), Pardoned(Entry(i, t)),
                    Charged(Pardoned(Entry(i, t)), General, t),
                    Charged(Charged(Pardoned(Entry(i, t)), General, t), k, t),
                    WithLease(Entry(i, t), k, t)}
  PROVE  /\ c.lastSeen = t
         /\ \/ /\ i \in Tracked(t)
               /\ c.failures = clients[i].failures
               /\ c.failureStart = clients[i].failureStart
               /\ c.bannedUntil = clients[i].bannedUntil
            \/ /\ c.failures = 0 /\ c.bannedUntil = NoBan
               /\ i \in Tracked(t) => clients[i].bannedUntil # NoBan
  <1> DEFINE e == Entry(i, t)
             p == Pardoned(e)
             g == Charged(p, General, t)
  <1>1. General \in Class
    BY DEF Class
  <1>2. e \in Client /\ p \in Client /\ e.lastSeen = t /\ p.lastSeen = t
    BY EntrySeen
  <1>3. ASSUME NEW b \in Client, NEW l \in Class
        PROVE  /\ Charged(b, l, t) \in Client
               /\ Charged(b, l, t).lastSeen = b.lastSeen
               /\ Charged(b, l, t).failures = b.failures
               /\ Charged(b, l, t).failureStart = b.failureStart
               /\ Charged(b, l, t).bannedUntil = b.bannedUntil
    BY ChargedType DEF Charged, Client
  <1>4. /\ c.lastSeen = t
        /\ \/ /\ c.failures = e.failures /\ c.failureStart = e.failureStart
              /\ c.bannedUntil = e.bannedUntil
           \/ /\ c.failures = p.failures /\ c.failureStart = p.failureStart
              /\ c.bannedUntil = p.bannedUntil
    <2>1. /\ g \in Client /\ g.lastSeen = t /\ g.failures = p.failures
          /\ g.failureStart = p.failureStart /\ g.bannedUntil = p.bannedUntil
      <3> HIDE DEF p
      <3> QED BY <1>1, <1>2, <1>3
    <2> DEFINE h == Charged(g, k, t)
               b == IF k = General THEN g ELSE h
    <2>2. /\ h \in Client /\ h.lastSeen = t /\ h.failures = p.failures
          /\ h.failureStart = p.failureStart /\ h.bannedUntil = p.bannedUntil
      <3> HIDE DEF p, g
      <3> QED BY <1>3, <2>1
    <2>3. WithLease(e, k, t) = [b EXCEPT !.inFlight = @ + 1]
      BY DEF WithLease
    <2>4. c \in {e, p, g, h, WithLease(e, k, t)}
      OBVIOUS
    <2>5. /\ b \in Client /\ b.lastSeen = t /\ b.failures = p.failures
          /\ b.failureStart = p.failureStart /\ b.bannedUntil = p.bannedUntil
      BY <2>1, <2>2
    <2> HIDE DEF e, p, g, h, b
    <2>6. CASE c = [b EXCEPT !.inFlight = @ + 1]
      BY <2>5, <2>6 DEF Client
    <2> QED BY <1>2, <2>1, <2>2, <2>3, <2>4, <2>6
  <1>5. CASE i \in Tracked(t)
    <2>1. clients[i] \in Client
      BY <1>5 DEF Tracked, TypeOK
    <2>2. /\ e.failures = clients[i].failures /\ e.failureStart = clients[i].failureStart
          /\ e.bannedUntil = clients[i].bannedUntil
      BY <1>5, <2>1 DEF Entry, Client
    <2>3. \/ p = e
          \/ p.failures = 0 /\ p.bannedUntil = NoBan /\ e.bannedUntil # NoBan
      BY <1>2 DEF Pardoned, Client
    <2> HIDE DEF e, p
    <2> QED BY <1>4, <1>5, <2>2, <2>3
  <1>6. CASE i \notin Tracked(t)
    <2>1. e.failures = 0 /\ e.bannedUntil = NoBan
      BY <1>6 DEF Entry, NewClient
    <2>2. p = e
      BY <2>1 DEF Pardoned
    <2> HIDE DEF e, p
    <2> QED BY <1>4, <1>6, <2>1, <2>2
  <1> QED BY <1>5, <1>6

\* A sweep forgets a count only when no failure may join the failures before
\* that count any more.
LEMMA SweptLog ==
  ASSUME IInv, LInv, NEW i \in IP, NEW t \in Nat, t <= now, i \notin Tracked(t),
         NEW m \in 1..Len(failLog[i]), Open(i, m)
  PROVE  m <= 2 * FailureLimit - 3
  <1> DEFINE s == failLog[i]
             f == Count(i)
  <1>1. TypeOK /\ now \in Nat /\ s \in Seq(Nat) /\ Len(s) \in Nat /\ m \in Nat /\ Len(s) # 0
    BY DEF IInv, TypeOK, LInv
  <1>2. f \in Nat /\ f < FailureLimit /\ FailureLimit # 1
    <2>1. f \in Nat
      BY <1>1 DEF Count, TypeOK, Client
    <2> QED BY <1>1, <2>1 DEF LInv, LogSound, CountSound
  <1>3. Bounded(i, m)
    BY DEF LInv, LogSound
  <1>4. CASE m <= f + FailureLimit - 2
    BY <1>1, <1>2, <1>4, Windows
  <1>5. CASE i \notin DOMAIN clients
    BY <1>1, <1>2, <1>3, <1>5, Windows DEF Bounded, Forgotten, Count
  <1>6. CASE i \in DOMAIN clients /\ Forgotten(i, m) /\ m > f
    <2>1. clients[i] \in Client /\ clients[i].lastSeen \in Nat
      BY <1>1, <1>6 DEF TypeOK, Client
    <2>2. clients[i].inFlight = 0 /\ ~(Elapsed(t, clients[i].lastSeen) < Ttl)
      BY <1>6 DEF Tracked, Kept
    <2>3. t >= clients[i].lastSeen + Ttl
      BY <2>1, <2>2, Windows, SkewAssumption DEF Elapsed
    <2>4. LeasesOf(i) = {}
      <3>1. Cardinality(LeasesOf(i)) = 0
        BY <1>6, <2>2 DEF IInv, LeaseAccounting, InFlight
      <3>2. IsFiniteSet(LeasesOf(i))
        BY SlotsAssumption, FS_Subset DEF LeasesOf
      <3> QED BY <3>1, <3>2, FS_EmptySet
    <2>5. PICK u \in Nat : MayFail(i, u) /\ Joins(s, m, u)
      BY DEF Open
    <2>6. u >= now
      BY <2>4, <2>5 DEF MayFail, LeasesOf, Leased
    <2>7. f + 1 \in 1..m /\ f + 1 \in 1..Len(s) /\ f + 1 \in (f + 1)..m
      BY <1>1, <1>2, <1>6
    <2>8. /\ Ago(s, f + 1) \in Nat /\ Ago(s, f + 1) <= clients[i].lastSeen + MaxSkew
          /\ u - Ago(s, f + 1) < FailureWindow
      <3> HIDE DEF f, s
      <3> QED BY <1>1, <1>6, <2>5, <2>7, AgoType DEF Forgotten, Joins, f, s
    <2> QED BY <1>1, <2>1, <2>3, <2>6, <2>8, Windows, SkewAssumption
  <1> QED BY <1>1, <1>2, <1>3, <1>4, <1>5, <1>6, Windows DEF Bounded

\* Only a request that is rejected, or answered from now on, may fail.
LEMMA FailsNoEarlier ==
  ASSUME TypeOK, NEW r \in Request, now' \in Nat, now <= now',
         \A q \in Request \ {r} : req'[q] = req[q],
         \/ req'[r] = req[r] \/ req'[r].phase # "rejected"
         \/ req'[r].stamp \in Nat /\ req'[r].stamp >= now
  PROVE  \A i \in IP, u \in Nat : MayFail(i, u)' => MayFail(i, u)
  BY DEF MayFail, TypeOK

LEMMA AdmitKeepsLog ==
  ASSUME IInv, SInv, LInv, NEW r \in Request, Admit(r), UNCHANGED banHistory
  PROVE  LInv'
  <1>1. TypeOK /\ now \in Nat
    BY DEF IInv, TypeOK
  <1>2. PICK a \in IP, t \in Nat, k \in Class :
          a = req[r].ip /\ t = req[r].stamp /\ k = req[r].class
    BY <1>1 DEF Admit, RefuseFull, RefuseBanned, RefuseCrowded, RefuseRate,
                RefuseOperation, Accept, TypeOK
  <1>3. req[r].phase = "stamped" /\ now' = now /\ failLog' = failLog
    BY DEF Admit, RefuseFull, RefuseBanned, RefuseCrowded, RefuseRate,
           RefuseOperation, Accept, Decide, banHistory
  <1>4. t <= now /\ now <= t + MaxSkew
    BY <1>2, <1>3 DEF SInv, StampRecent
  <1>5. \A q \in Request \ {r} : req'[q] = req[q]
    BY <1>1 DEF Admit, RefuseFull, RefuseBanned, RefuseCrowded, RefuseRate,
                RefuseOperation, Accept, Decide, Moved, TypeOK
  <1>6. req'[r].phase # "rejected"
    BY <1>1 DEF Admit, RefuseFull, RefuseBanned, RefuseCrowded, RefuseRate,
                RefuseOperation, Accept, Decide, Moved, TypeOK
  <1>7. \A i \in IP, u \in Nat : MayFail(i, u)' => MayFail(i, u)
    BY <1>1, <1>3, <1>5, <1>6, FailsNoEarlier
  <1> DEFINE e == Entry(a, t)
             C == {e, Pardoned(e), Charged(Pardoned(e), General, t),
                   Charged(Charged(Pardoned(e), General, t), k, t), WithLease(e, k, t)}
  <1>8. \/ a \notin Tracked(t) /\ clients' = [j \in Tracked(t) |-> clients[j]]
        \/ \E c \in C : Store(a, c, t)
    <2> HIDE DEF e
    <2> QED BY <1>2 DEF Admit, RefuseFull, TableFull, RefuseBanned, RefuseCrowded,
                        RefuseRate, RefuseOperation, Accept, Decide, e
  <1>9. ASSUME NEW i \in IP PROVE LogSound(i)'
    <2>1. ASSUME i \in DOMAIN clients', clients'[i] = clients[i], i \in Tracked(t)
          PROVE  LogSound(i)'
      <3>1. i \in DOMAIN clients
        BY <2>1 DEF Tracked
      <3> QED BY <1>1, <1>3, <1>7, <2>1, <3>1, LogStays
    <2>2. ASSUME i \notin DOMAIN clients', i \notin Tracked(t)
          PROVE  LogSound(i)'
      <3>1. Count(i)' = 0
        BY <2>2 DEF Count
      <3> QED BY <1>1, <1>3, <1>4, <1>7, <2>2, <3>1, SweptLog, LogStays
    <2>3. ASSUME i = a, NEW c \in C, i \in DOMAIN clients', clients'[i] = c
          PROVE  LogSound(i)'
      <3>1. /\ c.lastSeen = t
            /\ \/ /\ i \in Tracked(t)
                  /\ c.failures = clients[i].failures
                  /\ c.failureStart = clients[i].failureStart
                  /\ c.bannedUntil = clients[i].bannedUntil
               \/ /\ c.failures = 0 /\ c.bannedUntil = NoBan
                  /\ i \in Tracked(t) => clients[i].bannedUntil # NoBan
        BY <1>1, <2>3, Recounted
      <3> HIDE DEF C, e
      <3>2. CASE /\ i \in Tracked(t)
                 /\ c.failures = clients[i].failures
                 /\ c.failureStart = clients[i].failureStart
                 /\ c.bannedUntil = clients[i].bannedUntil
        <4>1. i \in DOMAIN clients
          BY <3>2 DEF Tracked
        <4> QED BY <1>1, <1>3, <1>4, <1>7, <2>3, <3>1, <3>2, <4>1, LogStays
      <3>3. CASE /\ c.failures = 0 /\ c.bannedUntil = NoBan
                 /\ i \in Tracked(t) => clients[i].bannedUntil # NoBan
        <4>1. Count(i)' = 0
          BY <2>3, <3>3 DEF Count
        <4>2. ASSUME NEW m \in 1..Len(failLog[i]), Open(i, m), i \in Tracked(t)
              PROVE  m <= 2 * FailureLimit - 3
          <5>1. i \in DOMAIN clients /\ Count(i) \in Nat /\ Len(failLog[i]) \in Nat
            BY <1>1, <4>2 DEF Tracked, Count, TypeOK, Client, LInv
          <5>2. m <= Count(i) + FailureLimit - 2
            BY <3>3, <4>2, <5>1 DEF LInv, LogSound, Bounded, Forgotten
          <5>3. Count(i) < FailureLimit
            BY <4>2, <5>1 DEF LInv, LogSound, CountSound
          <5> QED BY <5>1, <5>2, <5>3, Windows
        <4>3. \A m \in 1..Len(failLog[i]) : Open(i, m) => m <= 2 * FailureLimit - 3
          BY <1>4, <4>2, SweptLog
        <4> QED BY <1>1, <1>3, <1>4, <1>7, <2>3, <3>1, <3>3, <4>1, <4>3, LogStays
      <3> QED BY <3>1, <3>2, <3>3
    <2> HIDE DEF C
    <2>4. CASE a \notin Tracked(t) /\ clients' = [j \in Tracked(t) |-> clients[j]]
      BY <2>1, <2>2, <2>4
    <2>5. CASE \E c \in C : Store(a, c, t)
      BY <2>1, <2>2, <2>3, <2>5 DEF Store
    <2> QED BY <1>8, <2>4, <2>5
  <1> QED BY <1>3, <1>9 DEF LInv

\* failed() either pronounces the ban, which closes the log, or adds one failure
\* to the log and to the count, or starts a window whose first failure cannot be
\* less than a window apart from the first of the window before.
LEMMA FailedKeepsLog ==
  ASSUME IInv, SInv, LInv, NEW r \in Request, BanFailed(r)
  PROVE  LInv'
  <1>1. TypeOK /\ now \in Nat
    BY DEF IInv, TypeOK
  <1>2. PICK i \in IP, t \in Nat : i = req[r].ip /\ t = req[r].stamp
    BY <1>1 DEF BanFailed, Failed, TypeOK
  <1>3. /\ now' = now /\ \A q \in Request \ {r} : req'[q] = req[q]
        /\ req'[r].phase = "streaming" /\ req[r].phase = "rejected"
    BY <1>1 DEF BanFailed, Failed, Moved, TypeOK
  <1>4. t <= now
    BY <1>2, <1>3 DEF SInv, StampRecent
  <1>5. i \in DOMAIN clients
    <2>1. r \in LeasesOf(i) /\ IsFiniteSet(LeasesOf(i))
      BY <1>2, <1>3, SlotsAssumption, FS_Subset DEF LeasesOf, Leased
    <2>2. Cardinality(LeasesOf(i)) # 0
      BY <2>1, FS_EmptySet
    <2> QED BY <2>2 DEF IInv, LeaseAccounting, InFlight
  <1> DEFINE c == clients[i]
             s == failLog[i]
             f == c.failures
             z == Latest(Append(s, t), CertainBan)
             restart == f = 0 \/ Elapsed(t, c.failureStart) >= FailureWindow
             g == (IF restart THEN 0 ELSE f) + 1
  <1>6. c \in Client /\ f \in Nat /\ c.failureStart \in Nat /\ g \in Nat \ {0}
    BY <1>1, <1>5 DEF TypeOK, Client
  <1>7. /\ DOMAIN clients' = DOMAIN clients
        /\ \A j \in DOMAIN clients \ {i} : clients'[j] = clients[j]
        /\ clients'[i] = CountFailure(c, t)
    BY <1>2, <1>5 DEF BanFailed, Failed
  <1>8. /\ clients'[i].failures = g /\ clients'[i].lastSeen = c.lastSeen
        /\ clients'[i].failureStart = IF restart THEN t ELSE c.failureStart
        /\ g < FailureLimit => clients'[i].bannedUntil = c.bannedUntil
    BY <1>6, <1>7, Windows DEF CountFailure, Client
  <1>9. /\ failLog' \in [IP -> Seq(Nat)]
        /\ \A j \in IP \ {i} : failLog'[j] = failLog[j]
        /\ failLog'[i] = IF g >= FailureLimit THEN <<>> ELSE z
    <2>1. s \in Seq(Nat) /\ Len(s) <= CertainBan /\ failLog \in [IP -> Seq(Nat)]
      BY DEF LInv, LogSound
    <2>2. z \in Seq(Nat)
      BY <2>1, LogAppend
    <2>3. failLog' = [failLog EXCEPT ![i] = IF g >= FailureLimit THEN <<>> ELSE z]
      BY <1>2, <1>5, <1>7, <1>8 DEF BanFailed
    <2> HIDE DEF z, g
    <2> QED BY <2>1, <2>2, <2>3
  <1>10. ASSUME NEW j \in IP, j # i PROVE LogSound(j)'
    <2>1. \A u \in Nat : MayFail(j, u)' => MayFail(j, u)
      BY <1>1, <1>3, FailsNoEarlier
    <2>2. /\ j \in DOMAIN clients <=> j \in DOMAIN clients'
          /\ j \in DOMAIN clients => clients'[j] = clients[j]
          /\ failLog'[j] = failLog[j] /\ now' \in Nat /\ now <= now'
      BY <1>1, <1>3, <1>7, <1>9, <1>10
    <2> HIDE DEF c, s, f, z, restart, g
    <2> QED BY <1>1, <2>1, <2>2, LogStays
  <1>11. CASE g >= FailureLimit
    <2>1. failLog'[i] = <<>> /\ Len(failLog'[i]) = 0
      BY <1>9, <1>11
    <2>2. Count(i)' = g
      BY <1>5, <1>7, <1>8 DEF Count
    <2>3. LogSound(i)'
      <3> HIDE DEF g
      <3> QED BY <1>11, <2>1, <2>2, Windows DEF LogSound, CountSound
    <2> QED BY <1>9, <1>10, <2>3 DEF LInv
  <1>12. CASE g < FailureLimit
    <2>1. s \in Seq(Nat) /\ Len(s) \in Nat /\ LogSound(i) /\ Count(i) = f
      BY <1>5 DEF LInv, Count
    <2>2. failLog'[i] = z /\ Count(i)' = g
      BY <1>5, <1>6, <1>7, <1>8, <1>9, <1>12, Windows DEF Count
    <2>3. /\ z \in Seq(Nat)
          /\ Len(z) = IF Len(s) < CertainBan THEN Len(s) + 1 ELSE CertainBan
          /\ Ago(z, 1) = t
          /\ \A d \in 2..Len(z) : Ago(z, d) = Ago(s, d - 1)
      BY <2>1, LogAppend DEF LogSound
    <2>4. FailureLimit # 1 /\ FailureLimit \in Nat /\ CertainBan = 3 * FailureLimit - 3
      BY <1>6, <1>12, Windows
    <2>5. ~restart => Len(s) # 0 /\ f # 0 /\ f <= Len(s) /\ g = f + 1
      BY <1>6, <1>12, <2>1, <2>4 DEF LogSound, CountSound
    <2> HIDE DEF z, c, s, f, g, restart
    <2>6. ASSUME NEW m \in 1..Len(z), Close(z, m) PROVE Bounded(i, m)'
      <3>1. CASE m = 1
        BY <1>6, <2>2, <2>4, <3>1, Windows DEF Bounded
      <3>2. CASE m # 1
        <4>1. m - 1 \in 1..Len(s) /\ m \in Nat
          BY <2>1, <2>3, <3>2, Windows
        <4>2. \A d \in 1..(m - 1) : d + 1 \in 1..m /\ Ago(z, d + 1) = Ago(s, d)
          <5> SUFFICES ASSUME NEW d \in 1..(m - 1)
                       PROVE  d + 1 \in 1..m /\ Ago(z, d + 1) = Ago(s, d)
            OBVIOUS
          <5>1. d + 1 \in 2..Len(z) /\ d + 1 \in 1..m /\ (d + 1) - 1 = d
            BY <2>3, <4>1, Windows
          <5> QED BY <2>3, <5>1
        <4>3. 1 \in 1..m
          BY <4>1
        <4>4. Close(s, m - 1) /\ Joins(s, m - 1, t)
          BY <2>3, <2>6, <4>2, <4>3 DEF Close, Joins
        <4>5. Open(i, m - 1)
          BY <1>2, <1>3, <4>4 DEF Open, MayFail, s
        <4>6. Bounded(i, m - 1)
          BY <2>1, <4>1, <4>5 DEF LogSound, s
        <4>7. CASE restart /\ f # 0
          <5>1. Elapsed(t, c.failureStart) >= FailureWindow /\ g = 1
            BY <4>7 DEF restart, g
          <5>2. t - c.failureStart >= FailureWindow
            BY <1>6, <5>1, Windows DEF Elapsed
          <5>3. f < FailureLimit /\ Ago(s, f) = c.failureStart
            BY <2>1, <4>1, <4>7 DEF LogSound, CountSound, s, c
          <5>4. ~(f \in 1..(m - 1))
            BY <1>6, <4>4, <5>2, <5>3, Windows DEF Joins
          <5>5. m <= 1 + FailureLimit - 2
            BY <1>6, <2>4, <4>1, <4>7, <5>3, <5>4
          <5> QED BY <2>2, <5>1, <5>5 DEF Bounded
        <4>8. CASE ~(restart /\ f # 0)
          <5>1. g = f + 1
            BY <1>6, <4>8 DEF restart, g
          <5>2. CASE m - 1 <= f + FailureLimit - 2
            BY <1>6, <2>2, <2>4, <4>1, <5>1, <5>2 DEF Bounded
          <5>3. CASE Forgotten(i, m - 1)
            <6>1. m <= g + 2 * FailureLimit - 3
              BY <1>6, <2>1, <2>4, <4>1, <5>1, <5>3 DEF Forgotten
            <6>2. clients'[i].bannedUntil = NoBan /\ i \in DOMAIN clients'
              BY <1>5, <1>7, <1>8, <1>12, <5>3 DEF Forgotten, c
            <6>3. ASSUME NEW d \in (g + 1)..m
                  PROVE  Ago(z, d) <= clients'[i].lastSeen + MaxSkew
              <7>1. d - 1 \in (f + 1)..(m - 1) /\ d \in 2..Len(z)
                BY <1>6, <2>1, <2>3, <4>1, <5>1, <6>3, Windows
              <7> QED BY <1>5, <1>8, <2>1, <2>3, <5>3, <7>1 DEF Forgotten, s, c
            <6> QED BY <2>2, <6>1, <6>2, <6>3 DEF Bounded, Forgotten
          <5> QED BY <2>1, <4>6, <5>2, <5>3 DEF Bounded
        <4> QED BY <4>7, <4>8
      <3> QED BY <3>1, <3>2
    <2>7. CountSound(i)'
      <3>1. Len(z) \in Nat /\ Len(z) # 0 /\ g <= Len(z)
        <4>1. CASE restart
          BY <2>1, <2>3, <4>1, Windows DEF g
        <4>2. CASE ~restart
          BY <1>6, <1>12, <2>1, <2>3, <2>4, <2>5, <4>2, Windows
        <4> QED BY <4>1, <4>2
      <3>2. Ago(z, g) = clients'[i].failureStart
        <4>1. CASE restart
          BY <1>8, <2>3, <4>1 DEF g
        <4>2. CASE ~restart
          <5>1. g \in 2..Len(z) /\ g - 1 = f
            BY <1>6, <2>5, <3>1, <4>2
          <5>2. Ago(s, f) = c.failureStart
            BY <2>1, <2>5, <4>2 DEF LogSound, CountSound, s, c
          <5> QED BY <1>8, <2>3, <4>2, <5>1, <5>2
        <4> QED BY <4>1, <4>2
      <3> QED BY <1>6, <1>12, <2>2, <2>4, <3>1, <3>2 DEF CountSound
    <2>8. \A d \in 1..Len(z) : Ago(z, d) <= now
      <3> SUFFICES ASSUME NEW d \in 1..Len(z), d # 1 PROVE Ago(z, d) <= now
        BY <1>4, <2>3
      <3>1. d \in 2..Len(z) /\ d - 1 \in 1..Len(s)
        BY <2>1, <2>3, Windows
      <3> QED BY <2>1, <2>3, <3>1 DEF LogSound, s
    <2>9. ASSUME NEW m \in 1..Len(z), Close(z, m) PROVE m <= 3 * FailureLimit - 4
      <3>1. m \in Nat /\ (m <= g + FailureLimit - 2 \/ m <= g + 2 * FailureLimit - 3)
        BY <2>2, <2>3, <2>6, <2>9 DEF Bounded, Forgotten
      <3> QED BY <1>6, <1>12, <2>4, <3>1, Windows
    <2>10. Len(z) <= CertainBan
      BY <2>1, <2>3, Windows
    <2>11. LogSound(i)'
      BY <1>3, <2>2, <2>6, <2>7, <2>8, <2>9, <2>10 DEF LogSound, Open
    <2> QED BY <1>9, <1>10, <2>11 DEF LInv
  <1> QED BY <1>6, <1>11, <1>12, Windows

\* Steps that count no failure and forget none.
LEMMA OthersKeepLog ==
  ASSUME TypeOK, LInv, UNCHANGED banHistory, NEW r \in Request,
         \/ \E i \in IP, k \in Class : Arrive(r, i, k)
         \/ RespondOk(r) \/ RespondFailure(r) \/ HandlerTimeout(r)
         \/ DropLease(r) \/ ReleasePermit(r)
  PROVE  LInv'
  <1>1. now' = now /\ now \in Nat /\ failLog' = failLog
    BY DEF Arrive, RespondOk, RespondFailure, HandlerTimeout, ReleasePermit, DropLease,
           banHistory, TypeOK
  <1>2. /\ \A q \in Request \ {r} : req'[q] = req[q]
        /\ req'[r].phase # "rejected" \/ req'[r].stamp = now
    BY DEF Arrive, RespondOk, RespondFailure, HandlerTimeout, ReleasePermit,
           DropLease, Moved, TypeOK, Idle
  <1>3. \A i \in IP, u \in Nat : MayFail(i, u)' => MayFail(i, u)
    BY <1>1, <1>2, FailsNoEarlier
  <1>4. /\ DOMAIN clients' = DOMAIN clients
        /\ \A i \in DOMAIN clients : /\ clients'[i].failures = clients[i].failures
                                     /\ clients'[i].failureStart = clients[i].failureStart
                                     /\ clients'[i].bannedUntil = clients[i].bannedUntil
                                     /\ clients'[i].lastSeen = clients[i].lastSeen
    <2>1. \A i \in DOMAIN clients : clients[i] \in Client
      BY DEF TypeOK
    <2>2. CASE DropLease(r)
      BY <2>1, <2>2 DEF DropLease, Leave, Client
    <2>3. CASE ~DropLease(r)
      <3>1. clients' = clients
        BY <2>3 DEF Arrive, RespondOk, RespondFailure, HandlerTimeout, ReleasePermit
      <3> QED BY <3>1
    <2> QED BY <2>2, <2>3
  <1>5. \A i \in IP : LogSound(i)'
    BY <1>1, <1>3, <1>4, LogStays
  <1> QED BY <1>1, <1>5 DEF LInv

LEMMA TimeKeepsLog ==
  ASSUME TypeOK, LInv, UNCHANGED <<clients, req, failLog>>, now' \in {now, now + 1}
  PROVE  LInv'
  <1>1. now \in Nat /\ now' \in Nat /\ now <= now'
    BY DEF TypeOK
  <1>2. \A i \in IP, u \in Nat : MayFail(i, u)' => MayFail(i, u)
    BY <1>1 DEF MayFail
  <1>3. \A i \in IP : LogSound(i)'
    BY <1>1, <1>2, LogStays
  <1> QED BY <1>3 DEF LInv

LEMMA LogStep == IInv /\ SInv /\ LInv /\ [BanNext]_banVars => LInv'
  <1> SUFFICES ASSUME IInv, SInv, LInv, [BanNext]_banVars PROVE LInv'
    OBVIOUS
  <1>1. TypeOK
    BY DEF IInv
  <1>2. CASE UNCHANGED banVars
    <2>1. UNCHANGED <<vars, banHistory>>
      BY <1>2 DEF banVars
    <2>2. UNCHANGED <<clients, req, failLog>> /\ now' = now
      BY <2>1 DEF vars, banHistory
    <2> QED BY <1>1, <2>2, TimeKeepsLog
  <1>3. CASE Tick /\ UNCHANGED banHistory
    <2>1. UNCHANGED <<clients, req, failLog>> /\ now' = now + 1
      BY <1>3 DEF Tick, banHistory
    <2> QED BY <1>1, <2>1, TimeKeepsLog
  <1> QED BY <1>1, <1>2, <1>3, OthersKeepLog, AdmitKeepsLog, FailedKeepsLog DEF BanNext

LEMMA LogInitial == BanInit => LInv
  <1> SUFFICES ASSUME BanInit PROVE LInv
    OBVIOUS
  <1>1. failLog = [i \in IP |-> <<>>] /\ DOMAIN clients = {}
    BY DEF BanInit, Init
  <1>2. \A i \in IP : Len(failLog[i]) = 0 /\ Count(i) = 0
    BY <1>1 DEF Count
  <1> QED BY <1>1, <1>2, Windows DEF LInv, LogSound, CountSound

LEMMA LogFollows == LInv => RepeatedFailuresBan
  <1> SUFFICES ASSUME LInv, NEW i \in IP, Len(failLog[i]) = CertainBan,
                      Within(failLog[i], FailureWindow)
               PROVE  FALSE
    BY DEF RepeatedFailuresBan
  <1> DEFINE s == failLog[i]
  <1>1. s \in Seq(Nat) /\ Len(s) \in Nat /\ LogSound(i) /\ Len(s) = CertainBan
    BY DEF LInv
  <1> HIDE DEF s
  <1>2. \A d \in 1..Len(s) : Len(s) - d + 1 \in DOMAIN s
    BY <1>1
  <1>3. Close(s, Len(s))
    BY <1>2 DEF Close, Ago, Within, s
  <1>4. Len(s) # 0 /\ FailureLimit # 1
    BY <1>1, Windows DEF LogSound, CountSound, s
  <1>5. Len(s) <= 3 * FailureLimit - 4
    BY <1>1, <1>3, <1>4 DEF LogSound, s
  <1> QED BY <1>1, <1>4, <1>5, Windows

\* After 3 * failures_before_ban - 3 failures less than a window apart a ban has
\* been pronounced, for any limits, however stamps race, entries are forgotten
\* and windows restart (Security::failed, Security::admit).
THEOREM RepeatedFailuresAlwaysBan == BanSpec => []RepeatedFailuresBan
  <1>1. TypeOK /\ SInv /\ [BanNext]_banVars => SInv'
    BY BansStep
  <1>2. Spec => []IInv
    BY InitIInv, NextIInv, PTL DEF Spec
  <1>3. IInv => TypeOK
    BY DEF IInv
  <1> QED BY <1>1, <1>2, <1>3, BansInitial, LogInitial, LogStep, LogFollows,
             BansAreAdmission, PTL DEF BanSpec
=============================================================================
