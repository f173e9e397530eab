---------------------------- MODULE ChecksProofs ----------------------------
(***************************************************************************)
(* Theorems about the algorithms of Checks, for every well-formed input:   *)
(* visitors and routes, allocated versions, waiting times, what is read    *)
(* out of a native library, what a verified package unpacks to, what the   *)
(* injection keeps, and the base of an output.                             *)
(***************************************************************************)
EXTENDS Checks, FiniteSetTheorems, WellFoundedInduction, TLAPS

\* The input is as the caller made it, in every state.
LEMMA InputsKept == Spec => []WellFormed(in)
  <1>1. Init => WellFormed(in)
    BY InputsAssumption DEF Init
  <1>2. WellFormed(in) /\ [Next]_vars => WellFormed(in)'
    <2> SUFFICES ASSUME WellFormed(in), [Next]_vars PROVE WellFormed(in)'
      OBVIOUS
    <2>1. in' = in
      BY DEF Next, vars, Result, ReadHeaders, LocateHook, LocateStrings, FindBuildId,
             VerifyPackage, InjectCode, BuildPackage, UpdateTwice, ResolveVisitor,
             RouteRequest, TakeToken
    <2> QED BY <2>1
  <1> QED BY <1>1, <1>2, PTL DEF Spec

\* A call is made once; its result stays.
LEMMA OneCall ==
  ASSUME [Next]_vars, done'
  PROVE  /\ in' = in
         /\ \/ UNCHANGED vars
            \/ in.kind = "table" /\ ReadHeaders
            \/ in.kind = "rva" /\ LocateHook
            \/ in.kind = "strings" /\ LocateStrings
            \/ in.kind = "note" /\ FindBuildId
            \/ in.kind = "archive" /\ VerifyPackage
            \/ in.kind = "dex" /\ InjectCode
            \/ in.kind = "output" /\ BuildPackage
            \/ in.kind = "update" /\ UpdateTwice
            \/ in.kind = "visitor" /\ ResolveVisitor
            \/ in.kind = "route" /\ RouteRequest
            \/ in.kind = "bucket" /\ TakeToken
  BY DEF Next, vars, Result, ReadHeaders, LocateHook, LocateStrings, FindBuildId,
         VerifyPackage, InjectCode, BuildPackage, UpdateTwice, ResolveVisitor,
         RouteRequest, TakeToken

-----------------------------------------------------------------------------
(* Loops over a sequence.  The provers take no operator as a parameter, so *)
(* induction is stated for sets of numbers, and recursion for functions.   *)

\* Some natural numbers have a least one.
LEMMA Least ==
  ASSUME NEW I, I \subseteq Nat, I # {}
  PROVE  \E x \in I : \A y \in I : x <= y
  <1>1. PICK x \in I : \A y \in I : ~(<<y, x>> \in OpToRel(<, Nat))
    BY WFMin, NatLessThanWellFounded
  <1>2. ASSUME NEW y \in I PROVE x <= y
    <2>1. <<y, x>> \in Nat \X Nat /\ <<y, x>>[1] = y /\ <<y, x>>[2] = x
      OBVIOUS
    <2>2. y < x => <<y, x>> \in OpToRel(<, Nat)
      BY <2>1 DEF OpToRel
    <2>3. ~(y < x)
      BY <1>1, <2>2
    <2> QED BY <2>3
  <1> QED BY <1>2

\* What holds before the first turn and is kept by every turn holds after all.
LEMMA Induction ==
  ASSUME NEW n \in Nat, NEW T, 0 \in T, \A k \in 1..n : k - 1 \in T => k \in T
  PROVE  0..n \subseteq T
  <1> SUFFICES ASSUME (0..n) \ T # {} PROVE FALSE
    OBVIOUS
  <1> DEFINE I == (0..n) \ T
  <1>1. PICK m \in I : \A y \in I : m <= y
    <2>1. I \subseteq Nat /\ I # {}
      OBVIOUS
    <2> HIDE DEF I
    <2> QED BY <2>1, Least
  <1>2. m \in 1..n /\ m - 1 \in 0..n
    BY <1>1
  <1>3. m - 1 \notin I
    BY <1>1, <1>2
  <1> QED BY <1>1, <1>2, <1>3

\* A loop that starts with a and whose turn k makes F[k][v] of v.
IsLoop(g, m, n, S, a, F) ==
    /\ g \in [0..n -> S]
    /\ g[0] = a
    /\ \A k \in 1..m : g[k] = F[k][g[k - 1]]

\* There is such a loop.
LEMMA Iteration ==
  ASSUME NEW n \in Nat, NEW S, NEW a \in S, NEW F \in [1..n -> [S -> S]]
  PROVE  \E g : IsLoop(g, n, n, S, a, F)
  <1> DEFINE T == {m \in 0..n : \E g : IsLoop(g, m, n, S, a, F)}
  <1>1. 0 \in T
    <2>1. IsLoop([k \in 0..n |-> a], 0, n, S, a, F)
      BY DEF IsLoop
    <2> QED BY <2>1
  <1>2. ASSUME NEW m \in 1..n, m - 1 \in T PROVE m \in T
    <2>1. PICK g : IsLoop(g, m - 1, n, S, a, F)
      BY <1>2
    <2> DEFINE h == [g EXCEPT ![m] = F[m][g[m - 1]]]
    <2>2. g \in [0..n -> S] /\ g[m - 1] \in S /\ F[m][g[m - 1]] \in S
      BY <1>2, <2>1 DEF IsLoop
    <2>3. h \in [0..n -> S] /\ h[m] = F[m][g[m - 1]] /\ \A k \in 0..(m - 1) : h[k] = g[k]
      BY <1>2, <2>2
    <2>4. IsLoop(h, m, n, S, a, F)
      <3> HIDE DEF h
      <3>1. ASSUME NEW k \in 1..m PROVE h[k] = F[k][h[k - 1]]
        <4>1. CASE k = m
          BY <2>3, <4>1
        <4>2. CASE k \in 1..(m - 1)
          BY <2>1, <2>3, <4>2 DEF IsLoop
        <4> QED BY <4>1, <4>2
      <3>2. h[0] = a
        BY <2>1, <2>3 DEF IsLoop
      <3> QED BY <2>3, <3>1, <3>2 DEF IsLoop
    <2> HIDE DEF h
    <2> QED BY <2>4
  <1>3. 0..n \subseteq T
    <2> HIDE DEF T
    <2> QED BY <1>1, <1>2, Induction
  <1> QED BY <1>3


-----------------------------------------------------------------------------
(* Visitors and routes.                                                    *)

\* client_ip answers with at most one address, in its canonical form.
LEMMA VisitorCanonical ==
  ASSUME NEW c \in Setting, NEW peer \in Address, NEW headers,
         headers \in [DOMAIN headers -> Seq(Address \cup {NoIp})],
         c.header \in DOMAIN headers, NEW v \in ClientIp(c, peer, headers)
  PROVE  /\ v \in Address /\ v.mapped = FALSE
         /\ ClientIp(c, peer, headers) = {v}
  <1>1. Canonical(peer) \in Address /\ Canonical(peer).mapped = FALSE
    BY DEF Canonical, Address
  <1>2. CASE ~\E net \in c.trusted : NetHolds(net, Canonical(peer))
    BY <1>1, <1>2 DEF ClientIp
  <1>3. CASE \E net \in c.trusted : NetHolds(net, Canonical(peer))
    <2>1. Len(headers[c.header]) = 1
      BY <1>3 DEF ClientIp
    <2>2. headers[c.header][1] \in Address \cup {NoIp}
      BY <2>1
    <2>3. ClientIp(c, peer, headers) = {Canonical(ip) : ip \in {headers[c.header][1]} \ {NoIp}}
      BY <1>3, <2>1 DEF ClientIp
    <2>4. headers[c.header][1] \in Address /\ v = Canonical(headers[c.header][1])
      BY <2>2, <2>3
    <2> QED BY <2>3, <2>4 DEF Canonical, Address
  <1> QED BY <1>2, <1>3

\* The worker takes the gateway's word, whatever came with the request.
LEMMA BehindSame ==
  ASSUME NEW c \in Setting, NEW headers, NEW nominated, NEW v \in Address, v.mapped = FALSE,
         headers \in [DOMAIN headers -> Seq(Address \cup {NoIp})],
         {"cf-connecting-ip", "x-ggfm-gateway-key"} \subseteq DOMAIN headers
  PROVE  Behind(c, v, headers, nominated, "key") = {v}
  <1> DEFINE sent == Forwarded(headers, nominated, v, "key")
             peer == Ip("loopback", 1, FALSE)
             b == Backend(c)
  <1>1. sent["cf-connecting-ip"] = <<v>> /\ sent["x-ggfm-gateway-key"] = <<"key">>
    BY DEF Forwarded, Cleaned
  <1>2. WorkerGuard(peer, sent, "key")
    BY <1>1 DEF WorkerGuard, Ip
  <1>3. /\ b.header = "cf-connecting-ip"
        /\ b.trusted = {Exact(Ip("loopback", 1, FALSE))}
    BY DEF Backend, Setting
  <1>4. NetHolds(Exact(peer), Canonical(peer))
    BY DEF NetHolds, Exact, Canonical, Ip
  <1>5. v # NoIp /\ Canonical(v) = v
    BY NoIpAssumption DEF Canonical, Address
  <1>6. Len(<<v>>) = 1 /\ <<v>>[1] = v
    OBVIOUS
  <1>7. ClientIp(b, peer, sent) = {Canonical(ip) : ip \in {v} \ {NoIp}}
    BY <1>1, <1>3, <1>4, <1>6 DEF ClientIp
  <1>8. ClientIp(b, peer, sent) = {v}
    BY <1>5, <1>7
  <1> QED BY <1>2, <1>8 DEF Behind

\* Gateway and worker agree on the visitor of every request.
THEOREM VisitorsAgree == Spec => []SameVisitor
  <1>1. Init => SameVisitor
    BY DEF Init, SameVisitor, After
  <1>2. WellFormed(in) /\ SameVisitor /\ [Next]_vars => SameVisitor'
    <2> SUFFICES ASSUME WellFormed(in), SameVisitor, [Next]_vars, done', in'.kind = "visitor"
                 PROVE  out'.behind = out'.seen
      BY DEF SameVisitor, After
    <2>1. CASE UNCHANGED vars
      BY <2>1 DEF vars, SameVisitor, After
    <2>2. CASE ResolveVisitor /\ in.kind = "visitor"
      <3>1. PICK c, peer, headers, nominated :
              /\ c = in.config /\ peer = in.peer
              /\ headers = in.headers /\ nominated = in.nominated
        OBVIOUS
      <3>2. /\ c \in Setting /\ peer \in Address
            /\ headers \in [DOMAIN headers -> Seq(Address \cup {NoIp})]
            /\ c.header \in DOMAIN headers
            /\ {"cf-connecting-ip", "x-ggfm-gateway-key"} \subseteq DOMAIN headers
        BY <2>2, <3>1 DEF WellFormed
      <3> DEFINE S == ClientIp(c, peer, headers)
                 B(v) == Behind(c, v, headers, nominated, "key")
      <3>3. ASSUME NEW v \in S PROVE B(v) = {v}
        <4>1. v \in Address /\ v.mapped = FALSE
          BY <3>2, <3>3, VisitorCanonical
        <4>2. /\ c \in Setting
              /\ headers \in [DOMAIN headers -> Seq(Address \cup {NoIp})]
              /\ {"cf-connecting-ip", "x-ggfm-gateway-key"} \subseteq DOMAIN headers
          BY <3>2
        <4> HIDE DEF S, B
        <4>3. Behind(c, v, headers, nominated, "key") = {v}
          BY <4>1, <4>2, BehindSame
        <4> QED BY <4>3 DEF B
      <3>4. out'.seen = S /\ out'.behind = UNION {B(v) : v \in S}
        BY <2>2, <3>1 DEF ResolveVisitor, Result
      <3> HIDE DEF S, B
      <3>5. UNION {B(v) : v \in S} = S
        BY <3>3
      <3> QED BY <3>4, <3>5
    <2> QED BY <2>1, <2>2, OneCall
  <1> QED BY <1>1, <1>2, InputsKept, PTL DEF Spec

\* Whom the server believes about a visitor's address.
LEMMA SpeakerTrusted ==
  ASSUME NEW c \in Setting, NEW peer \in Address, NEW headers,
         \A n \in c.trusted : n.exact => \E h \in n.hosts : n.hosts = {h},
         c.origin, ValidateListen(c), NEW v \in ClientIp(c, peer, headers)
  PROVE  \/ v = Canonical(peer)
         \/ peer.place = "loopback" /\ peer.host = 1
         \/ c.lan /\ Exact(Canonical(peer)) \in c.trusted
  <1>1. Canonical(peer).place = peer.place /\ Canonical(peer).host = peer.host
    BY DEF Canonical, Address
  <1>2. CASE ~\E net \in c.trusted : NetHolds(net, Canonical(peer))
    BY <1>2 DEF ClientIp
  <1>3. ASSUME NEW net \in c.trusted, NetHolds(net, Canonical(peer))
        PROVE  \/ peer.place = "loopback" /\ peer.host = 1
               \/ c.lan /\ Exact(Canonical(peer)) \in c.trusted
    <2>1. net.place = peer.place /\ peer.host \in net.hosts
      BY <1>1, <1>3 DEF NetHolds
    <2>2. LocalConnector(net) \/ (c.lan /\ PrivatePeer(net))
      BY DEF ValidateListen
    <2>3. CASE LocalConnector(net)
      BY <2>1, <2>3 DEF LocalConnector, Exact, Ip
    <2>4. CASE c.lan /\ PrivatePeer(net)
      <3>1. net \in Network /\ net.exact = TRUE
        BY <2>4 DEF Setting, PrivatePeer, Network
      <3>2. net.hosts = {peer.host}
        BY <2>1, <3>1
      <3>3. net = [place |-> peer.place, hosts |-> {peer.host}, exact |-> TRUE]
        BY <2>1, <3>1, <3>2 DEF Network
      <3> QED BY <1>1, <2>4, <3>3 DEF Exact
    <2> QED BY <2>2, <2>3, <2>4
  <1> QED BY <1>2, <1>3

\* A visitor's address comes from the connection itself, the tunnel's connector
\* or a named private proxy, under every configuration the server starts with.
THEOREM ProxiesOnly == Spec => []OnlyProxiesSpeak
  <1>1. Init => OnlyProxiesSpeak
    BY DEF Init, OnlyProxiesSpeak, After
  <1>2. WellFormed(in) /\ OnlyProxiesSpeak /\ [Next]_vars => OnlyProxiesSpeak'
    <2> SUFFICES ASSUME WellFormed(in), OnlyProxiesSpeak, [Next]_vars, After("visitor")'
                 PROVE  OnlyProxiesSpeak'
      BY DEF OnlyProxiesSpeak
    <2>1. CASE UNCHANGED vars
      BY <2>1 DEF vars, OnlyProxiesSpeak, After
    <2>2. CASE ResolveVisitor /\ in.kind = "visitor" /\ in' = in
      <3>1. out'.seen = ClientIp(in.config, in.peer, in.headers)
        BY <2>2 DEF ResolveVisitor, Result
      <3>2. /\ in.config \in Setting /\ in.peer \in Address
            /\ \A n \in in.config.trusted : n.exact => \E h \in n.hosts : n.hosts = {h}
        BY <2>2 DEF WellFormed
      <3>3. ASSUME in.config.origin, ValidateListen(in.config),
                   NEW v \in ClientIp(in.config, in.peer, in.headers)
            PROVE  \/ v = Canonical(in.peer)
                   \/ in.peer.place = "loopback" /\ in.peer.host = 1
                   \/ in.config.lan /\ Exact(Canonical(in.peer)) \in in.config.trusted
        BY <3>2, <3>3, SpeakerTrusted
      <3> QED BY <2>2, <3>1, <3>3 DEF OnlyProxiesSpeak
    <2> QED BY <2>1, <2>2, OneCall DEF After
  <1> QED BY <1>1, <1>2, InputsKept, PTL DEF Spec

\* A ticket is never offered to a worker that did not issue it, and no upload
\* starts on a legacy worker (forward, token_revision).
THEOREM TicketsReachIssuer == Spec => []RoutedToIssuer
  <1>1. Init => RoutedToIssuer
    BY DEF Init, RoutedToIssuer, After
  <1>2. WellFormed(in) /\ RoutedToIssuer /\ [Next]_vars => RoutedToIssuer'
    <2> SUFFICES ASSUME WellFormed(in), RoutedToIssuer, [Next]_vars, After("route")'
                 PROVE  RoutedToIssuer'
      BY DEF RoutedToIssuer
    <2>1. CASE UNCHANGED vars
      BY <2>1 DEF vars, RoutedToIssuer, After
    <2>2. CASE RouteRequest /\ in.kind = "route" /\ in' = in
      <3> DEFINE T == {in.active} \cup in.keeps
                 L == in.legacy \cap T
                 tag == TagToken(in.issuer, in.legacy)
                 chosen == IF Continuation(in.path) THEN IF tag # {} THEN tag ELSE L
                           ELSE {in.active}
      <3>1. out' = IF in.path = "patch" /\ chosen = L THEN {} ELSE chosen \cap T
        BY <2>2 DEF RouteRequest, Result, Selected, Routes
      <3>2. \A v, w \in in.legacy : v = w
        BY <2>2 DEF WellFormed
      <3>3. CASE Continuation(in.path)
        <4>1. in.path # "patch"
          BY <3>3 DEF Continuation
        <4>2. chosen \cap T = {in.issuer} \cap T
          BY <3>2, <3>3 DEF TagToken
        <4> QED BY <2>2, <3>1, <3>3, <4>1, <4>2 DEF RoutedToIssuer
      <3>4. CASE ~Continuation(in.path)
        <4>1. chosen = {in.active} /\ chosen \cap T = {in.active}
          BY <3>4
        <4>2. chosen = L <=> in.active \in in.legacy
          BY <3>2, <4>1
        <4> QED BY <2>2, <3>1, <3>4, <4>1, <4>2 DEF RoutedToIssuer
      <3> QED BY <3>3, <3>4
    <2> QED BY <2>1, <2>2, OneCall DEF After
  <1> QED BY <1>1, <1>2, InputsKept, PTL DEF Spec
-----------------------------------------------------------------------------
(* Versions of updates.                                                    *)

\* An installation serves at most one revision.
LEMMA ServesOne ==
  ASSUME NEW c, c.configured \in Nat, c.compiled \in Nat, c.wanted \subseteq Nat,
         \A v, w \in c.wanted : v = w
  PROVE  /\ Serving(c) \subseteq Nat
         /\ \A v, w \in Serving(c) : v = w
  <1>1. ASSUME NEW a \in Nat, NEW b \in Nat
        PROVE  /\ ResolveWith(a, b) \subseteq Nat
               /\ \A v, w \in ResolveWith(a, b) : v = w
    BY DEF ResolveWith
  <1>2. ASSUME NEW a \in Nat
        PROVE  /\ Deployment(a, c.compiled, c.wanted) \subseteq Nat
               /\ \A v, w \in Deployment(a, c.compiled, c.wanted) : v = w
    BY <1>1 DEF Deployment
  <1> QED BY <1>1, <1>2 DEF Serving

\* The revision allocated above the installed one is the one that is served.
LEMMA StagedInstalls ==
  ASSUME NEW c, c.configured \in Nat, c.compiled \in Nat, c.wanted \subseteq Nat,
         \A v, w \in c.wanted : v = w,
         NEW compiled \in Nat \ {0}, NEW new \in Staged(c, compiled)
  PROVE  /\ new.configured = 0 /\ new.compiled = compiled
         /\ Serving(new) = new.wanted
         /\ \E r \in 1..MaxRevision : new.wanted = {r} /\ \A v \in Serving(c) : v < r
  <1> USE ReleaseAssumption
  <1>0. PICK v \in Serving(c) : \E r \in Allocate(v, compiled) :
          new = [configured |-> 0, compiled |-> compiled, wanted |-> {r}]
    BY DEF Staged
  <1>1. PICK r \in Allocate(v, compiled) :
          new = [configured |-> 0, compiled |-> compiled, wanted |-> {r}]
    BY <1>0
  <1>2. v \in Nat /\ \A w \in Serving(c) : w = v
    BY ServesOne
  <1>3. r \in 1..MaxRevision /\ r > v /\ r >= compiled
    BY <1>2 DEF Allocate
  <1>4. ResolveWith(0, compiled) = {compiled} /\ ResolveWith(compiled, compiled) = {compiled}
    BY <1>3 DEF ResolveWith
  <1>5. ResolveWith(r, 0) = {r}
    BY <1>3 DEF ResolveWith
  <1>6. Deployment(compiled, compiled, {r}) = {r}
    BY <1>3, <1>4, <1>5 DEF Deployment
  <1>7. Serving(new) = {r}
    BY <1>1, <1>4, <1>6 DEF Serving
  <1> QED BY <1>1, <1>2, <1>3, <1>7

\* Two updates in a row install, whatever releases they bring: each serves the
\* revision allocated for it, above the one before and within Android's limit.
THEOREM UpdatesAlwaysInstall == Spec => []UpdatesInstall
  <1> USE ReleaseAssumption
  <1>1. Init => UpdatesInstall
    BY DEF Init, UpdatesInstall, After
  <1>2. WellFormed(in) /\ UpdatesInstall /\ [Next]_vars => UpdatesInstall'
    <2> SUFFICES ASSUME WellFormed(in), UpdatesInstall, [Next]_vars, After("update")'
                 PROVE  UpdatesInstall'
      BY DEF UpdatesInstall
    <2>1. CASE UNCHANGED vars
      BY <2>1 DEF vars, UpdatesInstall, After
    <2>2. CASE UpdateTwice /\ in.kind = "update" /\ in' = in
      <3>1. PICK a, m, n : a = in.installed /\ m = in.compiled /\ n = in.later
        OBVIOUS
      <3>2. /\ a.configured \in Nat /\ a.compiled \in Nat /\ a.wanted \subseteq Nat
            /\ \A v, w \in a.wanted : v = w
            /\ m \in Nat \ {0} /\ n \in Nat \ {0}
        BY <2>2, <3>1 DEF WellFormed
      <3>3. /\ out'.first = Staged(a, m)
            /\ out'.second = UNION {Staged(c, n) : c \in Staged(a, m)}
        BY <2>2, <3>1 DEF UpdateTwice, Result
      <3> DEFINE Installs(old, new) ==
                   /\ Serving(new) = new.wanted
                   /\ \A v \in Serving(old), w \in Serving(new) :
                        VersionCode(v) < VersionCode(w) /\ w <= MaxRevision
      <3>4. ASSUME NEW old, old.configured \in Nat, old.compiled \in Nat,
                   old.wanted \subseteq Nat, \A v, w \in old.wanted : v = w,
                   NEW l \in Nat \ {0}, NEW new \in Staged(old, l)
            PROVE  Installs(old, new)
        <4>1. Serving(old) \subseteq Nat
          BY <3>4, ServesOne
        <4>2. PICK r \in 1..MaxRevision : new.wanted = {r} /\ \A v \in Serving(old) : v < r
          BY <3>4, StagedInstalls
        <4>3. Serving(new) = {r} /\ Serving(new) = new.wanted
          BY <3>4, <4>2, StagedInstalls
        <4> QED BY <4>1, <4>2, <4>3 DEF VersionCode
      <3>5. \A new \in Staged(a, m) : Installs(a, new)
        <4> HIDE DEF Installs
        <4> QED BY <3>2, <3>4
      <3>6. ASSUME NEW old \in Staged(a, m), NEW new \in Staged(old, n) PROVE Installs(old, new)
        <4>1. /\ old.configured = 0 /\ old.compiled = m
              /\ \E r \in 1..MaxRevision : old.wanted = {r}
          BY <3>2, StagedInstalls
        <4>2. /\ old.configured \in Nat /\ old.compiled \in Nat
              /\ old.wanted \subseteq Nat /\ \A v, w \in old.wanted : v = w
          BY <3>2, <4>1
        <4> HIDE DEF Installs
        <4> QED BY <3>2, <3>4, <4>2
      <3>7. \A c, d \in Staged(a, m) : c = d
        <4>1. \A v, w \in Serving(a) : v = w
          BY <3>2, ServesOne
        <4> QED BY <4>1 DEF Staged, Allocate
      <3>8. \A old \in out'.first, new \in out'.second : Installs(old, new)
        <4> HIDE DEF Installs
        <4> QED BY <3>3, <3>6, <3>7
      <3>9. \A new \in out'.first : Installs(a, new)
        <4> HIDE DEF Installs
        <4> QED BY <3>3, <3>5
      <3> QED BY <2>2, <3>1, <3>8, <3>9 DEF UpdatesInstall
    <2> QED BY <2>1, <2>2, OneCall DEF After
  <1> QED BY <1>1, <1>2, InputsKept, PTL DEF Spec
-----------------------------------------------------------------------------
(* What is read out of a native library.                                   *)

\* Addition in 64 bits is exact if it does not overflow.
\* A 64-bit number is its own remainder.
LEMMA Wraps ==
  ASSUME NEW a \in U64
  PROVE  a % Wide = a
  BY ElfAssumption DEF U64

\* A row of a table that fits lies inside the file.
LEMMA HeadersInside ==
  ASSUME NEW f \in Library, ElfPrograms(f), NEW r \in HeaderReads(f)
  PROVE  r.from + r.size <= f.size
  <1> USE ElfAssumption
  <1>1. PICK i \in 0..(f.count - 1) :
          r = [from |-> WrappingAdd(f.table, i * f.entry), size |-> MinEntry]
    BY DEF HeaderReads
  <1>2. /\ f.entry \in Nat /\ f.count \in Nat /\ f.table \in Nat /\ f.size \in U64
        /\ i \in Nat /\ i + 1 <= f.count
    BY <1>1 DEF Library, U64
  <1>3. /\ f.entry >= MinEntry /\ f.entry * f.count < Wide
        /\ f.table + f.entry * f.count < Wide
        /\ f.table + f.entry * f.count <= f.size
    BY DEF ElfPrograms, TableInside, CheckedMul, CheckedAdd
  <1>4. i * f.entry + f.entry <= f.entry * f.count /\ i * f.entry \in Nat
        /\ f.entry * f.count \in Nat
    <2>1. f.entry * (i + 1) <= f.entry * f.count
      BY <1>2
    <2>2. f.entry * (i + 1) = i * f.entry + f.entry
      BY <1>2
    <2>3. i * f.entry \in Nat /\ f.entry * f.count \in Nat
      BY <1>2
    <2> QED BY <2>1, <2>2, <2>3
  <1> DEFINE a == i * f.entry
             b == f.entry * f.count
  <1>5. f.table + a \in U64 /\ f.table + a + MinEntry <= f.size
    <2> HIDE DEF a, b
    <2>1. a + f.entry <= b /\ a \in Nat /\ b \in Nat /\ f.table + b < Wide /\ f.table + b <= f.size
      BY <1>3, <1>4 DEF a, b
    <2> QED BY <1>2, <1>3, <2>1 DEF U64
  <1>6. r.from = f.table + a /\ r.size = MinEntry
    BY <1>1, <1>5, Wraps DEF WrappingAdd
  <1> QED BY <1>5, <1>6

\* The first of some indices is one of them.
LEMMA MinIsIn ==
  ASSUME NEW I, I \subseteq Nat, I # {}
  PROVE  Min(I) \in I
  BY Least DEF Min

\* A segment of an accepted library.
LEMMA SegmentFacts ==
  ASSUME NEW f \in Library, ElfPrograms(f), NEW i \in 1..Len(f.programs)
  PROVE  LET p == f.programs[i]
         IN  /\ p \in Segment
             /\ p.offset \in Nat /\ p.address \in Nat /\ p.size \in Nat
             /\ p.offset + p.size < Wide /\ p.offset + p.size <= f.size
  <1>1. f.programs \in Seq(Segment)
    BY DEF Library
  <1>2. f.programs[i] \in Segment /\ i \in DOMAIN f.programs
    BY <1>1
  <1>3. SegmentInside(f, f.programs[i])
    BY <1>2 DEF ElfPrograms
  <1> QED BY <1>2, <1>3 DEF SegmentInside, CheckedAdd, Segment, U64

\* The string table is found inside a segment, hence inside the file.
LEMMA StringsInside ==
  ASSUME NEW f \in Library, NEW address \in U64, NEW size \in U64,
         NEW o \in StringTable(f, address, size)
  PROVE  o + size <= f.size
  <1> DEFINE I == {i \in 1..Len(f.programs) :
                     /\ f.programs[i].kind = "load"
                     /\ StringOffsets(f.programs[i], address, size) # {}}
  <1>1. /\ ElfPrograms(f) /\ I # {}
        /\ o \in StringOffsets(f.programs[Min(I)], address, size)
    BY DEF StringTable, SelectInSeq
  <1>2. Len(f.programs) \in Nat
    BY DEF Library
  <1>3. Min(I) \in 1..Len(f.programs)
    <2>1. I \subseteq Nat
      BY <1>2
    <2>2. Min(I) \in I
      BY <1>1, <2>1, MinIsIn
    <2> QED BY <2>2
  <1>4. PICK p \in Segment :
          /\ p = f.programs[Min(I)]
          /\ p.offset \in Nat /\ p.address \in Nat /\ p.size \in Nat
          /\ p.offset + p.size <= f.size
    BY <1>1, <1>3, SegmentFacts
  <1>5. address \in Nat /\ size \in Nat /\ f.size \in Nat
    BY DEF U64, Library
  <1>6. PICK r \in CheckedSub(address, p.address) :
          /\ o \in CheckedAdd(p.offset, r)
          /\ \E end \in CheckedAdd(r, size) : end <= p.size
    BY <1>1, <1>4 DEF StringOffsets
  <1>7. r \in Nat /\ o = p.offset + r /\ r + size <= p.size
    BY <1>4, <1>5, <1>6 DEF CheckedSub, CheckedAdd
  <1> QED BY <1>4, <1>5, <1>7

\* A hook is read where an executable segment has it.
LEMMA HookInside ==
  ASSUME NEW f \in Library, NEW rva \in U64, NEW len \in U64
  PROVE  LET P == {f.programs[i] : i \in DOMAIN f.programs}
             A == {p \in P : Backs(p, rva, len)}
             found == RvaToFileOffset(f, rva, len)
         IN  /\ \A o \in found :
                 o + len <= f.size /\ \E p \in A : o = p.offset + rva - p.address
             /\ found = {} => \/ A = {} \/ ~ElfPrograms(f) \/ rva + len >= Wide
                              \/ \E p \in P : Overflows(p)
  <1> DEFINE P == {f.programs[i] : i \in DOMAIN f.programs}
             A == {p \in P : Backs(p, rva, len)}
             found == RvaToFileOffset(f, rva, len)
             I == {i \in 1..Len(f.programs) :
                     Executable(f.programs[i]) /\ Holds(f.programs[i], rva, len)}
             first == f.programs[Min(I)]
  <1>1. found = IF ~ElfPrograms(f) \/ CheckedAdd(rva, len) = {} \/ I = {}
                THEN {} ELSE IF CheckedAdd(first.address, first.size) = {} THEN {}
                     ELSE {WrappingAdd(first.offset, rva - first.address)}
    <2>1. I # {} => Min(I) # 0
      <3>1. I \subseteq Nat /\ 0 \notin I
        BY DEF Library
      <3> HIDE DEF I
      <3> QED BY <3>1, MinIsIn
    <2> QED BY <2>1 DEF RvaToFileOffset, SelectInSeq
  <1>2. /\ rva \in Nat /\ len \in Nat /\ f.size \in Nat /\ Wide \in Nat
        /\ DOMAIN f.programs = 1..Len(f.programs)
        /\ \A i \in 1..Len(f.programs) : f.programs[i] \in Segment
    BY ElfAssumption DEF U64, Library
  <1>3. CASE ~ElfPrograms(f) \/ CheckedAdd(rva, len) = {}
    <2>1. found = {}
      BY <1>1, <1>3
    <2>2. CheckedAdd(rva, len) = {} => rva + len >= Wide
      BY <1>2 DEF CheckedAdd
    <2> QED BY <1>3, <2>1, <2>2
  <1>4. CASE ElfPrograms(f) /\ CheckedAdd(rva, len) # {} /\ I = {}
    <2>1. found = {}
      BY <1>1, <1>4
    <2>2. A = {}
      BY <1>2, <1>4 DEF Backs, Holds, Executable, Segment, U64
    <2> QED BY <2>1, <2>2
  <1>5. CASE ElfPrograms(f) /\ CheckedAdd(rva, len) # {} /\ I # {}
    <2>1. Min(I) \in I
      <3>1. I \subseteq Nat
        BY <1>2 DEF Library
      <3> HIDE DEF I
      <3> QED BY <1>5, <3>1, MinIsIn
    <2>2. PICK p \in P : p = first
      BY <1>2, <2>1
    <2>3. /\ p.offset \in Nat /\ p.address \in Nat /\ p.size \in Nat
          /\ p.offset + p.size < Wide /\ p.offset + p.size <= f.size
          /\ Executable(p) /\ Holds(p, rva, len)
      BY <1>5, <2>1, <2>2, SegmentFacts
    <2>4. CASE CheckedAdd(p.address, p.size) = {}
      <3>1. found = {}
        BY <1>1, <1>5, <2>2, <2>4
      <3>2. Overflows(p)
        BY <1>2, <2>3, <2>4 DEF Overflows, CheckedAdd
      <3> QED BY <3>1, <3>2
    <2>5. CASE CheckedAdd(p.address, p.size) # {}
      <3>1. p.address <= rva /\ rva + len <= p.address + p.size
        BY <1>2, <2>3, <2>5 DEF Holds
      <3>2. p.offset + (rva - p.address) \in U64
        <4> DEFINE x == rva - p.address
                   y == p.offset + x
        <4>1. x \in Nat /\ x <= p.size
          BY <1>2, <2>3, <3>1
        <4> HIDE DEF x
        <4>2. y \in Nat /\ y <= Wide - 1
          BY <1>2, <2>3, <4>1
        <4> HIDE DEF y
        <4>3. y \in 0..(Wide - 1)
          BY <1>2, <4>2
        <4> QED BY <4>3 DEF U64, x, y
      <3>3. found = {p.offset + (rva - p.address)}
        BY <1>1, <1>5, <2>2, <2>5, <3>2, Wraps DEF WrappingAdd
      <3>4. p \in A
        BY <2>3, <3>1 DEF Backs
      <3>5. p.offset + (rva - p.address) + len <= f.size
            /\ p.offset + (rva - p.address) = p.offset + rva - p.address
        BY <1>2, <2>3, <3>1
      <3> QED BY <3>3, <3>4, <3>5
    <2> QED BY <2>4, <2>5
  <1> QED BY <1>3, <1>4, <1>5

\* No read of a program header, a string table or a hook leaves the file,
\* whatever its fields claim, at any width.
THEOREM ElfAlwaysReadsInside == Spec => []ElfReadsInside
  <1>1. Init => ElfReadsInside
    BY DEF Init, ElfReadsInside, After
  <1>2. WellFormed(in) /\ ElfReadsInside /\ [Next]_vars => ElfReadsInside'
    <2> SUFFICES ASSUME WellFormed(in), ElfReadsInside, [Next]_vars, done'
                 PROVE  ElfReadsInside'
      BY DEF ElfReadsInside, After
    <2>1. CASE UNCHANGED vars
      BY <2>1 DEF vars, ElfReadsInside, After
    <2>2. CASE ReadHeaders /\ in.kind = "table" /\ in' = in
      <3>1. PICK f \in Library : f = in.file
        BY <2>2 DEF WellFormed
      <3>2. \A reads \in out' : ElfPrograms(f) /\ reads = HeaderReads(f)
        BY <2>2, <3>1 DEF ReadHeaders, Result
      <3> QED BY <2>2, <3>1, <3>2, HeadersInside DEF ElfReadsInside, After
    <2>3. CASE LocateStrings /\ in.kind = "strings" /\ in' = in
      <3>1. PICK f \in Library, a \in U64, n \in U64 :
              f = in.file /\ a = in.address /\ n = in.size
        BY <2>3 DEF WellFormed
      <3>2. out' = StringTable(f, a, n)
        BY <2>3, <3>1 DEF LocateStrings, Result
      <3> QED BY <2>3, <3>1, <3>2, StringsInside DEF ElfReadsInside, After
    <2>4. CASE LocateHook /\ in.kind = "rva" /\ in' = in
      <3>1. PICK f \in Library, a \in U64, n \in U64 :
              f = in.file /\ a = in.rva /\ n = in.len
        BY <2>4 DEF WellFormed
      <3>2. out' = RvaToFileOffset(f, a, n)
        BY <2>4, <3>1 DEF LocateHook, Result
      <3> QED BY <2>4, <3>1, <3>2, HookInside DEF ElfReadsInside, After
    <2>5. CASE in'.kind \notin {"table", "strings", "rva"}
      BY <2>5 DEF ElfReadsInside, After
    <2> QED BY <2>1, <2>2, <2>3, <2>4, <2>5, OneCall
  <1> QED BY <1>1, <1>2, InputsKept, PTL DEF Spec
-----------------------------------------------------------------------------
(* The notes of a native library.                                          *)

\* The states of the walk through the notes.
Walking == [cursor : Nat, stop : BOOLEAN,
            id : {{}} \cup {{r} : r \in [from : Nat, to : Nat]}]

\* Padding to a multiple of four.
LEMMA PaddingFacts ==
  ASSUME NEW q \in Nat, NEW m \in Nat
  PROVE  /\ Floor4(4 * q + m) = 4 * q + 4 * (m \div 4)
         /\ Exactly(m) \in Nat /\ Exactly(m) >= m /\ Exactly(m) <= m + 3
         /\ \E p \in Nat : Exactly(m) = 4 * p
  BY DEF Floor4, Exactly

\* Where a note begins at a multiple of four inside the segment, the code's
\* saturating ends are the exact ones if the note fits, and outside if not.
LEMMA NoteExtentExact ==
  ASSUME NEW size \in 0..(Usize - 5), NEW h \in Header, NEW c \in 0..size,
         NEW q \in Nat, c = 4 * q
  PROVE  LET e == NoteExtent(c, h)
         IN  /\ e.from \in Nat /\ e.to \in Nat /\ e.end \in Nat
             /\ NoteLength(h) \in Nat /\ NoteLength(h) >= NoteHeader
             /\ c + NoteHeader <= size /\ e.end <= size <=> c + NoteLength(h) <= size
             /\ c + NoteLength(h) <= size =>
                 /\ e.end = c + NoteLength(h)
                 /\ e.from = c + NoteHeader + Exactly(h.name)
                 /\ e.to = e.from + h.desc
                 /\ \E p \in Nat : e.end = 4 * p
  <1> DEFINE a == h.name
             d == h.desc
             x == SaturatingAdd(c + NoteHeader, a)
             f == Padded(x)
             t == SaturatingAdd(f, d)
             e == Padded(t)
  <1>1. PICK v \in Nat, u \in Nat : NoteHeader = 4 * v /\ Usize = 4 * u
    BY ElfAssumption
  <1>2. a \in 0..(Usize - 1) /\ d \in 0..(Usize - 1) /\ NoteHeader \in Nat /\ Usize \in Nat
    BY ElfAssumption DEF Header
  <1>3. \A n \in Nat : /\ Padded(n) \in Nat /\ \E p \in Nat : Padded(n) = 4 * p
                       /\ n + 3 < Usize => Padded(n) = Exactly(n)
                       /\ n + 3 >= Usize => Padded(n) = Usize - 4
    BY <1>1, <1>2 DEF Padded, Floor4, SaturatingAdd, Exactly
  <1>4. \A n, m \in Nat : /\ SaturatingAdd(n, m) \in Nat
                          /\ n + m < Usize => SaturatingAdd(n, m) = n + m
                          /\ n + m >= Usize => SaturatingAdd(n, m) = Usize - 1
    BY <1>2 DEF SaturatingAdd
  <1>5. \A p, m \in Nat : Exactly(4 * p + m) = 4 * p + Exactly(m)
    BY DEF Exactly
  <1>6. \A m \in Nat : Exactly(m) \in Nat /\ Exactly(m) >= m /\ Exactly(m) <= m + 3
                       /\ \E p \in Nat : Exactly(m) = 4 * p
    BY PaddingFacts
  <1>7. x \in Nat /\ f \in Nat /\ t \in Nat /\ e \in Nat
    <2>1. x \in Nat
      <3>1. c + NoteHeader \in Nat /\ a \in Nat
        BY <1>2
      <3> QED BY <1>4, <3>1
    <2>2. f \in Nat
      <3> HIDE DEF x
      <3> QED BY <1>3, <2>1
    <2>3. t \in Nat
      <3> HIDE DEF f
      <3>1. d \in Nat
        BY <1>2
      <3> QED BY <1>4, <2>2, <3>1
    <2>4. e \in Nat
      <3> HIDE DEF t
      <3> QED BY <1>3, <2>3
    <2> QED BY <2>1, <2>2, <2>3, <2>4
  <1>8. NoteExtent(c, h) = [name |-> x, from |-> f, to |-> t, end |-> e]
    BY DEF NoteExtent
  <1> DEFINE b == c + NoteHeader
             A == Exactly(a)
             D == Exactly(d)
  <1>9. b \in Nat /\ b = 4 * (q + v) /\ a \in Nat /\ d \in Nat /\ A \in Nat /\ D \in Nat
        /\ a <= A /\ A <= a + 3 /\ d <= D /\ D <= d + 3
    <2>1. a \in Nat /\ d \in Nat
      BY <1>2
    <2>2. b \in Nat /\ b = 4 * (q + v)
      BY <1>1, <1>2
    <2> HIDE DEF a, d, b
    <2> QED BY <1>6, <2>1, <2>2
  <1>10. /\ b + a + 3 < Usize => f = b + A
         /\ b + a + 3 >= Usize => f = Usize - 4
    <2>1. Exactly(b + a) = b + A
      BY <1>5, <1>9
    <2>2. /\ b + a < Usize => x = b + a
          /\ b + a >= Usize => x = Usize - 1
      BY <1>4, <1>9
    <2>3. /\ x + 3 < Usize => f = Exactly(x)
          /\ x + 3 >= Usize => f = Usize - 4
      BY <1>3, <1>7
    <2> HIDE DEF x, f, b, a, A
    <2> QED BY <1>2, <1>7, <1>9, <2>1, <2>2, <2>3
  <1>11. PICK p \in Nat : f = 4 * p
    BY <1>3, <1>4, <1>9
  <1>12. /\ f + d + 3 < Usize => t = f + d /\ e = f + D
         /\ f + d + 3 >= Usize => e = Usize - 4
    <2>1. Exactly(f + d) = f + D
      <3> HIDE DEF f, d
      <3> QED BY <1>5, <1>9, <1>11 DEF D
    <2>2. /\ f + d < Usize => t = f + d
          /\ f + d >= Usize => t = Usize - 1
      <3> HIDE DEF f, d
      <3> QED BY <1>4, <1>7, <1>9 DEF t
    <2>3. /\ t + 3 < Usize => e = Exactly(t)
          /\ t + 3 >= Usize => e = Usize - 4
      <3> HIDE DEF t
      <3> QED BY <1>3, <1>7 DEF e
    <2> HIDE DEF t, f, e, d, D
    <2> QED BY <1>2, <1>7, <1>9, <2>1, <2>2, <2>3
  <1>13. PICK r \in Nat : e = 4 * r
    <2> HIDE DEF t
    <2> QED BY <1>3, <1>7 DEF e
  <1>14. NoteLength(h) = NoteHeader + A + D
    BY DEF NoteLength
  <1> HIDE DEF x, f, t, e, b, a, d, A, D
  <1>15. b <= size /\ e <= size <=> b + A + D <= size
    BY <1>2, <1>7, <1>9, <1>10, <1>12
  <1>16. b + A + D <= size => e = b + A + D /\ f = b + A /\ t = f + d
    BY <1>2, <1>7, <1>9, <1>10, <1>12
  <1>17. c + NoteLength(h) = b + A + D /\ NoteLength(h) \in Nat /\ NoteLength(h) >= NoteHeader
    BY <1>2, <1>9, <1>14 DEF b
  <1> QED BY <1>7, <1>8, <1>13, <1>15, <1>16, <1>17 DEF b, a, d, A

\* The numbers of a note header.
LEMMA HeaderFacts ==
  ASSUME NEW h \in Header
  PROVE  h.name \in Nat /\ h.desc \in Nat /\ NoteLength(h) \in Nat
  <1>1. /\ h.name \in 0..(Usize - 1) /\ h.desc \in 0..(Usize - 1)
        /\ Usize \in Nat /\ NoteHeader \in Nat
    BY ElfAssumption DEF Header
  <1>2. h.name \in Nat /\ h.desc \in Nat
    BY <1>1
  <1>3. Exactly(h.name) \in Nat /\ Exactly(h.desc) \in Nat
    BY <1>2, PaddingFacts
  <1> QED BY <1>1, <1>2, <1>3 DEF NoteLength

\* The notes end one after the other.
LEMMA NoteEndLoop ==
  ASSUME NEW headers \in Seq(Header)
  PROVE  /\ NoteEnd(headers) \in [0..Len(headers) -> Nat]
         /\ NoteEnd(headers)[0] = 0
         /\ \A k \in 1..Len(headers) :
                /\ NoteLength(headers[k]) \in Nat
                /\ NoteEnd(headers)[k] = NoteEnd(headers)[k - 1] + NoteLength(headers[k])
  <1> DEFINE n == Len(headers)
             end == NoteEnd(headers)
             F == [k \in 1..n |-> [v \in Nat |-> v + NoteLength(headers[k])]]
  <1>1. n \in Nat
    OBVIOUS
  <1>2. \A k \in 1..n : NoteLength(headers[k]) \in Nat
    <2>1. \A k \in 1..n : headers[k] \in Header
      OBVIOUS
    <2> QED BY <2>1, HeaderFacts
  <1>3. F \in [1..n -> [Nat -> Nat]]
    BY <1>2
  <1>4. PICK g : IsLoop(g, n, n, Nat, 0, F)
    <2> HIDE DEF F, n
    <2> QED BY <1>1, <1>3, Iteration
  <1>5. g = [k \in 0..n |-> IF k = 0 THEN 0 ELSE g[k - 1] + NoteLength(headers[k])]
    <2>1. g \in [0..n -> Nat] /\ \A k \in 1..n : g[k - 1] \in Nat
      BY <1>1, <1>4 DEF IsLoop
    <2>2. \A k \in 1..n : F[k][g[k - 1]] = g[k - 1] + NoteLength(headers[k])
      BY <2>1
    <2> HIDE DEF F, n
    <2> QED BY <1>1, <1>4, <2>1, <2>2 DEF IsLoop
  <1>6. end = [k \in 0..n |-> IF k = 0 THEN 0 ELSE end[k - 1] + NoteLength(headers[k])]
    BY <1>5 DEF NoteEnd
  <1> HIDE DEF end, n, F
  <1>7. end[0] = 0 /\ \A k \in 1..n : end[k] = end[k - 1] + NoteLength(headers[k])
    BY <1>1, <1>6
  <1> DEFINE T == {k \in 0..n : end[k] \in Nat}
  <1>8. 0..n \subseteq T
    <2>1. 0 \in T
      BY <1>1, <1>7
    <2>2. \A k \in 1..n : k - 1 \in T => k \in T
      BY <1>1, <1>2, <1>7
    <2> HIDE DEF T
    <2> QED BY <1>1, <2>1, <2>2, Induction
  <1>9. end \in [0..n -> Nat]
    <2>1. \A k \in 0..n : end[k] \in Nat
      BY <1>8
    <2>2. DOMAIN end = 0..n /\ end = [k \in 0..n |-> end[k]]
      BY <1>6
    <2> QED BY <2>1, <2>2
  <1> QED BY <1>2, <1>7, <1>9 DEF end, n

\* A later note ends later.
LEMMA NoteEndGrows ==
  ASSUME NEW headers \in Seq(Header), NEW j \in 1..Len(headers), NEW i \in j..Len(headers)
  PROVE  NoteEnd(headers)[j] <= NoteEnd(headers)[i]
  <1> DEFINE end == NoteEnd(headers)
             n == Len(headers)
             T == {k \in 0..n : j <= k => end[j] <= end[k]}
  <1>1. n \in Nat /\ j \in 1..n /\ i \in j..n
    OBVIOUS
  <1>2. end \in [0..n -> Nat] /\ \A k \in 1..n : end[k - 1] <= end[k]
    <2>1. /\ end \in [0..n -> Nat]
          /\ \A k \in 1..n : /\ NoteLength(headers[k]) \in Nat
                             /\ end[k] = end[k - 1] + NoteLength(headers[k])
      BY NoteEndLoop
    <2> HIDE DEF end, n
    <2>2. \A k \in 1..n : end[k - 1] \in Nat
      BY <1>1, <2>1
    <2> QED BY <2>1, <2>2
  <1> HIDE DEF end, n
  <1>3. 0 \in T
    BY <1>1
  <1>4. ASSUME NEW k \in 1..n, k - 1 \in T PROVE k \in T
    <2>1. end[j] \in Nat /\ end[k] \in Nat /\ end[k - 1] \in Nat /\ end[k - 1] <= end[k]
      BY <1>1, <1>2
    <2> QED BY <1>1, <1>4, <2>1
  <1>5. 0..n \subseteq T
    <2> HIDE DEF T
    <2> QED BY <1>1, <1>3, <1>4, Induction
  <1> QED BY <1>1, <1>5 DEF end

\* The loop over the notes.
LEMMA NoteWalkLoop ==
  ASSUME NEW size \in 0..(Usize - 5), NEW headers \in Seq(Header)
  PROVE  /\ NoteWalk(size, headers)[0] = [cursor |-> 0, stop |-> FALSE, id |-> {}]
         /\ \A k \in 1..Len(headers) :
                NoteWalk(size, headers)[k] =
                    NoteStep(size, NoteWalk(size, headers)[k - 1], headers[k])
  <1> DEFINE n == Len(headers)
             start == [cursor |-> 0, stop |-> FALSE, id |-> {}]
             F == [k \in 1..n |-> [v \in Walking |-> NoteStep(size, v, headers[k])]]
  <1>1. n \in Nat /\ start \in Walking
    BY DEF Walking
  <1>2. ASSUME NEW k \in 1..n, NEW v \in Walking PROVE NoteStep(size, v, headers[k]) \in Walking
    <2> DEFINE e == NoteExtent(v.cursor, headers[k])
    <2>1. e.from \in Nat /\ e.to \in Nat /\ e.end \in Nat
      <3>1. \A x, y \in Nat : SaturatingAdd(x, y) \in Nat
        BY ElfAssumption DEF SaturatingAdd
      <3>2. \A x \in Nat : Padded(x) \in Nat
        <4>1. \A x \in Nat : Floor4(x) \in Nat
          BY DEF Floor4
        <4> QED BY <3>1, <4>1 DEF Padded
      <3>3. v.cursor + NoteHeader \in Nat /\ headers[k].name \in Nat /\ headers[k].desc \in Nat
        <4>1. headers[k] \in Header
          OBVIOUS
        <4>2. v.cursor \in Nat /\ NoteHeader \in Nat
          BY ElfAssumption DEF Walking
        <4> QED BY <4>1, <4>2, HeaderFacts
      <3> QED BY <3>1, <3>2, <3>3 DEF NoteExtent
    <2> HIDE DEF e
    <2>2. \/ NoteStep(size, v, headers[k]) = [v EXCEPT !.stop = TRUE]
          \/ NoteStep(size, v, headers[k]) =
                [v EXCEPT !.stop = TRUE, !.id = {[from |-> e.from, to |-> e.to]}]
          \/ NoteStep(size, v, headers[k]) = [v EXCEPT !.cursor = e.end]
      BY DEF NoteStep, e
    <2> QED BY <2>1, <2>2 DEF Walking
  <1>3. F \in [1..n -> [Walking -> Walking]]
    BY <1>2
  <1>4. PICK g : IsLoop(g, n, n, Walking, start, F)
    <2> HIDE DEF F, n, start
    <2> QED BY <1>1, <1>3, Iteration
  <1>5. g = [k \in 0..n |-> IF k = 0 THEN start ELSE NoteStep(size, g[k - 1], headers[k])]
    <2>1. g \in [0..n -> Walking] /\ \A k \in 1..n : g[k - 1] \in Walking
      BY <1>1, <1>4 DEF IsLoop
    <2>2. \A k \in 1..n : F[k][g[k - 1]] = NoteStep(size, g[k - 1], headers[k])
      BY <2>1
    <2> HIDE DEF F, n, start
    <2> QED BY <1>1, <1>4, <2>1, <2>2 DEF IsLoop
  <1> DEFINE walk == NoteWalk(size, headers)
  <1>6. walk = [k \in 0..n |-> IF k = 0 THEN start ELSE NoteStep(size, walk[k - 1], headers[k])]
    BY <1>5 DEF NoteWalk
  <1> HIDE DEF walk, n, start
  <1>7. walk[0] = start /\ \A k \in 1..n : walk[k] = NoteStep(size, walk[k - 1], headers[k])
    BY <1>1, <1>6
  <1> QED BY <1>7 DEF walk, n, start

\* Where the loop is after k notes: it stands at the exact end of the last one,
\* no build id yet; or it has stopped at note j, which has the build id, or does
\* not fit.
WalkSound(size, headers, k) ==
    LET w == NoteWalk(size, headers)[k]
        end == NoteEnd(headers)
    IN  \/ /\ w.stop = FALSE /\ w.id = {}
           /\ w.cursor = end[k] /\ end[k] <= size /\ \E q \in Nat : end[k] = 4 * q
           /\ \A i \in 1..k : ~headers[i].gnu
        \/ /\ w.stop = TRUE
           /\ \E j \in 1..k :
                /\ \A i \in 1..(j - 1) : ~headers[i].gnu
                /\ \/ end[j] > size /\ w.id = {}
                   \/ /\ end[j] <= size /\ headers[j].gnu
                      /\ w.id = {[from |-> end[j - 1] + NoteHeader + Exactly(headers[j].name),
                                  to |-> end[j - 1] + NoteHeader + Exactly(headers[j].name)
                                            + headers[j].desc]}

\* WalkSound is the invariant of the walk through the notes.
LEMMA WalkSoundAlways ==
  ASSUME NEW size \in 0..(Usize - 5), NEW headers \in Seq(Header)
  PROVE  \A k \in 0..Len(headers) : WalkSound(size, headers, k)
  <1> DEFINE n == Len(headers)
             walk == NoteWalk(size, headers)
             end == NoteEnd(headers)
             T == {k \in 0..n : WalkSound(size, headers, k)}
  <1>1. n \in Nat /\ size \in Nat
    BY ElfAssumption
  <1>2. /\ end \in [0..n -> Nat] /\ end[0] = 0
        /\ \A k \in 1..n : /\ NoteLength(headers[k]) \in Nat
                            /\ end[k] = end[k - 1] + NoteLength(headers[k])
    BY NoteEndLoop
  <1>3. /\ walk[0] = [cursor |-> 0, stop |-> FALSE, id |-> {}]
        /\ \A k \in 1..n : walk[k] = NoteStep(size, walk[k - 1], headers[k])
    BY NoteWalkLoop
  <1> HIDE DEF n, walk, end
  <1>4. WalkSound(size, headers, 0)
    <2>1. 0 = 4 * 0
      OBVIOUS
    <2> QED BY <1>1, <1>2, <1>3, <2>1 DEF WalkSound, walk, end
  <1>5. ASSUME NEW k \in 1..n, WalkSound(size, headers, k - 1) PROVE WalkSound(size, headers, k)
    <2> DEFINE w == walk[k - 1]
               h == headers[k]
               e == NoteExtent(w.cursor, h)
               stopped == [w EXCEPT !.stop = TRUE]
    <2>1. walk[k] = NoteStep(size, w, h)
      BY <1>3
    <2>2. h \in Header
      BY DEF n
    <2>3. CASE w.stop = TRUE
      <3>1. walk[k] = [w EXCEPT !.stop = TRUE]
        BY <2>1, <2>3 DEF NoteStep
      <3>2. walk[k].stop = TRUE /\ walk[k].id = w.id
        BY <3>1
      <3>3. 1..(k - 1) \subseteq 1..k
        BY <1>1
      <3> QED BY <1>5, <2>3, <3>2, <3>3 DEF WalkSound, walk, end
    <2>4. CASE w.stop = FALSE
      <3>1. /\ w.id = {} /\ w.cursor = end[k - 1] /\ end[k - 1] <= size
            /\ \A i \in 1..(k - 1) : ~headers[i].gnu
        BY <1>5, <2>4 DEF WalkSound, walk, end
      <3>2. PICK q \in Nat : end[k - 1] = 4 * q
        BY <1>5, <2>4 DEF WalkSound, walk, end
      <3>3. w.cursor \in 0..size
        BY <1>1, <1>2, <3>1
      <3>4. /\ NoteLength(h) \in Nat /\ NoteLength(h) >= NoteHeader
            /\ w.cursor + NoteHeader <= size /\ e.end <= size <=> w.cursor + NoteLength(h) <= size
            /\ w.cursor + NoteLength(h) <= size =>
                 /\ e.end = w.cursor + NoteLength(h)
                 /\ e.from = w.cursor + NoteHeader + Exactly(h.name)
                 /\ e.to = e.from + h.desc
                 /\ \E p \in Nat : e.end = 4 * p
        <4> HIDE DEF w, h
        <4> QED BY <2>2, <3>1, <3>2, <3>3, NoteExtentExact DEF e
      <3>5. end[k] = w.cursor + NoteLength(h)
        BY <1>2, <3>1
      <3>10. walk[k] = IF ~(w.cursor + NoteLength(h) <= size)
                       THEN [w EXCEPT !.stop = TRUE]
                       ELSE IF h.gnu
                            THEN [w EXCEPT !.stop = TRUE, !.id = {[from |-> e.from, to |-> e.to]}]
                            ELSE [w EXCEPT !.cursor = e.end]
        <4>1. w.stop \/ w.cursor + NoteHeader > size \/ e.end > size
                <=> ~(w.cursor + NoteLength(h) <= size)
          <5>1. e.end \in Nat /\ w.cursor \in Nat /\ NoteHeader \in Nat
            <6> HIDE DEF w, h
            <6> QED BY <2>2, <3>1, <3>2, <3>3, NoteExtentExact, ElfAssumption DEF e
          <5> HIDE DEF w, h, e
          <5> QED BY <1>1, <2>4, <3>4, <5>1
        <4> HIDE DEF w, h
        <4> QED BY <2>1, <4>1 DEF NoteStep, e
      <3>6. CASE end[k] > size
        <4>1. walk[k] = [w EXCEPT !.stop = TRUE]
          BY <1>1, <1>2, <3>5, <3>6, <3>10
        <4>2. walk[k].stop = TRUE /\ walk[k].id = {}
          BY <3>1, <4>1
        <4>3. k \in 1..k
          OBVIOUS
        <4> QED BY <3>1, <3>6, <4>2, <4>3 DEF WalkSound, walk, end
      <3>7. CASE end[k] <= size /\ h.gnu
        <4>1. walk[k] = [w EXCEPT !.stop = TRUE, !.id = {[from |-> e.from, to |-> e.to]}]
          BY <3>5, <3>7, <3>10
        <4>2. walk[k].stop = TRUE /\ walk[k].id = {[from |-> e.from, to |-> e.to]}
          BY <4>1
        <4>3. k \in 1..k
          OBVIOUS
        <4>4. /\ e.from = end[k - 1] + NoteHeader + Exactly(headers[k].name)
              /\ e.to = end[k - 1] + NoteHeader + Exactly(headers[k].name) + headers[k].desc
          BY <3>1, <3>4, <3>5, <3>7
        <4> QED BY <3>1, <3>7, <4>2, <4>3, <4>4 DEF WalkSound, walk, end
      <3>8. CASE end[k] <= size /\ ~h.gnu
        <4>1. walk[k] = [w EXCEPT !.cursor = e.end]
          BY <3>5, <3>8, <3>10
        <4>2. walk[k].stop = FALSE /\ walk[k].id = {} /\ walk[k].cursor = e.end
          BY <2>4, <3>1, <4>1
        <4>3. e.end = end[k] /\ \E p \in Nat : end[k] = 4 * p
          BY <3>4, <3>5, <3>8
        <4>4. \A i \in 1..k : ~headers[i].gnu
          BY <3>1, <3>8
        <4> QED BY <3>8, <4>2, <4>3, <4>4 DEF WalkSound, walk, end
      <3>9. end[k] \in Nat
        BY <1>1, <1>2
      <3> QED BY <1>1, <3>6, <3>7, <3>8, <3>9
    <2>5. w.stop \in BOOLEAN
      BY <1>5 DEF WalkSound, walk
    <2> QED BY <2>3, <2>4, <2>5
  <1>6. 0..n \subseteq T
    <2>1. 0 \in T
      BY <1>1, <1>4
    <2>2. \A k \in 1..n : k - 1 \in T => k \in T
      BY <1>1, <1>5
    <2> HIDE DEF T
    <2> QED BY <1>1, <2>1, <2>2, Induction
  <1> QED BY <1>6 DEF n

\* The walk through a segment finds the descriptor of its first GNU note.
LEMMA SegmentIdExact ==
  ASSUME NEW s \in NoteSegment, s.size <= MaxNote
  PROVE  SegmentId(s) = IdOf(s)
  <1>1. s.size \in 0..(Usize - 5) /\ s.headers \in Seq(Header)
    BY ElfAssumption DEF NoteSegment
  <1> DEFINE hs == s.headers
             n == Len(hs)
             end == NoteEnd(hs)
             i == SelectInSeq(hs, LAMBDA h : h.gnu)
             from == end[i - 1] + NoteHeader + Exactly(hs[i].name)
             id == SegmentId(s)
  <1>2. n \in Nat /\ WalkSound(s.size, hs, n)
    BY <1>1, WalkSoundAlways
  <1>3. /\ i = 0 => \A k \in 1..n : ~hs[k].gnu
        /\ i # 0 => i \in 1..n /\ hs[i].gnu /\ \A k \in 1..n : hs[k].gnu => i <= k
    <2> DEFINE I == {k \in 1..n : hs[k].gnu}
    <2>1. i = IF I # {} THEN Min(I) ELSE 0
      BY DEF SelectInSeq
    <2>2. CASE I = {}
      BY <2>1, <2>2
    <2>3. CASE I # {}
      <3>1. I \subseteq Nat
        OBVIOUS
      <3>2. Min(I) \in I /\ \A k \in I : Min(I) <= k
        <4> HIDE DEF I
        <4> QED BY <2>3, <3>1, Least DEF Min
      <3> HIDE DEF i
      <3> QED BY <2>1, <2>3, <3>2
    <2> QED BY <2>2, <2>3
  <1>4. id = IF i # 0 /\ end[i] <= s.size
             THEN {[from |-> from, to |-> from + hs[i].desc]} ELSE {}
    <2>1. end \in [0..n -> Nat]
      BY <1>1, NoteEndLoop
    <2>2. \A j \in 1..n : i \in j..n => end[j] <= end[i]
      BY <1>1, NoteEndGrows
    <2>3. \/ id = {} /\ i = 0
          \/ \E j \in 1..n :
                /\ \A k \in 1..(j - 1) : ~hs[k].gnu
                /\ \/ end[j] > s.size /\ id = {}
                   \/ /\ end[j] <= s.size /\ hs[j].gnu
                      /\ id = {[from |-> end[j - 1] + NoteHeader + Exactly(hs[j].name),
                                to |-> end[j - 1] + NoteHeader + Exactly(hs[j].name)
                                          + hs[j].desc]}
      <3> HIDE DEF i
      <3> QED BY <1>2, <1>3 DEF WalkSound, SegmentId
    <2>4. CASE id = {} /\ i = 0
      BY <2>4
    <2>5. ASSUME NEW j \in 1..n, \A k \in 1..(j - 1) : ~hs[k].gnu,
                 end[j] > s.size, id = {}
          PROVE  i # 0 => ~(end[i] <= s.size)
      <3> HIDE DEF i, end
      <3>1. i # 0 => i \in j..n
        BY <1>2, <1>3, <2>5
      <3>2. s.size \in Nat
        BY <1>1, ElfAssumption
      <3> QED BY <1>2, <2>1, <2>2, <2>5, <3>1, <3>2
    <2>6. ASSUME NEW j \in 1..n, \A k \in 1..(j - 1) : ~hs[k].gnu, hs[j].gnu
          PROVE  i = j
      <3> HIDE DEF i
      <3> QED BY <1>2, <1>3, <2>6
    <2> HIDE DEF i, end, id
    <2> QED BY <2>3, <2>4, <2>5, <2>6
  <1> QED BY <1>4 DEF IdOf, SelectInSeq

\* The segments in their order: the result is that of the first one which is
\* oversized or has a build id.
LEMMA BuildIdExact ==
  ASSUME NEW segments \in Seq(NoteSegment)
  PROVE  GnuBuildId(segments) = FirstId(segments)
  <1> DEFINE n == Len(segments)
             Large(k) == segments[k].size > MaxNote
             I == {k \in 1..n : Large(k) \/ SegmentId(segments[k]) # {}}
             i == IF I # {} THEN Min(I) ELSE 0
             Ids == UNION {IdOf(segments[k]) : k \in DOMAIN segments}
             Right(o) == /\ o.id \in IdOf(segments[o.segment])
                         /\ \A j \in 1..o.segment : segments[j].size <= MaxNote
                         /\ \A j \in 1..(o.segment - 1) : IdOf(segments[j]) = {}
  <1>1. n \in Nat /\ DOMAIN segments = 1..n /\ \A k \in 1..n : segments[k] \in NoteSegment
    OBVIOUS
  <1>2. \A k \in 1..n : segments[k].size \in Nat
    BY <1>1 DEF NoteSegment
  <1>3. \A k \in 1..n : ~Large(k) <=> segments[k].size <= MaxNote
    BY <1>2, ElfAssumption
  <1>4. \A k \in 1..n : ~Large(k) => SegmentId(segments[k]) = IdOf(segments[k])
    BY <1>1, <1>3, SegmentIdExact
  <1>5. /\ i = 0 => I = {}
        /\ i # 0 => i \in I /\ \A k \in I : i <= k
    <2>1. CASE I = {}
      BY <2>1
    <2>2. CASE I # {}
      <3>1. I \subseteq Nat /\ 0 \notin I
        BY <1>1
      <3> HIDE DEF I
      <3>2. Min(I) \in I /\ \A k \in I : Min(I) <= k
        BY <2>2, <3>1, Least DEF Min
      <3> QED BY <2>2, <3>1, <3>2
    <2> QED BY <2>1, <2>2
  <1>6. GnuBuildId(segments) =
          IF i = 0 \/ Large(i) THEN {}
          ELSE {[segment |-> i, id |-> d] : d \in SegmentId(segments[i])}
    BY <1>1 DEF GnuBuildId, SelectInSeq
  <1> HIDE DEF n, i
  <1>7. ASSUME NEW o \in [segment : DOMAIN segments, id : Ids], Right(o)
        PROVE  o \in GnuBuildId(segments)
    <2>1. o.segment \in 1..n /\ ~Large(o.segment)
      BY <1>1, <1>3, <1>7
    <2>2. SegmentId(segments[o.segment]) = IdOf(segments[o.segment])
      BY <1>4, <2>1
    <2>3. o.segment \in I
      BY <1>7, <2>1, <2>2
    <2>4. ASSUME NEW j \in 1..(o.segment - 1) PROVE j \notin I
      <3>1. j \in 1..n /\ j \in 1..o.segment
        BY <1>1, <2>1
      <3>2. ~Large(j)
        BY <1>3, <1>7, <3>1
      <3> QED BY <1>4, <1>7, <3>1, <3>2
    <2>5. i = o.segment
      <3>1. i \in 1..n /\ i <= o.segment
        BY <1>5, <2>3
      <3> HIDE DEF I
      <3>2. i \in I
        BY <1>5, <2>3
      <3> QED BY <1>1, <2>1, <2>4, <3>1, <3>2
    <2>6. o = [segment |-> i, id |-> o.id]
      BY <2>5
    <2> QED BY <1>1, <1>6, <1>7, <2>1, <2>2, <2>5, <2>6
  <1>8. ASSUME NEW o \in GnuBuildId(segments)
        PROVE  o \in [segment : DOMAIN segments, id : Ids] /\ Right(o)
    <2>1. i # 0 /\ ~Large(i) /\ i \in 1..n
      BY <1>5, <1>6
    <2>2. PICK d \in SegmentId(segments[i]) : o = [segment |-> i, id |-> d]
      BY <1>6, <2>1
    <2>3. o.segment = i /\ o.id = d /\ d \in IdOf(segments[i])
      BY <1>4, <2>1, <2>2
    <2>4. ASSUME NEW j \in 1..(i - 1) PROVE ~Large(j) /\ IdOf(segments[j]) = {}
      <3>1. j \in 1..n /\ ~(i <= j)
        BY <1>1, <2>1
      <3>2. j \notin I
        <4> HIDE DEF I
        <4> QED BY <1>5, <2>1, <3>1
      <3> QED BY <1>4, <3>1, <3>2
    <2>5. \A j \in 1..i : segments[j].size <= MaxNote
      <3> SUFFICES ASSUME NEW j \in 1..i PROVE segments[j].size <= MaxNote
        OBVIOUS
      <3>1. j = i \/ j \in 1..(i - 1)
        BY <1>1, <2>1
      <3>2. j \in 1..n
        BY <1>1, <2>1
      <3>3. ~Large(j)
        BY <2>1, <2>4, <3>1
      <3> QED BY <1>3, <3>2, <3>3
    <2>6. \A j \in 1..(i - 1) : IdOf(segments[j]) = {}
      BY <2>4
    <2>7. o \in [segment : DOMAIN segments, id : Ids]
      BY <1>1, <2>1, <2>2, <2>3
    <2> QED BY <2>3, <2>5, <2>6, <2>7
  <1>9. FirstId(segments) = {o \in [segment : DOMAIN segments, id : Ids] : Right(o)}
    BY DEF FirstId
  <1> HIDE DEF Ids, Right
  <1> QED BY <1>7, <1>8, <1>9

\* The build id of a library is the descriptor of the first GNU note of the
\* first note segment that has one, for any number of segments and notes with
\* any sizes, and a library with an oversized segment before it has none
\* (elf_gnu_build_id).
THEOREM BuildIdAlwaysFound == Spec => []BuildIdFound
  <1>1. Init => BuildIdFound
    BY DEF Init, BuildIdFound, After
  <1>2. WellFormed(in) /\ BuildIdFound /\ [Next]_vars => BuildIdFound'
    <2> SUFFICES ASSUME WellFormed(in), BuildIdFound, [Next]_vars, After("note")'
                 PROVE  BuildIdFound'
      BY DEF BuildIdFound
    <2>1. CASE UNCHANGED vars
      BY <2>1 DEF vars, BuildIdFound, After
    <2>2. CASE FindBuildId /\ in.kind = "note" /\ in' = in
      <3>1. out' = GnuBuildId(in.segments)
        BY <2>2 DEF FindBuildId, Result
      <3>2. in.segments \in Seq(NoteSegment)
        BY <2>2 DEF WellFormed
      <3>3. out' = FirstId(in.segments)
        BY <3>1, <3>2, BuildIdExact
      <3> QED BY <2>2, <3>3 DEF BuildIdFound
    <2> QED BY <2>1, <2>2, OneCall DEF After
  <1> QED BY <1>1, <1>2, InputsKept, PTL DEF Spec

-----------------------------------------------------------------------------
(* The entries of an archive.                                              *)

\* The largest of some indices.
LEMMA MaxIsIn ==
  ASSUME NEW n \in Nat, NEW I, I \subseteq 0..n, I # {}
  PROVE  Max(I) \in I /\ \A y \in I : y <= Max(I)
  <1> DEFINE B == {b \in 0..n : \A y \in I : y <= b}
  <1>1. B \subseteq Nat /\ n \in B
    OBVIOUS
  <1>2. PICK b \in B : \A y \in B : b <= y
    <2> HIDE DEF B
    <2> QED BY <1>1, Least
  <1>3. b \in I
    <2> SUFFICES ASSUME b \notin I PROVE FALSE
      OBVIOUS
    <2>1. \A y \in I : y <= b - 1 /\ y \in 0..n
      BY <1>2
    <2>2. PICK y \in I : y <= b - 1 /\ y \in 0..n
      BY <2>1
    <2>3. b - 1 \in 0..n
      BY <1>2, <2>2
    <2>4. b - 1 \in B
      BY <2>1, <2>3
    <2> QED BY <1>2, <2>4
  <1> QED BY <1>2, <1>3 DEF Max

\* Parts of a name that lead to a file or directory of that name.
Plain == STRING \ {"", ".", ".."}

\* A name without ".." never leads up.
LEMMA WalkAlongLoop ==
  ASSUME NEW name \in Seq(STRING), \A k \in DOMAIN name : name[k] # ".."
  PROVE  /\ \A k \in 0..Len(name) : WalkAlong(name)[k] \in Seq(Plain)
         /\ WalkAlong(name)[0] = << >>
         /\ \A k \in 1..Len(name) :
                WalkAlong(name)[k] = IF name[k] \in {"", "."} THEN WalkAlong(name)[k - 1]
                                     ELSE Append(WalkAlong(name)[k - 1], name[k])
  <1> DEFINE n == Len(name)
             start == << >>
             F == [k \in 1..n |-> [v \in Seq(Plain) |-> Walk(v, name[k])]]
             path == WalkAlong(name)
  <1>1. n \in Nat /\ start \in Seq(Plain)
    OBVIOUS
  <1>2. ASSUME NEW k \in 1..n, NEW v \in Seq(Plain)
        PROVE  /\ Walk(v, name[k]) = IF name[k] \in {"", "."} THEN v ELSE Append(v, name[k])
               /\ Walk(v, name[k]) \in Seq(Plain)
    <2>1. v # Outside
      <3> SUFFICES ASSUME v = <<"..">> PROVE FALSE
        BY DEF Outside
      <3>1. 1 \in 1..Len(v) /\ v[1] = ".."
        OBVIOUS
      <3>2. v[1] \in Plain
        BY <3>1
      <3> QED BY <3>1, <3>2 DEF Plain
    <2>2. name[k] \in STRING /\ name[k] # ".."
      OBVIOUS
    <2>3. Walk(v, name[k]) = IF name[k] \in {"", "."} THEN v ELSE Append(v, name[k])
      BY <2>1, <2>2 DEF Walk
    <2>4. name[k] \notin {"", "."} => name[k] \in Plain
      BY <2>2 DEF Plain
    <2>5. \A p \in Plain : Append(v, p) \in Seq(Plain)
      OBVIOUS
    <2> QED BY <2>3, <2>4, <2>5
  <1>3. F \in [1..n -> [Seq(Plain) -> Seq(Plain)]]
    BY <1>2
  <1>4. PICK g : IsLoop(g, n, n, Seq(Plain), start, F)
    <2> HIDE DEF F, n, start
    <2> QED BY <1>1, <1>3, Iteration
  <1>5. g = [k \in 0..n |-> IF k = 0 THEN start ELSE Walk(g[k - 1], name[k])]
    <2>1. g \in [0..n -> Seq(Plain)] /\ \A k \in 1..n : g[k - 1] \in Seq(Plain)
      <3> DEFINE S == Seq(Plain)
      <3>1. g \in [0..n -> S]
        BY <1>4 DEF IsLoop
      <3> HIDE DEF S, n
      <3>2. \A k \in 1..n : g[k - 1] \in S
        BY <1>1, <3>1
      <3> QED BY <3>1, <3>2 DEF S
    <2>2. \A k \in 1..n : F[k][g[k - 1]] = Walk(g[k - 1], name[k])
      BY <2>1
    <2> HIDE DEF F, n, start
    <2>3. g[0] = start /\ \A k \in 1..n : g[k] = F[k][g[k - 1]]
      BY <1>4 DEF IsLoop
    <2>4. \A k \in 0..n : k = 0 \/ k \in 1..n
      BY <1>1
    <2>5. \A k \in 0..n : g[k] = IF k = 0 THEN start ELSE Walk(g[k - 1], name[k])
      BY <2>2, <2>3, <2>4
    <2> QED BY <2>1, <2>5
  <1>6. path = [k \in 0..n |-> IF k = 0 THEN start ELSE Walk(path[k - 1], name[k])]
    BY <1>5 DEF WalkAlong
  <1> HIDE DEF path, n, start
  <1>7. path[0] = start /\ \A k \in 1..n : path[k] = Walk(path[k - 1], name[k])
    BY <1>1, <1>6
  <1> DEFINE T == {k \in 0..n : path[k] \in Seq(Plain)}
  <1>8. 0..n \subseteq T
    <2>1. 0 \in T
      BY <1>1, <1>7
    <2>2. \A k \in 1..n : k - 1 \in T => k \in T
      <3> SUFFICES ASSUME NEW k \in 1..n, path[k - 1] \in Seq(Plain)
                   PROVE  path[k] \in Seq(Plain)
        BY <1>1
      <3> QED BY <1>2, <1>7
    <2> HIDE DEF T
    <2> QED BY <1>1, <2>1, <2>2, Induction
  <1>9. \A k \in 1..n : path[k] = IF name[k] \in {"", "."} THEN path[k - 1]
                                  ELSE Append(path[k - 1], name[k])
    <2>1. \A k \in 1..n : path[k - 1] \in Seq(Plain)
      BY <1>1, <1>8
    <2> QED BY <1>2, <1>7, <2>1
  <1> QED BY <1>7, <1>8, <1>9 DEF path, n, start

\* Where a safe name leads: inside the destination, and to a file of its own
\* last part, if that is one.
LEMMA ResolvedFacts ==
  ASSUME NEW name \in Seq(STRING) \ {<< >>}, SafeRelative(name)
  PROVE  /\ Resolved(name) # Outside
         /\ FileName(name) \notin {"", "."} => FileName(Resolved(name)) = FileName(name)
         /\ \A x \in Plain : name = <<x>> => Resolved(name) = <<x>>
  <1> DEFINE n == Len(name)
             path == WalkAlong(name)
  <1>1. n \in Nat /\ n # 0
    OBVIOUS
  <1>2. Resolved(name) = path[n] /\ \A k \in DOMAIN name : name[k] # ".."
    BY DEF Resolved, SafeRelative
  <1>3. /\ \A k \in 0..n : path[k] \in Seq(Plain)
        /\ path[0] = << >>
        /\ \A k \in 1..n : path[k] = IF name[k] \in {"", "."} THEN path[k - 1]
                                      ELSE Append(path[k - 1], name[k])
    BY <1>2, WalkAlongLoop
  <1> HIDE DEF path
  <1>4. path[n] # Outside
    <2> SUFFICES ASSUME path[n] = <<"..">> PROVE FALSE
      BY DEF Outside
    <2>1. path[n] \in Seq(Plain) /\ 1 \in 1..Len(path[n]) /\ path[n][1] = ".."
      <3>1. n \in 0..n
        BY <1>1
      <3>2. \A p : p = <<"..">> => 1 \in 1..Len(p) /\ p[1] = ".."
        OBVIOUS
      <3> HIDE DEF n
      <3>3. path[n] \in Seq(Plain)
        BY <1>3, <3>1
      <3> QED BY <3>2, <3>3
    <2>2. path[n][1] \in Plain
      BY <2>1
    <2> QED BY <2>1, <2>2 DEF Plain
  <1>5. ASSUME FileName(name) \notin {"", "."} PROVE FileName(path[n]) = FileName(name)
    <2>1. FileName(name) = name[n]
      BY DEF FileName, Last
    <2>2. path[n] = Append(path[n - 1], name[n]) /\ path[n - 1] \in Seq(Plain)
      <3>1. n \in 1..n /\ n - 1 \in 0..n
        BY <1>1
      <3> HIDE DEF n
      <3> QED BY <1>3, <1>5, <2>1, <3>1
    <2> QED BY <2>1, <2>2 DEF FileName, Last
  <1>6. ASSUME NEW x \in Plain, name = <<x>> PROVE path[n] = <<x>>
    <2>1. n = 1 /\ name[1] = x /\ x \notin {"", "."}
      BY <1>6 DEF Plain
    <2>2. \A m : m = 1 => 1 \in 1..m
      OBVIOUS
    <2> HIDE DEF n
    <2>3. path[1] = Append(path[0], x)
      <3>1. path[1] = IF name[1] \in {"", "."} THEN path[1 - 1]
                      ELSE Append(path[1 - 1], name[1])
        BY <1>3, <2>1, <2>2
      <3>2. 1 - 1 = 0
        OBVIOUS
      <3> QED BY <2>1, <3>1, <3>2
    <2>4. Append(<< >>, x) = <<x>>
      OBVIOUS
    <2> QED BY <1>3, <2>1, <2>3, <2>4
  <1> QED BY <1>2, <1>4, <1>5, <1>6

\* Nothing is expanded before the first entry.
LEMMA ExpandedStart ==
  ASSUME NEW entries \in Seq(Entry)
  PROVE  Expanded(entries)[0] = 0
  <1> DEFINE n == Len(entries)
             F == [k \in 1..n |-> [v \in Nat |-> v + entries[k].size]]
             sum == Expanded(entries)
  <1>1. n \in Nat
    OBVIOUS
  <1>2. \A k \in 1..n : entries[k].size \in Nat
    <2>1. \A k \in 1..n : entries[k] \in Entry
      OBVIOUS
    <2> QED BY <2>1 DEF Entry
  <1>3. F \in [1..n -> [Nat -> Nat]]
    BY <1>2
  <1>4. PICK g : IsLoop(g, n, n, Nat, 0, F)
    <2> HIDE DEF F, n
    <2> QED BY <1>1, <1>3, Iteration
  <1>5. g = [k \in 0..n |-> IF k = 0 THEN 0 ELSE g[k - 1] + entries[k].size]
    <2>1. g \in [0..n -> Nat] /\ \A k \in 1..n : g[k - 1] \in Nat
      BY <1>1, <1>4 DEF IsLoop
    <2>2. \A k \in 1..n : F[k][g[k - 1]] = g[k - 1] + entries[k].size
      BY <2>1
    <2> HIDE DEF F, n
    <2> QED BY <1>1, <1>4, <2>1, <2>2 DEF IsLoop
  <1>6. sum = [k \in 0..n |-> IF k = 0 THEN 0 ELSE sum[k - 1] + entries[k].size]
    BY <1>5 DEF Expanded
  <1> HIDE DEF sum, n
  <1>7. sum[0] = 0
    BY <1>1, <1>6
  <1> QED BY <1>7 DEF sum

\* What extract_xapk makes of a package that verify_xapk accepted.
LEMMA VerifiedUnpacks ==
  ASSUME NEW a, a.entries \in Seq(Entry), VerifyXapk(a), NEW files \in ExtractXapk(a)
  PROVE  /\ Outside \notin DOMAIN files
         /\ {p \in DOMAIN files : FileName(p) \in ApkFile} = {<<x>> : x \in Expected}
         /\ \A x \in Expected : files[<<x>>].original
         /\ Expanded(a.entries)[Len(a.entries)] <= MaxExpandedBytes
  <1> DEFINE es == a.entries
             n == Len(es)
             I == {i \in DOMAIN es : ~IsDir(es[i].name)}
             path == [i \in I |-> Resolved(es[i].name)]
             paths == {path[i] : i \in I}
             Onto(p) == {i \in I : path[i] = p}
  <1>1. n \in Nat /\ DOMAIN es = 1..n /\ I \subseteq 1..n
    OBVIOUS
  <1>2. ASSUME NEW i \in 1..n
        PROVE  /\ es[i].name \in Seq(STRING) \ {<< >>}
               /\ SafeRelative(es[i].name) /\ KnownSplit(es[i])
               /\ Expanded(es)[i] <= MaxExpandedBytes
    <2>1. es[i] \in Entry
      OBVIOUS
    <2> QED BY <1>1, <2>1 DEF VerifyXapk, Entry
  <1>3. \A x \in Expected : x \in Plain /\ x \in ApkFile
    BY PackageAssumption DEF Plain
  <1>4. /\ files = [p \in paths |-> es[Max(Onto(p))]]
        /\ \A i \in I : FileName(es[i].name) \notin {"", "."}
    BY DEF ExtractXapk, Creatable
  <1>5. ASSUME NEW i \in I
        PROVE  /\ path[i] # Outside /\ FileName(path[i]) = FileName(es[i].name)
               /\ FileName(path[i]) \in ApkFile =>
                    es[i].original /\ \E x \in Expected : path[i] = <<x>>
    <2>1. /\ es[i].name \in Seq(STRING) \ {<< >>}
          /\ SafeRelative(es[i].name) /\ KnownSplit(es[i])
      BY <1>1, <1>2
    <2>2. path[i] = Resolved(es[i].name)
      OBVIOUS
    <2>3. path[i] # Outside /\ FileName(path[i]) = FileName(es[i].name)
      BY <1>4, <2>1, <2>2, ResolvedFacts
    <2>4. ASSUME FileName(path[i]) \in ApkFile
          PROVE  es[i].original /\ \E x \in Expected : path[i] = <<x>>
      <3>1. PICK x \in Expected : es[i].name = <<x>> /\ es[i].original
        BY <2>1, <2>3, <2>4 DEF KnownSplit
      <3>2. path[i] = <<x>>
        BY <1>3, <2>1, <2>2, <3>1, ResolvedFacts
      <3> QED BY <3>1, <3>2
    <2> QED BY <2>3, <2>4
  <1>6. ASSUME NEW x \in Expected PROVE \E i \in I : path[i] = <<x>>
    <2>1. PICK i \in 1..n : es[i].name = <<x>>
      BY <1>1 DEF VerifyXapk
    <2>2. i \in I
      <3>1. Len(<<x>>) = 1
        OBVIOUS
      <3>2. ~IsDir(es[i].name)
        BY <2>1, <3>1 DEF IsDir
      <3> QED BY <1>1, <3>2
    <2>3. Resolved(es[i].name) = <<x>>
      BY <1>2, <1>3, <2>1, ResolvedFacts
    <2> QED BY <2>2, <2>3
  <1>7. \A x : FileName(<<x>>) = x
    BY DEF FileName, Last
  <1>8. ASSUME NEW x \in Expected PROVE files[<<x>>].original
    <2> DEFINE J == Onto(<<x>>)
    <2>1. J \subseteq 0..n /\ J # {}
      <3>1. PICK i \in I : path[i] = <<x>>
        BY <1>6
      <3>2. J \subseteq I /\ i \in J
        BY <3>1
      <3>3. \A k \in 1..n : k \in 0..n
        BY <1>1
      <3> HIDE DEF J, I, n
      <3> QED BY <1>1, <3>2, <3>3
    <2>2. Max(J) \in J
      <3> HIDE DEF J, n
      <3> QED BY <1>1, <2>1, MaxIsIn
    <2>3. Max(J) \in I /\ path[Max(J)] = <<x>>
      BY <2>2
    <2>4. files[<<x>>] = es[Max(J)]
      BY <1>4, <1>6
    <2> HIDE DEF J, I, path
    <2> QED BY <1>3, <1>5, <1>7, <2>3, <2>4
  <1>9. DOMAIN files = paths
    BY <1>4
  <1>10. Outside \notin DOMAIN files
    BY <1>5, <1>9
  <1>11. {p \in DOMAIN files : FileName(p) \in ApkFile} = {<<x>> : x \in Expected}
    <2>1. ASSUME NEW p \in paths, FileName(p) \in ApkFile PROVE \E x \in Expected : p = <<x>>
      BY <1>5, <2>1
    <2>2. ASSUME NEW x \in Expected PROVE <<x>> \in paths /\ FileName(<<x>>) \in ApkFile
      BY <1>3, <1>6, <1>7
    <2> HIDE DEF paths
    <2> QED BY <1>9, <2>1, <2>2
  <1>12. Expanded(es)[n] <= MaxExpandedBytes
    <2>1. CASE n = 0
      <3>1. Expanded(es)[0] = 0 /\ MaxExpandedBytes \in Nat
        BY ExpandedStart, PackageAssumption
      <3>2. Expanded(es)[n] = 0
        BY <2>1, <3>1
      <3> HIDE DEF n, es
      <3> QED BY <3>1, <3>2
    <2>2. CASE n # 0
      <3> HIDE DEF n
      <3>1. n \in 1..n
        BY <1>1, <2>2
      <3> QED BY <1>2, <3>1
    <2> QED BY <2>1, <2>2
  <1> QED BY <1>8, <1>10, <1>11, <1>12

\* A package that verify_xapk accepts unpacks to the expected splits and stays
\* in the workspace, for any number of entries with any names.
THEOREM AlwaysUnpacksAsVerified == Spec => []UnpacksAsVerified
  <1>1. Init => UnpacksAsVerified
    BY DEF Init, UnpacksAsVerified, After
  <1>2. WellFormed(in) /\ UnpacksAsVerified /\ [Next]_vars => UnpacksAsVerified'
    <2> SUFFICES ASSUME WellFormed(in), UnpacksAsVerified, [Next]_vars, After("archive")'
                 PROVE  UnpacksAsVerified'
      BY DEF UnpacksAsVerified
    <2>1. CASE UNCHANGED vars
      BY <2>1 DEF vars, UnpacksAsVerified, After
    <2>2. CASE VerifyPackage /\ in.kind = "archive" /\ in' = in
      <3>1. \A files \in out' : files \in ExtractXapk(in.archive) /\ VerifyXapk(in.archive)
        BY <2>2 DEF VerifyPackage, Result
      <3>2. in.archive.entries \in Seq(Entry)
        BY <2>2 DEF WellFormed
      <3> QED BY <2>2, <3>1, <3>2, VerifiedUnpacks DEF UnpacksAsVerified
    <2> QED BY <2>1, <2>2, OneCall DEF After
  <1> QED BY <1>1, <1>2, InputsKept, PTL DEF Spec

-----------------------------------------------------------------------------
(* The members of a base split.                                            *)

\* append_zip_entries goes through the members and keeps those it does not
\* replace.
LEMMA WithoutLoop ==
  ASSUME NEW entries \in Seq(Member), NEW names
  PROVE  LET kept == Without(entries, names)
         IN  /\ \A k \in 0..Len(entries) : kept[k] \in Seq(Member)
             /\ kept[0] = << >>
             /\ \A k \in 1..Len(entries) :
                    kept[k] = IF entries[k].name \in names THEN kept[k - 1]
                              ELSE Append(kept[k - 1], entries[k])
  <1> DEFINE n == Len(entries)
             start == << >>
             S == Seq(Member)
             Turn(v, e) == IF e.name \in names THEN v ELSE Append(v, e)
             F == [k \in 1..n |-> [v \in S |-> Turn(v, entries[k])]]
             kept == Without(entries, names)
  <1>1. n \in Nat /\ start \in S
    OBVIOUS
  <1>2. \A v \in S, e \in Member : Turn(v, e) \in S
    OBVIOUS
  <1>3. \A k \in 1..n : entries[k] \in Member
    OBVIOUS
  <1>4. F \in [1..n -> [S -> S]]
    <2> HIDE DEF S, Turn, n
    <2> QED BY <1>2, <1>3
  <1>5. PICK g : IsLoop(g, n, n, S, start, F)
    <2> HIDE DEF F, n, start, S
    <2> QED BY <1>1, <1>4, Iteration
  <1>6. g = [k \in 0..n |-> IF k = 0 THEN start ELSE Turn(g[k - 1], entries[k])]
    <2> HIDE DEF S, n, start, Turn
    <2>1. g \in [0..n -> S] /\ \A k \in 1..n : g[k - 1] \in S
      BY <1>1, <1>5 DEF IsLoop
    <2>2. \A k \in 1..n : F[k][g[k - 1]] = Turn(g[k - 1], entries[k])
      BY <2>1
    <2> HIDE DEF F
    <2>3. g[0] = start /\ \A k \in 1..n : g[k] = F[k][g[k - 1]]
      BY <1>5 DEF IsLoop
    <2>4. \A k \in 0..n : k = 0 \/ k \in 1..n
      BY <1>1
    <2>5. \A k \in 0..n : g[k] = IF k = 0 THEN start ELSE Turn(g[k - 1], entries[k])
      BY <2>2, <2>3, <2>4
    <2> QED BY <2>1, <2>5
  <1>7. kept = [k \in 0..n |-> IF k = 0 THEN start ELSE Turn(kept[k - 1], entries[k])]
    BY <1>6 DEF Without
  <1> HIDE DEF kept, n, start, S, Turn
  <1>8. kept[0] = start /\ \A k \in 1..n : kept[k] = Turn(kept[k - 1], entries[k])
    BY <1>1, <1>7
  <1> DEFINE T == {k \in 0..n : kept[k] \in S}
  <1>9. 0..n \subseteq T
    <2>1. 0 \in T
      BY <1>1, <1>8
    <2>2. \A k \in 1..n : k - 1 \in T => k \in T
      BY <1>1, <1>2, <1>3, <1>8
    <2> HIDE DEF T
    <2> QED BY <1>1, <2>1, <2>2, Induction
  <1>10. \A k \in 0..n : kept[k] \in S
    BY <1>9
  <1> QED BY <1>8, <1>10 DEF kept, n, start, S, Turn

\* The kept members are those of other names, each once.
LEMMA WithoutFacts ==
  ASSUME NEW entries \in Seq(Member), NEW names,
         \A i, j \in DOMAIN entries : entries[i].name = entries[j].name => i = j
  PROVE  LET kept == Without(entries, names)[Len(entries)]
         IN  /\ kept \in Seq(Member)
             /\ \A j \in 1..Len(kept) : kept[j].name \notin names
             /\ \A i \in 1..Len(entries) : entries[i].name \notin names =>
                    \E j \in 1..Len(kept) : kept[j] = entries[i]
             /\ \A j, l \in 1..Len(kept) : kept[j].name = kept[l].name => j = l
  <1> DEFINE n == Len(entries)
             kept == Without(entries, names)
             From(k) == \A j \in 1..Len(kept[k]) : \E i \in 1..k :
                            kept[k][j] = entries[i] /\ entries[i].name \notin names
             All(k) == \A i \in 1..k : entries[i].name \notin names =>
                           \E j \in 1..Len(kept[k]) : kept[k][j] = entries[i]
             Once(k) == \A j, l \in 1..Len(kept[k]) :
                            kept[k][j].name = kept[k][l].name => j = l
             T == {k \in 0..n : From(k) /\ All(k) /\ Once(k)}
  <1>1. n \in Nat /\ \A i, j \in 1..n : entries[i].name = entries[j].name => i = j
    OBVIOUS
  <1>2. /\ \A k \in 0..n : kept[k] \in Seq(Member)
        /\ kept[0] = << >>
        /\ \A k \in 1..n : kept[k] = IF entries[k].name \in names THEN kept[k - 1]
                                     ELSE Append(kept[k - 1], entries[k])
    BY WithoutLoop
  <1> HIDE DEF kept, n
  <1>3. 0 \in T
    <2>1. 1..Len(kept[0]) = {} /\ 1..0 = {} /\ 0 \in 0..n
      BY <1>1, <1>2
    <2> QED BY <2>1
  <1>4. ASSUME NEW k \in 1..n, From(k - 1), All(k - 1), Once(k - 1)
        PROVE  From(k) /\ All(k) /\ Once(k)
    <2>1. kept[k - 1] \in Seq(Member) /\ k - 1 \in 0..n /\ k \in Nat
      BY <1>1, <1>2
    <2>2. 1..k = 1..(k - 1) \cup {k} /\ k \notin 1..(k - 1)
      BY <2>1
    <2>3. CASE entries[k].name \in names
      <3>1. kept[k] = kept[k - 1]
        BY <1>2, <2>3
      <3>2. From(k)
        BY <1>4, <2>2, <3>1
      <3>3. All(k)
        BY <1>4, <2>2, <2>3, <3>1
      <3>4. Once(k)
        BY <1>4, <3>1
      <3> QED BY <3>2, <3>3, <3>4
    <2>4. CASE entries[k].name \notin names
      <3> DEFINE s == kept[k - 1]
                 t == kept[k]
                 m == Len(s)
      <3>1. t = Append(s, entries[k])
        BY <1>2, <2>4
      <3>2. m \in Nat /\ Len(t) = m + 1
        BY <2>1, <3>1
      <3>3. t[m + 1] = entries[k] /\ \A j \in 1..m : t[j] = s[j]
        BY <2>1, <3>1
      <3>4. 1..Len(t) = 1..m \cup {m + 1} /\ m + 1 \notin 1..m
        BY <3>2
      <3>5. /\ \A j \in 1..m : \E i \in 1..(k - 1) :
                   s[j] = entries[i] /\ entries[i].name \notin names
            /\ \A i \in 1..(k - 1) : entries[i].name \notin names =>
                   \E j \in 1..m : s[j] = entries[i]
            /\ \A j, l \in 1..m : s[j].name = s[l].name => j = l
        BY <1>4
      <3>6. \A j \in 1..m : s[j].name # entries[k].name
        <4>1. \A i \in 1..(k - 1) : i \in 1..n /\ i # k
          BY <1>1, <2>1
        <4> HIDE DEF s, m
        <4> QED BY <1>1, <3>5, <4>1
      <3> HIDE DEF s, t, m
      <3>7. \A j \in 1..Len(t) : \E i \in 1..k :
                t[j] = entries[i] /\ entries[i].name \notin names
        <4>1. ASSUME NEW j \in 1..m
              PROVE  \E i \in 1..k : t[j] = entries[i] /\ entries[i].name \notin names
          <5>1. PICK i \in 1..(k - 1) : s[j] = entries[i] /\ entries[i].name \notin names
            BY <3>5
          <5>2. i \in 1..k /\ t[j] = entries[i]
            BY <2>2, <3>3, <5>1
          <5> QED BY <5>1, <5>2
        <4>2. k \in 1..k
          BY <2>2
        <4> QED BY <2>4, <3>3, <3>4, <4>1, <4>2
      <3>8. \A i \in 1..k : entries[i].name \notin names =>
                \E j \in 1..Len(t) : t[j] = entries[i]
        BY <2>2, <3>3, <3>4, <3>5
      <3>9. \A j, l \in 1..Len(t) : t[j].name = t[l].name => j = l
        BY <3>3, <3>4, <3>5, <3>6
      <3> QED BY <3>7, <3>8, <3>9 DEF t
    <2> QED BY <2>3, <2>4
  <1>5. 0..n \subseteq T
    <2>1. \A k \in 1..n : k - 1 \in T => k \in T
      <3> SUFFICES ASSUME NEW k \in 1..n, From(k - 1), All(k - 1), Once(k - 1)
                   PROVE  k \in 0..n /\ From(k) /\ All(k) /\ Once(k)
        OBVIOUS
      <3>1. k \in 0..n
        BY <1>1
      <3> HIDE DEF From, All, Once
      <3> QED BY <1>4, <3>1
    <2> HIDE DEF T
    <2> QED BY <1>1, <1>3, <2>1, Induction
  <1>6. n \in 0..n
    BY <1>1
  <1>7. From(n) /\ All(n) /\ Once(n)
    <2> HIDE DEF From, All, Once
    <2> QED BY <1>5, <1>6
  <1>8. \A j \in 1..Len(kept[n]) : kept[n][j].name \notin names
    BY <1>7
  <1> QED BY <1>2, <1>6, <1>7, <1>8 DEF kept, n

\* There is a last dex number.
LEMMA UsedBounded ==
  ASSUME NEW entries \in Seq(Member)
  PROVE  UsedDex(entries) \subseteq 0..(Dexes - 2)
  <1> SUFFICES ASSUME NEW d \in UsedDex(entries) PROVE d \in 0..(Dexes - 2)
    OBVIOUS
  <1>1. PICK i \in 1..Len(entries) : d = entries[i].name[2]
    BY DEF UsedDex, Range
  <1>2. entries[i] \in Member
    OBVIOUS
  <1> QED BY <1>1, <1>2 DEF Member

\* The new dex number is above all, and next to them if they have no gap.
LEMMA NextDexFacts ==
  ASSUME NEW used, used \subseteq 0..(Dexes - 2)
  PROVE  /\ NextDex(used) \in Nat
         /\ \A d \in used : d < NextDex(used)
         /\ used = 1..Cardinality(used) /\ used # {} => NextDex(used) = Cardinality(used) + 1
  <1> DEFINE b == Dexes - 2
  <1>0. b \in Nat /\ Dexes \in Nat /\ Dexes > 2 /\ \A x \in 0..b : (x + 1) % Dexes = x + 1
    <2>1. Dexes \in Nat /\ Dexes > 2
      BY PackageAssumption
    <2>2. \A y \in 0..(Dexes - 1) : y % Dexes = y
      BY <2>1
    <2>3. \A x \in 0..b : x + 1 \in 0..(Dexes - 1)
      BY <2>1
    <2> QED BY <2>1, <2>2, <2>3
  <1>1. CASE used = {}
    <2>1. 1 \in 0..b
      BY <1>0
    <2>2. (1 + 1) % Dexes = 2
      <3>1. (1 + 1) % Dexes = 1 + 1
        BY <1>0, <2>1
      <3> QED BY <3>1
    <2>3. NextDex(used) = 2
      BY <1>1, <2>2 DEF NextDex
    <2> QED BY <1>1, <2>3
  <1>2. CASE used # {}
    <2> DEFINE m == Max(used)
               c == Cardinality(used)
    <2>1. m \in used /\ \A y \in used : y <= m
      <3> HIDE DEF b
      <3>1. b \in Nat /\ used \subseteq 0..b
        BY <1>0 DEF b
      <3> QED BY <1>2, <3>1, MaxIsIn
    <2>2. NextDex(used) = m + 1
      BY <1>0, <1>2, <2>1 DEF NextDex
    <2>3. c \in Nat
      <3>1. IsFiniteSet(0..b)
        BY <1>0, FS_Interval
      <3>2. IsFiniteSet(used)
        BY <3>1, FS_Subset
      <3> QED BY <3>2, FS_CardinalityType
    <2> HIDE DEF m, c
    <2>4. m \in Nat /\ \A d \in used : d \in Nat
      BY <1>0, <2>1
    <2>5. ASSUME used = 1..c PROVE m = c
      <3>1. c \in used
        BY <1>2, <2>3, <2>5
      <3> QED BY <2>1, <2>3, <2>5, <3>1
    <2>6. m + 1 \in Nat /\ \A d \in used : d < m + 1
      BY <2>1, <2>4
    <2> QED BY <2>2, <2>5, <2>6 DEF c
  <1> QED BY <1>1, <1>2

\* What append_zip_entries makes of a base split and two new members.
LEMMA InjectionFacts ==
  ASSUME NEW entries \in Seq(Member),
         \A i, j \in DOMAIN entries : entries[i].name = entries[j].name => i = j
  PROVE  LET used   == UsedDex(entries)
             result == InjectBase(entries)
         IN  /\ \A d \in used : [name |-> Dex(d), new |-> FALSE] \in Range(result)
             /\ \A i, j \in DOMAIN result : result[i].name = result[j].name => i = j
             /\ [name |-> Dex(NextDex(used)), new |-> TRUE] \in Range(result)
  <1> DEFINE used == UsedDex(entries)
             result == InjectBase(entries)
             code == [name |-> Dex(NextDex(used)), new |-> TRUE]
             policy == [name |-> Policy, new |-> TRUE]
             more == <<code, policy>>
             names == {more[i].name : i \in DOMAIN more}
             kept == Without(entries, names)[Len(entries)]
             m == Len(kept)
  <1>1. used \subseteq 0..(Dexes - 2)
    BY UsedBounded
  <1>2. NextDex(used) \in Nat /\ \A d \in used : d < NextDex(used) /\ d \in Nat
    <2> HIDE DEF used
    <2>1. NextDex(used) \in Nat /\ \A d \in used : d < NextDex(used)
      BY <1>1, NextDexFacts
    <2>2. \A d \in used : d \in Nat
      BY <1>1
    <2> QED BY <2>1, <2>2
  <1>3. names = {Dex(NextDex(used)), Policy}
    <2> HIDE DEF used
    <2>1. DOMAIN more = {1, 2} /\ more[1] = code /\ more[2] = policy
      OBVIOUS
    <2> HIDE DEF more
    <2> QED BY <2>1
  <1>4. /\ kept \in Seq(Member)
        /\ \A j \in 1..m : kept[j].name \notin names
        /\ \A i \in 1..Len(entries) : entries[i].name \notin names =>
               \E j \in 1..m : kept[j] = entries[i]
        /\ \A j, l \in 1..m : kept[j].name = kept[l].name => j = l
    <2> HIDE DEF names
    <2> QED BY WithoutFacts
  <1>5. result = kept \o more
    BY DEF InjectBase, AppendZipEntries
  <1> HIDE DEF used, kept, names, result, code, policy
  <1>6. /\ m \in Nat /\ DOMAIN result = 1..(m + 2)
        /\ \A j \in 1..m : result[j] = kept[j]
        /\ result[m + 1] = code /\ result[m + 2] = policy
    <2> DEFINE U == Member \cup {code, policy}
    <2>1. kept \in Seq(U) /\ more \in Seq(U)
      <3>1. kept \in Seq(U)
        BY <1>4
      <3>2. code \in U /\ policy \in U
        OBVIOUS
      <3> HIDE DEF U
      <3> QED BY <3>1, <3>2
    <2>2. Len(more) = 2 /\ more[1] = code /\ more[2] = policy
      OBVIOUS
    <2> HIDE DEF U, more
    <2>3. m \in Nat /\ Len(result) = m + 2 /\ result \in Seq(U)
      <3>1. m \in Nat
        BY <2>1 DEF m
      <3>2. Len(result) = Len(kept) + Len(more) /\ result \in Seq(U)
        BY <1>5, <2>1
      <3> QED BY <2>2, <3>1, <3>2 DEF m
    <2>4. DOMAIN result = 1..(m + 2)
      BY <2>3
    <2>5. \A j \in 1..m : result[j] = kept[j]
      BY <1>5, <2>1, <2>2, <2>3
    <2>6. result[m + 1] = more[1] /\ result[m + 2] = more[2]
      BY <1>5, <2>1, <2>2, <2>3
    <2> QED BY <2>2, <2>3, <2>4, <2>5, <2>6
  <1> HIDE DEF m
  <1>7. Dex(NextDex(used)) # Policy /\ \A d \in used : Dex(d) \notin names
    BY <1>2, <1>3 DEF Dex, Policy
  <1>8. code.name = Dex(NextDex(used)) /\ policy.name = Policy
    BY DEF code, policy
  <1>9. ASSUME NEW d \in used PROVE [name |-> Dex(d), new |-> FALSE] \in Range(result)
    <2>1. PICK i \in 1..Len(entries) : entries[i].name[1] = "classes" /\ entries[i].name[2] = d
      BY DEF used, UsedDex, Range
    <2>2. entries[i] \in Member
      OBVIOUS
    <2>3. entries[i] = [name |-> Dex(d), new |-> FALSE]
      <3> DEFINE x == entries[i]
      <3>1. x.name \in STRING \X (0..(Dexes - 2)) /\ x = [name |-> x.name, new |-> x.new] /\ x.new = FALSE
        BY <2>2 DEF Member
      <3>2. x.name = <<x.name[1], x.name[2]>>
        BY <3>1
      <3> HIDE DEF x
      <3>3. x.name = Dex(d)
        BY <2>1, <3>2 DEF Dex, x
      <3> QED BY <3>1, <3>3 DEF x
    <2>4. entries[i].name = Dex(d)
      BY <2>3
    <2>5. PICK j \in 1..m : kept[j] = entries[i]
      BY <1>4, <1>7, <2>4
    <2>6. j \in DOMAIN result /\ result[j] = entries[i]
      BY <1>6, <2>5
    <2> QED BY <2>3, <2>6 DEF Range
  <1>10. ASSUME NEW i \in DOMAIN result, NEW j \in DOMAIN result,
                result[i].name = result[j].name
         PROVE  i = j
    <2>1. /\ i \in 1..m \/ i = m + 1 \/ i = m + 2
          /\ j \in 1..m \/ j = m + 1 \/ j = m + 2
      BY <1>6
    <2>2. \A k \in 1..m : result[k].name # Dex(NextDex(used)) /\ result[k].name # Policy
      BY <1>3, <1>4, <1>6
    <2>3. result[m + 1].name = Dex(NextDex(used)) /\ result[m + 2].name = Policy
      BY <1>6, <1>8
    <2>4. i \in 1..m /\ j \in 1..m => i = j
      BY <1>4, <1>6, <1>10
    <2> QED BY <1>7, <1>10, <2>1, <2>2, <2>3, <2>4
  <1>11. code \in Range(result)
    <2>1. m + 1 \in DOMAIN result
      BY <1>6
    <2> QED BY <1>6, <2>1 DEF Range
  <1> QED BY <1>9, <1>10, <1>11 DEF used, result, code

\* Injection replaces no code of the game, leaves one entry per name, and its
\* code is loaded, for any number of members with any names and dex numbers
\* below 2^32 - 1.
THEOREM InjectionAlwaysKeepsCode == Spec => []InjectionKeepsCode
  <1>1. Init => InjectionKeepsCode
    BY DEF Init, InjectionKeepsCode, After
  <1>2. WellFormed(in) /\ InjectionKeepsCode /\ [Next]_vars => InjectionKeepsCode'
    <2> SUFFICES ASSUME WellFormed(in), InjectionKeepsCode, [Next]_vars, After("dex")'
                 PROVE  InjectionKeepsCode'
      BY DEF InjectionKeepsCode
    <2>1. CASE UNCHANGED vars
      BY <2>1 DEF vars, InjectionKeepsCode, After
    <2>2. CASE InjectCode /\ in.kind = "dex" /\ in' = in
      <3> DEFINE used == UsedDex(in.entries)
                 result == InjectBase(in.entries)
      <3>1. out' = result
        BY <2>2 DEF InjectCode, Result
      <3>2. /\ in.entries \in Seq(Member)
            /\ \A i, j \in DOMAIN in.entries : in.entries[i].name = in.entries[j].name => i = j
        BY <2>2 DEF WellFormed
      <3>3. /\ \A d \in used : [name |-> Dex(d), new |-> FALSE] \in Range(result)
            /\ \A i, j \in DOMAIN result : result[i].name = result[j].name => i = j
            /\ [name |-> Dex(NextDex(used)), new |-> TRUE] \in Range(result)
        BY <3>2, InjectionFacts
      <3>4. used = 1..Cardinality(used) /\ used # {} => NextDex(used) = Cardinality(used) + 1
        <4>1. used \subseteq 0..(Dexes - 2)
          BY <3>2, UsedBounded
        <4> HIDE DEF used
        <4> QED BY <4>1, NextDexFacts
      <3> HIDE DEF result
      <3> QED BY <2>2, <3>1, <3>3, <3>4 DEF InjectionKeepsCode
    <2> QED BY <2>1, <2>2, OneCall DEF After
  <1> QED BY <1>1, <1>2, InputsKept, PTL DEF Spec

-----------------------------------------------------------------------------
(* The splits of an output.                                                *)

\* What is archived, and what validate_output_xapk expects.
LEMMA AcceptedBase ==
  ASSUME NEW splits \in Seq(SplitName), NEW second \in Seq(SplitName),
         OutputAccepted(splits, second)
  PROVE  {i \in DOMAIN splits : IsBase(splits[i])} = {BaseName(splits)}
  <1> DEFINE all == splits \o second
             b == BaseName(splits)
             I == {i \in 1..Len(splits) : splits[i] # Abi /\ splits[i] # "assets"}
  <1>1. I # {} /\ b = Min(I)
    BY DEF OutputAccepted, BaseName, SelectInSeq
  <1>2. b \in I
    <2>1. I \subseteq Nat
      OBVIOUS
    <2> HIDE DEF I
    <2> QED BY <1>1, <2>1, MinIsIn
  <1>3. /\ b \in DOMAIN splits /\ splits[b] # "assets"
        /\ DOMAIN splits \subseteq DOMAIN all
        /\ \A i \in DOMAIN splits : all[i] = splits[i]
    BY <1>2
  <1>4. /\ \A i, j \in DOMAIN all : OutputName(all[i]) = OutputName(all[j]) => i = j
        /\ {OutputName(all[i]) : i \in DOMAIN all}
             = {IF i = b THEN "application" ELSE all[i] : i \in DOMAIN all}
    BY DEF OutputAccepted, ValidateOutput, BuildXapk, IsInjective, Range
  <1> HIDE DEF all, b, I
  <1>5. IsBase(all[b])
    <2> SUFFICES ASSUME ~IsBase(all[b]) PROVE FALSE
      OBVIOUS
    <2>1. OutputName(all[b]) = all[b] /\ all[b] \in Config
      BY <1>3 DEF OutputName, IsBase
    <2>2. PICK i \in DOMAIN all : OutputName(all[b]) = IF i = b THEN "application" ELSE all[i]
      BY <1>3, <1>4
    <2>3. i # b /\ all[i] = all[b]
      BY <2>1, <2>2, SplitAssumption
    <2> QED BY <1>3, <1>4, <2>3
  <1>6. \A i \in DOMAIN all : IsBase(all[i]) => i = b
    BY <1>3, <1>4, <1>5 DEF OutputName
  <1> QED BY <1>3, <1>5, <1>6 DEF b

\* One base, assets and ABI splits are accepted.
LEMMA UsualAccepted ==
  ASSUME NEW splits \in Seq(SplitName), NEW second \in Seq(SplitName),
         IsInjective(splits \o second),
         Cardinality({i \in DOMAIN splits : IsBase(splits[i])}) = 1,
         Range(splits) \cap Config \subseteq {Abi}, Range(second) \subseteq Config
  PROVE  OutputAccepted(splits, second)
  <1> DEFINE all == splits \o second
             B == {i \in DOMAIN splits : IsBase(splits[i])}
             I == {i \in 1..Len(splits) : splits[i] # Abi /\ splits[i] # "assets"}
  <1>1. IsFiniteSet(B)
    <2>1. Len(splits) \in Nat /\ B \subseteq 1..Len(splits)
      OBVIOUS
    <2>2. IsFiniteSet(1..Len(splits))
      BY <2>1, FS_Interval
    <2> HIDE DEF B
    <2> QED BY <2>1, <2>2, FS_Subset
  <1>2. PICK b : B = {b}
    <2> HIDE DEF B
    <2>1. Cardinality(B) = 1
      BY DEF B
    <2> QED BY <1>1, <2>1, FS_Singleton
  <1>3. I = {b}
    BY <1>2, SplitAssumption DEF IsBase, Range
  <1>4. BaseName(splits) = b
    <2>1. BaseName(splits) = Min(I)
      BY <1>3 DEF BaseName, SelectInSeq
    <2>2. I \subseteq Nat
      OBVIOUS
    <2> HIDE DEF I
    <2> QED BY <1>3, <2>1, <2>2, MinIsIn
  <1>5. /\ b \in DOMAIN all /\ b # 0 /\ IsBase(all[b])
        /\ \A i \in DOMAIN all : IsBase(all[i]) => i = b
    <2>1. b \in DOMAIN splits /\ b # 0 /\ all[b] = splits[b] /\ b \in DOMAIN all
      BY <1>2
    <2>2. ASSUME NEW i \in DOMAIN all, IsBase(all[i]) PROVE i = b
      <3>1. CASE i \in DOMAIN splits
        BY <1>2, <2>2, <3>1
      <3>2. CASE i \notin DOMAIN splits
        <4>1. i - Len(splits) \in DOMAIN second /\ all[i] = second[i - Len(splits)]
          BY <3>2
        <4> QED BY <2>2, <4>1 DEF IsBase, Range
      <3> QED BY <3>1, <3>2
    <2> QED BY <1>2, <2>1, <2>2
  <1>6. \A i, j \in DOMAIN all : all[i] = all[j] => i = j
    BY DEF IsInjective
  <1> HIDE DEF all, B, I
  <1>7. \A i \in DOMAIN all : /\ i = b => OutputName(all[i]) = "application"
                              /\ i # b => /\ OutputName(all[i]) = all[i]
                                          /\ all[i] # "application"
    BY <1>5, SplitAssumption DEF OutputName, IsBase
  <1>8. BuildXapk(all) = [i \in DOMAIN all |-> OutputName(all[i])]
    BY DEF BuildXapk
  <1>9. ValidateOutput(all, b)
    BY <1>6, <1>7, <1>8 DEF ValidateOutput, IsInjective, Range
  <1> QED BY <1>4, <1>5, <1>9 DEF OutputAccepted, all

\* run, build_xapk and validate_output_xapk mean the same base split, and a
\* package of one base, assets and ABI splits is not refused.
THEOREM BaseAlwaysOne == Spec => []OneBase
  <1>1. Init => OneBase
    BY DEF Init, OneBase, After
  <1>2. WellFormed(in) /\ OneBase /\ [Next]_vars => OneBase'
    <2> SUFFICES ASSUME WellFormed(in), OneBase, [Next]_vars, After("output")'
                 PROVE  OneBase'
      BY DEF OneBase
    <2>1. CASE UNCHANGED vars
      BY <2>1 DEF vars, OneBase, After
    <2>2. CASE BuildPackage /\ in.kind = "output" /\ in' = in
      <3>1. PICK s \in Seq(SplitName), x \in Seq(SplitName) :
              s = in.splits /\ x = in.second /\ IsInjective(s \o x)
        BY <2>2 DEF WellFormed
      <3>2. out' # {} <=> OutputAccepted(s, x)
        BY <2>2, <3>1 DEF BuildPackage, Result
      <3> QED BY <2>2, <3>1, <3>2, AcceptedBase, UsualAccepted DEF OneBase
    <2> QED BY <2>1, <2>2, OneCall DEF After
  <1> QED BY <1>1, <1>2, InputsKept, PTL DEF Spec

-----------------------------------------------------------------------------
(* Bucket::take and the Retry-After it announces.                          *)

\* Rounding a quotient up covers the dividend.
LEMMA RoundUp ==
  ASSUME NEW m \in Nat \ {0}, NEW c \in Nat \ {0}
  PROVE  /\ (m + c - 1) \div c \in Nat
         /\ ((m + c - 1) \div c) * c >= m
  <1> DEFINE a == m + c - 1
  <1>1. a \in Nat
    OBVIOUS
  <1> HIDE DEF a
  <1>2. a \div c \in Nat /\ a < c * (a \div c) + c
    BY <1>1
  <1>3. c * (a \div c) = (a \div c) * c
    BY <1>2
  <1>4. (a \div c) * c + c > m + c - 1
    BY <1>2, <1>3 DEF a
  <1> QED
    BY <1>2, <1>4 DEF a

\* What a refused client is told is a whole number of seconds.
LEMMA AnnouncedNat ==
  ASSUME NEW b \in [units : Nat, updated : Nat], NEW cap \in Nat \ {0},
         NEW period \in Nat \ {0}, NEW t \in Nat, ~CanTake(b, cap, period, t)
  PROVE  /\ Refilled(b, cap, period, t) \in Nat /\ Refilled(b, cap, period, t) < period
         /\ RetryAfter(b, cap, period, t) \in Nat
  <1>1. Refilled(b, cap, period, t) \in Nat /\ Refilled(b, cap, period, t) < period
    <2>1. Elapsed(t, b.updated) \in Nat
      BY DEF Elapsed
    <2>2. Elapsed(t, b.updated) * cap \in Nat /\ cap * period \in Nat
      BY <2>1
    <2> QED
      BY <2>2 DEF CanTake, Refilled
  <1> DEFINE m == period - Refilled(b, cap, period, t)
  <1>2. m \in Nat \ {0}
    BY <1>1
  <1> HIDE DEF m
  <1>3. (m + cap - 1) \div cap \in Nat
    BY <1>2, RoundUp
  <1> QED
    BY <1>1, <1>3 DEF RetryAfter, m

\* Retry-After is sound advice: a caller refused at t that waits the seconds
\* it was told to, with no take in between, finds a whole token, provided the
\* bucket can hold one.
LEMMA WaitingPays ==
  ASSUME NEW b \in [units : Nat, updated : Nat], NEW cap \in Nat \ {0}, NEW period \in Nat \ {0},
         NEW t \in Nat, NEW later \in Nat,
         ~CanTake(b, cap, period, t),
         later >= t + RetryAfter(b, cap, period, t)
  PROVE  CanTake(Take(b, cap, period, t), cap, period, later)
  <1> DEFINE u == Refilled(b, cap, period, t)
             missing == period - u
             wait == (missing + cap - 1) \div cap
  <1>1. u \in Nat /\ u < period
    BY AnnouncedNat
  <1>2. Take(b, cap, period, t) = [units |-> u, updated |-> t]
    BY <1>1 DEF Take
  <1>3. wait \in Nat /\ wait * cap >= missing
    <2>1. missing \in Nat \ {0}
      BY <1>1
    <2> HIDE DEF missing
    <2> QED
      BY <2>1, RoundUp
  <1> HIDE DEF wait
  <1>4. PICK d \in Nat : later = t + d /\ d >= wait
    <2>1. RetryAfter(b, cap, period, t) = IF wait < 1 THEN 1 ELSE wait
      BY DEF RetryAfter, wait
    <2>2. later - t \in Nat /\ later - t >= wait
      BY <2>1, <1>3
    <2> QED
      BY <2>2
  <1>5. d * cap >= missing /\ d * cap \in Nat
    <2>1. d * cap >= wait * cap
      BY <1>3, <1>4
    <2> QED
      BY <2>1, <1>3, <1>4, <1>1
  <1>6. Elapsed(later, t) = d
    BY <1>4 DEF Elapsed
  <1>7. cap * period >= period
    OBVIOUS
  <1>8. u + d * cap >= period
    BY <1>5, <1>1
  <1>9. Refilled([units |-> u, updated |-> t], cap, period, later)
          = IF u + d * cap < cap * period THEN u + d * cap ELSE cap * period
    BY <1>6 DEF Refilled
  <1> QED
    BY <1>2, <1>7, <1>8, <1>9, <1>1, <1>5 DEF CanTake

\* A client that waits the announced Retry-After finds a whole token, whatever
\* the bucket held, the rate and the clock.
THEOREM RetryAfterSuffices == Spec => []WaitSuffices
  <1>1. Init => WaitSuffices
    BY DEF Init, WaitSuffices, After
  <1>2. WellFormed(in) /\ WaitSuffices /\ [Next]_vars => WaitSuffices'
    <2> SUFFICES ASSUME WellFormed(in), WaitSuffices, [Next]_vars, After("bucket")'
                 PROVE  WaitSuffices'
      BY DEF WaitSuffices
    <2>1. CASE UNCHANGED vars
      BY <2>1 DEF vars, WaitSuffices, After
    <2>2. CASE TakeToken /\ in.kind = "bucket" /\ in' = in
      <3>1. PICK b, cap, period, t : /\ b = in.bucket /\ cap = in.cap
                                     /\ period = in.period /\ t = in.now
        OBVIOUS
      <3>2. /\ b \in [units : Nat, updated : Nat] /\ t \in Nat
            /\ cap \in Nat \ {0} /\ period \in Nat \ {0}
        BY <2>2, <3>1 DEF WellFormed
      <3>3. out' = Take(b, cap, period, t)
        BY <2>2, <3>1 DEF TakeToken, Result
      <3>4. ASSUME ~CanTake(b, cap, period, t)
            PROVE  CanTake(out', cap, period, t + RetryAfter(b, cap, period, t))
        <4>1. RetryAfter(b, cap, period, t) \in Nat
          BY <3>2, <3>4, AnnouncedNat
        <4> QED BY <3>2, <3>3, <3>4, <4>1, WaitingPays
      <3> QED BY <2>2, <3>1, <3>4 DEF WaitSuffices
    <2> QED BY <2>1, <2>2, OneCall DEF After
  <1> QED BY <1>1, <1>2, InputsKept, PTL DEF Spec

=============================================================================
