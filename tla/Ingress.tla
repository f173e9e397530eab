------------------------------- MODULE Ingress -------------------------------
(***************************************************************************)
(* Who a visitor is and which worker a request goes to: the configuration  *)
(* checks and client_ip of security.rs, forward and worker_guard of        *)
(* gateway.rs, and the configuration run_managed.py gives a worker.        *)
(*                                                                         *)
(* An address has a place ("loopback", "private" or "public"), a host, and *)
(* a form, for an IPv4 address may arrive mapped into IPv6; the loopback   *)
(* host 1 is the tunnel's connector.  A trusted network is one address or  *)
(* several addresses of a place.                                           *)
(***************************************************************************)
EXTENDS Integers, Sequences, FiniteSets

CONSTANT NoIp       \* a header that does not parse

Place == {"loopback", "private", "public"}
Address == [place : Place, host : Nat, mapped : BOOLEAN]
Network == [place : Place, hosts : SUBSET Nat, exact : BOOLEAN]

ASSUME NoIpAssumption == NoIp \notin Address

Ip(place, host, mapped) == [place |-> place, host |-> host, mapped |-> mapped]
Canonical(ip) == [ip EXCEPT !.mapped = FALSE]
Exact(ip) == [place |-> ip.place, hosts |-> {ip.host}, exact |-> TRUE]
NetHolds(net, ip) == ip.place = net.place /\ ip.host \in net.hosts

\* Security::new, what it demands of the proxies.
SecurityNew(c) == c.required => c.trusted # {}

LocalConnector(net) == net = Exact(Ip("loopback", 1, FALSE))
PrivatePeer(net) == net.exact /\ net.place = "private"

\* Mutant: proxies are not looked at.
ValidateListenLax(c) == c.lan \/ c.listen = "loopback"

\* Security::validate_listen: `listen' is a place, or "any".
ValidateListen(c) ==
    IF c.lan
    THEN /\ c.origin /\ c.required /\ c.header = "cf-connecting-ip"
         /\ \E net \in c.trusted : PrivatePeer(net)
         /\ \A net \in c.trusted : LocalConnector(net) \/ PrivatePeer(net)
         /\ c.listen \in {"loopback", "any", "private"}
    ELSE /\ c.listen = "loopback"
         /\ c.origin => /\ c.required /\ c.header = "cf-connecting-ip"
                        /\ c.trusted # {}
                        /\ \A net \in c.trusted : LocalConnector(net)

\* Which peers can connect at all.
Reaches(c, peer) ==
    CASE c.listen = "loopback" -> peer.place = "loopback"
      [] OTHER -> TRUE

\* client_ip: the visitor's address as an option.  A request has a function
\* from header names to sequences of values.
ClientIp(c, peer, headers) ==
    LET values == headers[c.header]
    IN  IF ~\E net \in c.trusted : NetHolds(net, Canonical(peer))
        THEN IF c.required THEN {} ELSE {Canonical(peer)}
        ELSE IF Len(values) # 1 THEN {}
             ELSE {Canonical(ip) : ip \in {values[1]} \ {NoIp}}

-----------------------------------------------------------------------------
\* forward: hop-by-hop headers, and those the client nominated as such, are
\* removed; then the gateway puts in the visitor and its key.
Cleaned(headers, nominated) ==
    [h \in DOMAIN headers |->
        IF h \in nominated \cup {"x-ggfm-gateway-key"} THEN << >> ELSE headers[h]]

\* Mutant: headers are cleaned after the gateway's are in.
ForwardedCleanedLast(headers, nominated, visitor, key) ==
    Cleaned([headers EXCEPT !["cf-connecting-ip"] = <<visitor>>,
                            !["x-ggfm-gateway-key"] = <<key>>], nominated)

Forwarded(headers, nominated, visitor, key) ==
    [Cleaned(headers, nominated) EXCEPT !["cf-connecting-ip"] = <<visitor>>,
                                        !["x-ggfm-gateway-key"] = <<key>>]

\* worker_guard
WorkerGuard(peer, headers, key) ==
    peer.place = "loopback" /\ headers["x-ggfm-gateway-key"] = <<key>>

\* BlueGreen.backend
Backend(c) ==
    [c EXCEPT !.listen = "loopback", !.required = TRUE, !.lan = FALSE,
              !.trusted = {Exact(Ip("loopback", 1, FALSE))},
              !.header = "cf-connecting-ip"]

\* The visitor the worker sees for a request that came through the gateway.
Behind(c, visitor, headers, nominated, key) ==
    LET sent == Forwarded(headers, nominated, visitor, key)
        peer == Ip("loopback", 1, FALSE)
    IN  IF WorkerGuard(peer, sent, key) THEN ClientIp(Backend(c), peer, sent) ELSE {}

-----------------------------------------------------------------------------
\* publish: the active worker and, while it is kept, the one before it; a
\* legacy worker is named as long as it is one of the two.
Routes(active, kept, legacy) ==
    [active |-> active, targets |-> {active} \cup kept,
     legacy |-> legacy \cap ({active} \cup kept)]

\* A worker that knows its route revision tags its tokens with it; tag and
\* token_revision are options.
TagToken(worker, legacy) == IF worker \in legacy THEN {} ELSE {worker}

\* forward's choice of the worker; the empty set is an error response.
Continuation(path) == path \in {"download", "prove"}

\* Mutant: a token of a worker that is gone goes to the active one.
SelectedActive(routes, path, tag) ==
    LET chosen == IF tag # {} THEN tag ELSE routes.legacy
    IN  IF Continuation(path) /\ chosen \cap routes.targets # {} THEN chosen
        ELSE {routes.active}

Selected(routes, path, tag) ==
    LET chosen == IF Continuation(path)
                  THEN IF tag # {} THEN tag ELSE routes.legacy
                  ELSE {routes.active}
    IN  IF path = "patch" /\ chosen = routes.legacy THEN {}
        ELSE chosen \cap routes.targets
=============================================================================
