------------------------------ MODULE MCChecks ------------------------------
(* Bounded inputs for every algorithm of Checks.                           *)
EXTENDS Checks

Num == 0..(Wide - 1)
File(size, table, entry, count, programs) ==
    [size |-> size, table |-> table, entry |-> entry, count |-> count, programs |-> programs]
Program == [kind : {"load", "note"}, executable : BOOLEAN, offset : {0, 1, Wide - 1},
            address : {0, 2, Wide - 3}, size : {1, 3, Wide - 1}]
Code == [kind |-> "load", executable |-> TRUE, offset |-> 2, address |-> 3, size |-> 2]
Loaded == {File(s, 0, MinEntry, 1, p) :
            s \in {4, Wide - 1}, p \in {<<q>> : q \in Program} \cup {<<q, Code>> : q \in Program}}

Gnu == [name |-> 3, desc |-> 1, gnu |-> TRUE]
Notes == [size : {0, 12, 15, 16, 20, 28, 32, MaxNote + 1},
          headers : [1..2 -> {h \in [name : {0, 3, 4, Usize - 5, Usize - 1}, desc : {0, 1, 4, Usize - 2}, gnu : BOOLEAN] :
                                h.gnu => h.name >= 3}]]

Entries == [name : {<<"base">>, <<".", "base">>, <<"d", "base">>, <<"..", "base">>,
                    <<"", "icon">>, <<"d", "..", "native">>, <<"native">>, <<"a\\b">>, <<"icon">>,
                    <<"d", "", "icon">>, <<"base", "">>, <<"base", ".">>, <<"">>},
            original : BOOLEAN, size : {1, 3, 4}]
BaseEntries(used) == SetToSeq({[name |-> Dex(n), new |-> FALSE] : n \in used})
                        \o <<[name |-> Policy, new |-> FALSE]>>

Hosts == {Ip(p, h, m) : p \in Place, h \in {1, 2}, m \in BOOLEAN}
Nets == {Exact(Ip(p, 1, FALSE)) : p \in Place}
            \cup {[place |-> "public", hosts |-> {1, 2}, exact |-> FALSE]}
Values == {<< >>, <<NoIp>>, <<Ip("public", 2, TRUE)>>, <<Ip("loopback", 1, FALSE)>>,
           <<Ip("public", 1, FALSE), Ip("public", 2, FALSE)>>}
Headers == [{"cf-connecting-ip", "x-real-ip"} -> Values]
SecurityConfig ==
    [origin : BOOLEAN, required : BOOLEAN, lan : BOOLEAN, listen : Place \cup {"any"},
     header : {"cf-connecting-ip", "x-real-ip"}, trusted : {n \in SUBSET Nets : Cardinality(n) <= 2}]

MCInputs == [
    table |-> [kind : {"table"}, file : {File(s, t, e, c, << >>) :
                s \in Num, t \in Num, e \in Num, c \in 0..(MaxPrograms + 1)}],
    rva |-> [kind : {"rva"}, file : Loaded, rva : Num, len : {2}],
    strings |-> [kind : {"strings"}, file : Loaded, address : Num, size : {0, 1, 3, Wide - 1}],
    note |-> [kind : {"note"}, segments : {<<s>> : s \in Notes}
                  \cup {<<s, t>> : s, t \in {s \in Notes : s.headers[2] = Gnu /\ s.size >= 20}}],
    archive |-> [kind : {"archive"}, archive :
                    [pinned : BOOLEAN, entries : UNION {[1..n -> Entries] : n \in 1..3}]],
    dex |-> {[kind |-> "dex", entries |-> BaseEntries(d)] : d \in SUBSET (1..4)},
    output |-> {[kind |-> "output", splits |-> s, second |-> x] : x \in {<< >>, <<"armv7">>},
                    s \in UNION {{q \in [1..n -> SplitName \ {"armv7"}] : IsInjective(q)} : n \in 1..4}},
    update |-> [kind : {"update"}, installed : [configured : 0..3, compiled : 0..3,
                    wanted : {{}} \cup {{w} : w \in 0..(MaxRevision + 1)}],
                compiled : 1..4, later : 1..(MaxRevision + 1)],
    visitor |-> {i \in [kind : {"visitor"}, config : SecurityConfig, peer : Hosts,
                    headers : {h @@ ("x-ggfm-gateway-key" :> << >>) : h \in Headers},
                    nominated : {{}, {"cf-connecting-ip"}}] : Reaches(i.config, i.peer)},
    route |-> [kind : {"route"}, active : 1..2, keeps : {{}, {1}, {2}, {3}}, legacy : {{}, {1}},
               path : {"page", "patch", "download", "prove"}, issuer : 1..3],
    bucket |-> {i \in [kind : {"bucket"}, bucket : [units : 0..9, updated : 0..2], cap : 1..4,
                    period : 1..4, now : 0..4] : i.bucket.units <= i.cap * i.period}]
=============================================================================
