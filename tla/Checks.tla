------------------------------- MODULE Checks -------------------------------
(***************************************************************************)
(* The algorithms of Elf, Package, Release, Ingress and TokenBucket, each  *)
(* applied to one input.  The code computes every result in one call; here *)
(* a step takes an input of the instance and leaves the result.            *)
(***************************************************************************)
EXTENDS Elf, Package, Release, Ingress, TokenBucket

CONSTANT Inputs     \* the inputs of the instance, for every algorithm

\* What the callers guarantee of an input: numbers of the width the code gives
\* them, one member of a
\* split for each name, dex numbers below the last one, splits with a file name each, releases that carry a
\* revision, headers and networks that parsed, and at most one legacy worker.
U64     == 0..(Wide - 1)
Segment == [kind : STRING, executable : BOOLEAN, offset : U64, address : U64, size : U64]
Library == [size : U64, table : U64, entry : U64, count : U64, programs : Seq(Segment)]
Header  == [name : 0..(Usize - 1), desc : 0..(Usize - 1), gnu : BOOLEAN]
NoteSegment == [size : Nat, headers : Seq(Header)]
Entry   == [name : Seq(STRING) \ {<< >>}, original : BOOLEAN, size : Nat]
Member  == [name : STRING \X (0..(Dexes - 2)), new : {FALSE}]
Setting == [origin : BOOLEAN, required : BOOLEAN, lan : BOOLEAN, listen : STRING,
            header : STRING, trusted : SUBSET Network]

WellFormed(x) ==
    /\ x.kind \in {"table", "rva", "strings"} => x.file \in Library
    /\ x.kind = "rva" => x.rva \in U64 /\ x.len \in U64
    /\ x.kind = "strings" => x.address \in U64 /\ x.size \in U64
    /\ x.kind = "note" => x.segments \in Seq(NoteSegment)
    /\ x.kind = "archive" => x.archive.entries \in Seq(Entry)
    /\ x.kind = "dex" =>
        /\ x.entries \in Seq(Member)
        /\ \A i, j \in DOMAIN x.entries : x.entries[i].name = x.entries[j].name => i = j
    /\ x.kind = "output" =>
        /\ x.splits \in Seq(SplitName) /\ x.second \in Seq(SplitName)
        /\ IsInjective(x.splits \o x.second)
    /\ x.kind = "update" =>
        /\ x.installed.configured \in Nat /\ x.installed.compiled \in Nat
        /\ x.installed.wanted \subseteq Nat /\ \A v, w \in x.installed.wanted : v = w
        /\ x.compiled \in Nat \ {0} /\ x.later \in Nat \ {0}
    /\ x.kind = "visitor" =>
        /\ x.config \in Setting /\ x.peer \in Address
        /\ \A n \in x.config.trusted : n.exact => \E h \in n.hosts : n.hosts = {h}
        /\ x.headers \in [DOMAIN x.headers -> Seq(Address \cup {NoIp})]
        /\ {x.config.header, "cf-connecting-ip", "x-ggfm-gateway-key"} \subseteq DOMAIN x.headers
    /\ x.kind = "route" => \A v, w \in x.legacy : v = w
    /\ x.kind = "bucket" =>
        /\ x.bucket \in [units : Nat, updated : Nat] /\ x.now \in Nat
        /\ x.cap \in Nat \ {0} /\ x.period \in Nat \ {0}

ASSUME InputsAssumption == \A k \in DOMAIN Inputs : \A x \in Inputs[k] : WellFormed(x)

VARIABLES in, out, done

vars == <<in, out, done>>

Init ==
    /\ \E k \in DOMAIN Inputs : in \in Inputs[k]
    /\ out = {}
    /\ done = FALSE

Result(k, result) ==
    /\ ~done /\ in.kind = k
    /\ out' = result
    /\ done' = TRUE
    /\ UNCHANGED in

ReadHeaders == Result("table", {HeaderReads(in.file) : x \in {x \in {1} : ElfPrograms(in.file)}})
LocateHook == Result("rva", RvaToFileOffset(in.file, in.rva, in.len))
LocateStrings == Result("strings", StringTable(in.file, in.address, in.size))
FindBuildId == Result("note", GnuBuildId(in.segments))
VerifyPackage == Result("archive", UNION {ExtractXapk(a) : a \in {a \in {in.archive} : VerifyXapk(a)}})
InjectCode == Result("dex", InjectBase(in.entries))
BuildPackage == Result("output", {BuildXapk(s \o in.second) : s \in {s \in {in.splits} : OutputAccepted(s, in.second)}})
UpdateTwice ==
    Result("update", LET first == Staged(in.installed, in.compiled)
                     IN  [first |-> first,
                          second |-> UNION {Staged(c, in.later) : c \in first}])
ResolveVisitor ==
    Result("visitor", LET seen == ClientIp(in.config, in.peer, in.headers)
                      IN  [seen |-> seen,
                           behind |-> UNION {Behind(in.config, v, in.headers, in.nominated, "key") : v \in seen}])
RouteRequest ==
    Result("route", Selected(Routes(in.active, in.keeps, in.legacy), in.path,
                             TagToken(in.issuer, in.legacy)))
TakeToken ==
    Result("bucket", Take(in.bucket, in.cap, in.period, in.now))

Next ==
    \/ ReadHeaders \/ LocateHook \/ LocateStrings \/ FindBuildId
    \/ VerifyPackage \/ InjectCode \/ BuildPackage \/ UpdateTwice
    \/ ResolveVisitor \/ RouteRequest \/ TakeToken

Spec == Init /\ [][Next]_vars

After(k) == done /\ in.kind = k

-----------------------------------------------------------------------------
\* A segment that backs a range, and one whose end overflows.
Backs(p, rva, len) == Executable(p) /\ p.address <= rva /\ rva + len <= p.address + p.size
Overflows(p) == Executable(p) /\ p.address + p.size >= Wide

\* What is read out of a native library lies inside the file, although every
\* offset, size and count comes from the file and may overflow: the program
\* headers; the dynamic string table; and a hook, which is read where an
\* executable segment has it, and is refused only if none has it or an end
\* overflows.
ElfReadsInside ==
    /\ After("table") =>
        \A reads \in out : \A r \in reads : r.from + r.size <= in.file.size
    /\ After("strings") => \A o \in out : o + in.size <= in.file.size
    /\ After("rva") =>
        LET P == {in.file.programs[i] : i \in DOMAIN in.file.programs}
            A == {p \in P : Backs(p, in.rva, in.len)}
        IN  /\ \A o \in out :
                /\ o + in.len <= in.file.size
                /\ \E p \in A : o = p.offset + in.rva - p.address
            /\ out = {} => \/ A = {} \/ ~ElfPrograms(in.file)
                           \/ in.rva + in.len >= Wide
                           \/ \E p \in P : Overflows(p)

Exactly(n) == 4 * ((n + 3) \div 4)
NoteLength(h) == NoteHeader + Exactly(h.name) + Exactly(h.desc)
NoteEnd(headers) ==
    LET end[k \in 0..Len(headers)] ==
            IF k = 0 THEN 0 ELSE end[k - 1] + NoteLength(headers[k])
    IN  end

\* The descriptor of the first GNU note of a segment, if that and all notes
\* before it lie inside the segment.
IdOf(s) ==
    LET i == SelectInSeq(s.headers, LAMBDA h : h.gnu)
        from == NoteEnd(s.headers)[i - 1] + NoteHeader + Exactly(s.headers[i].name)
    IN  IF i # 0 /\ NoteEnd(s.headers)[i] <= s.size
        THEN {[from |-> from, to |-> from + s.headers[i].desc]}
        ELSE {}

\* The id of the first segment that has one; none up to there is oversized.
FirstId(segments) ==
    {o \in [segment : DOMAIN segments, id : UNION {IdOf(segments[k]) : k \in DOMAIN segments}] :
        /\ o.id \in IdOf(segments[o.segment])
        /\ \A j \in 1..o.segment : segments[j].size <= MaxNote
        /\ \A j \in 1..(o.segment - 1) : IdOf(segments[j]) = {}}

\* The build id of a library is that of its first note segment that has one,
\* whatever sizes the headers claim; an oversized segment before it is an error.
BuildIdFound == After("note") => out = FirstId(in.segments)

\* A verified package unpacks to exactly the expected splits with the expected
\* contents, whatever other names lead to their files, stays inside the
\* workspace and within the limits.
UnpacksAsVerified ==
    After("archive") =>
        \A files \in out :
            /\ Outside \notin DOMAIN files
            /\ {p \in DOMAIN files : FileName(p) \in ApkFile} = {<<x>> : x \in Expected}
            /\ \A x \in Expected : files[<<x>>].original
            /\ Expanded(in.archive.entries)[Len(in.archive.entries)] <= MaxExpandedBytes

\* Injection replaces no code of the game, leaves one entry per name, and the
\* new code follows a gapless numbering without a gap, so that it is loaded.
InjectionKeepsCode ==
    After("dex") =>
        LET used == UsedDex(in.entries)
        IN  /\ \A n \in used : [name |-> Dex(n), new |-> FALSE] \in Range(out)
            /\ \A i, j \in DOMAIN out : out[i].name = out[j].name => i = j
            /\ used = 1..Cardinality(used) /\ used # {} =>
                [name |-> Dex(Cardinality(used) + 1), new |-> TRUE] \in Range(out)

\* An output is accepted only if build_xapk's base is the one the pipeline
\* worked with, and is always accepted for one base, assets and ABI splits.
OneBase ==
    After("output") =>
        LET bases == {i \in DOMAIN in.splits : IsBase(in.splits[i])}
            usual == /\ Cardinality(bases) = 1 /\ Range(in.splits) \cap Config \subseteq {Abi}
                     /\ Range(in.second) \subseteq Config
        IN  /\ out # {} => bases = {BaseName(in.splits)}
            /\ usual => out # {}

\* An allocated revision is accepted by the worker it is for, and each update
\* has a version code above the installed one and within Android's limit.
UpdatesInstall ==
    After("update") =>
        LET chain == <<{in.installed}, out.first, out.second>>
        IN  \A i \in 1..2 : \A old \in chain[i], new \in chain[i + 1] :
                /\ Serving(new) = new.wanted
                /\ \A v \in Serving(old), w \in Serving(new) :
                    VersionCode(v) < VersionCode(w) /\ w <= MaxRevision

\* With a public origin, and a configuration the server starts with, only the
\* tunnel's connector and a named private proxy can say who the visitor is.
OnlyProxiesSpeak ==
    After("visitor") =>
        LET c == in.config
        IN  c.origin /\ SecurityNew(c) /\ ValidateListen(c) /\ Reaches(c, in.peer) =>
            \A v \in out.seen :
                \/ v = Canonical(in.peer)
                \/ in.peer.place = "loopback" /\ in.peer.host = 1
                \/ c.lan /\ Exact(Canonical(in.peer)) \in c.trusted

\* The worker behind the gateway admits the same visitor as the gateway,
\* whatever headers the client sent or nominated for removal.
SameVisitor == After("visitor") => out.behind = out.seen

\* A ticket reaches the worker that issued it, or nobody if that is gone, and
\* never another worker; an upload never starts on a legacy worker.
RoutedToIssuer ==
    After("route") =>
        LET targets == {in.active} \cup in.keeps
        IN  IF Continuation(in.path) THEN out = {in.issuer} \cap targets
            ELSE IF in.path = "patch" /\ in.active \in in.legacy THEN out = {}
                 ELSE out = {in.active}

\* A refused client that waits the announced time finds a token.
WaitSuffices ==
    After("bucket") /\ ~CanTake(in.bucket, in.cap, in.period, in.now) =>
        LET wait == RetryAfter(in.bucket, in.cap, in.period, in.now)
        IN  CanTake(out, in.cap, in.period, in.now + wait)
=============================================================================
