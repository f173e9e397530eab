------------------------------- MODULE Package -------------------------------
(***************************************************************************)
(* What patcher-core accepts as an archive and what it makes of one:       *)
(* verify_xapk and extract_xapk for the original package, next_dex_name    *)
(* and append_zip_entries for the base split, and build_xapk against       *)
(* validate_output_xapk for the result.                                    *)
(***************************************************************************)
EXTENDS Integers, FiniteSets, Sequences, SequencesExt, FiniteSetsExt

CONSTANTS
    Expected,       \* the splits of the manifest, by file name
    ApkFile,        \* file names that end in .apk
    MaxEntries, MaxEntryBytes, MaxExpandedBytes,
    Dexes           \* 2^32, the width of a dex number

ASSUME PackageAssumption ==
    /\ Expected \subseteq ApkFile
    /\ ApkFile \subseteq STRING \ {"", ".", ".."}
    /\ MaxExpandedBytes \in Nat
    /\ Dexes \in Nat /\ Dexes > 2

\* An entry's name is the sequence of what stands between its slashes: a file
\* or directory name, "." and "..", or "" before a leading, between two and
\* after a last slash.  "a\\b" stands for a name with a drive or a backslash.
FileName(name) == Last(name)
IsDir(name) == Len(name) > 1 /\ Last(name) = ""
Absolute(name) == Len(name) > 1 /\ Head(name) = ""

\* is_safe_relative
SafeRelative(name) ==
    ~Absolute(name) /\ \A i \in DOMAIN name : name[i] \notin {"..", "a\\b"}

\* Where the name leads from the destination; going up from it leads outside.
Outside == <<"..">>
Walk(path, part) ==
    IF path = Outside \/ part \in {"", "."} THEN path
    ELSE IF part # ".." THEN Append(path, part)
         ELSE IF path = << >> THEN Outside ELSE Front(path)
WalkAlong(name) ==
    LET path[k \in 0..Len(name)] ==
            IF k = 0 THEN << >> ELSE Walk(path[k - 1], name[k])
    IN  path
Resolved(name) == IF Absolute(name) THEN Outside ELSE WalkAlong(name)[Len(name)]

\* verify_xapk: the entries in turn; the first that is refused ends it.  The
\* size after each of the entries:
Expanded(entries) ==
    LET sum[k \in 0..Len(entries)] ==
            IF k = 0 THEN 0 ELSE sum[k - 1] + entries[k].size
    IN  sum

\* Mutant: only entries with the plain name of a split are hashed.
KnownSplitLenient(e) ==
    FileName(e.name) \in Expected /\ Len(e.name) = 1 => e.original

KnownSplit(e) ==
    FileName(e.name) \in ApkFile => e.name \in {<<x>> : x \in Expected} /\ e.original

VerifyXapk(a) ==
    /\ a.pinned
    /\ Len(a.entries) <= MaxEntries
    /\ \A i \in DOMAIN a.entries :
        LET e == a.entries[i]
        IN /\ SafeRelative(e.name)
           /\ \A j \in 1..(i - 1) : a.entries[j].name # e.name
           /\ e.size <= MaxEntryBytes
           /\ Expanded(a.entries)[i] <= MaxExpandedBytes
           /\ KnownSplit(e)
    /\ \A x \in Expected : \E i \in DOMAIN a.entries : a.entries[i].name = <<x>>

\* A file cannot be created under a name that is empty or ends in ".", where a
\* directory is, or below a file.
Creatable(name, paths) ==
    /\ FileName(name) \notin {"", "."}
    /\ \A p \in paths : ~IsStrictPrefix(p, Resolved(name)) /\ ~IsStrictPrefix(Resolved(name), p)

\* extract_xapk writes the files in turn: the last one for a path stays.
ExtractXapk(a) ==
    LET files == {i \in DOMAIN a.entries : ~IsDir(a.entries[i].name)}
        path == [i \in files |-> Resolved(a.entries[i].name)]
        paths == {path[i] : i \in files}
    IN  IF \A i \in files : Creatable(a.entries[i].name, paths)
        THEN {[p \in paths |-> a.entries[Max({i \in files : path[i] = p})]]}
        ELSE {}

-----------------------------------------------------------------------------
\* A base split's code: classes.dex is number 1, classes<n>.dex number n.
Dex(n) == <<"classes", n>>
Policy == <<"policy.json", 0>>
UsedDex(entries) == {e.name[2] : e \in {x \in Range(entries) : x.name[1] = "classes"}}

\* Mutant: the number of dex files is taken for the last number.
NextDexByCount(used) == Cardinality(used) + 1

NextDex(used) == ((IF used = {} THEN 1 ELSE Max(used)) + 1) % Dexes

\* append_zip_entries: an addition replaces the entry of the same name.
Without(entries, names) ==
    LET kept[k \in 0..Len(entries)] ==
            IF k = 0 THEN << >>
            ELSE IF entries[k].name \in names THEN kept[k - 1]
                 ELSE Append(kept[k - 1], entries[k])
    IN  kept

AppendZipEntries(entries, additions) ==
    Without(entries, {additions[i].name : i \in DOMAIN additions})[Len(entries)] \o additions

\* The injection into the base: the next dex and the policy.
InjectBase(entries) ==
    AppendZipEntries(entries, <<[name |-> Dex(NextDex(UsedDex(entries))), new |-> TRUE],
                                [name |-> Policy, new |-> TRUE]>>)

-----------------------------------------------------------------------------
\* Splits of an output: `abi' names those with native libraries, "assets" is
\* base_assets.apk, and every other name that starts with config. is one of
\* Config.
CONSTANTS SplitName, Config, Abi

ASSUME SplitAssumption ==
    /\ Abi \in Config /\ Config \subseteq SplitName
    /\ "application" \notin Config /\ "assets" \notin Config

\* run's choice of the base, and build_xapk's.
BaseName(splits) == SelectInSeq(splits, LAMBDA s : s # Abi /\ s # "assets")
IsBase(s) == s \notin Config /\ s # "assets"

OutputName(s) == IF IsBase(s) THEN "application" ELSE s

\* build_xapk archives and lists every split under its output name; a second
\* entry of one name is refused by the archive writer.
BuildXapk(splits) == [i \in DOMAIN splits |-> OutputName(splits[i])]

\* Mutant: splits are counted, not compared.
ValidateOutputCount(splits, base) == Len(BuildXapk(splits)) = Len(splits)

\* validate_output_xapk renames the base the pipeline worked with.
ValidateOutput(splits, base) ==
    LET expected == {IF i = base THEN "application" ELSE splits[i] : i \in DOMAIN splits}
    IN  /\ IsInjective(BuildXapk(splits))
        /\ Range(BuildXapk(splits)) = expected

\* The base is chosen among the original splits; a second ABI comes last.
OutputAccepted(original, second) ==
    /\ BaseName(original) # 0
    /\ ValidateOutput(original \o second, BaseName(original))
=============================================================================
