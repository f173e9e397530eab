------------------------------ MODULE Pipeline ------------------------------
(***************************************************************************)
(* Pipeline::run of patcher-core: one original package is checked,         *)
(* unpacked, rewritten split by split with external tools, signed,         *)
(* inspected and put in place.  Several runs go on at the same time: the   *)
(* command-line tool takes no lock, so two of them may have one output     *)
(* path, and the files a run reads may be replaced while it works.         *)
(*                                                                         *)
(* An APK is abstracted to the four things that are checked about it: the  *)
(* original it was made from, the identity in its manifest, what was       *)
(* injected and who signed it.  A check that fails, an I/O error, an       *)
(* exceeded quota and a tool that exits with an error all end the run the  *)
(* same way (Fails).                                                       *)
(***************************************************************************)
EXTENDS Naturals, Sequences

CONSTANTS
    Run,            \* calls of Pipeline::run
    Target,         \* output paths
    Universal,      \* the runs with additional_native: a second ABI split
    Signer,         \* signing keys
    None,
    MaxFaults       \* bound on replaced, damaged and lost files

ASSUME PipelineAssumption ==
    /\ Universal \subseteq Run
    /\ None \notin Signer \cup Run
    /\ MaxFaults \in Nat

VARIABLES
    phase,      \* how far each run has come
    at,         \* the split its loop is at
    tool,       \* whether a tool of it is running
    plan,       \* signer and output path of its plan
    apks,       \* the splits in its workspace: extracted, then rebuilt, then signed
    input,      \* its operator's files: the package and the second ABI split
    parts,      \* the patch artifacts of the primary and of the second ABI
    touched,    \* history: inputs replaced between their check and their use
    disk,       \* what it has on disk besides the output
    published,  \* the package at each output path
    keystore,   \* the key in the keystore
    faults

runVars == <<phase, at, tool, plan, apks, disk, published>>
inputVars == <<input, parts, touched>>
pipelineVars == <<runVars, inputVars, keystore, faults>>

\* "similar" has the game's native library, metadata and tables, and differs
\* elsewhere: the checks of the unpacked payloads do not notice it.
Content == {"pinned", "similar", "other"}
Part == {"primary", "extra"}
Manifest == {"original", "planned", "damaged"}
Payload == {"none", "declared", "other", "lost"}

Order(r) == IF r \in Universal THEN <<"base", "assets", "native", "extra">>
                               ELSE <<"base", "assets", "native">>
Splits(r) == {Order(r)[i] : i \in DOMAIN Order(r)}

Apk == [bytes : Content, manifest : Manifest, payload : Payload,
        signer : Signer \cup {None}]
Original(c) ==
    [bytes |-> c, manifest |-> "original", payload |-> "none", signer |-> None]

Ended == {"done", "failed", "dead"}
Phase == {"new", "planned", "checked", "verified", "extracted", "hashed",
          "rebuilding", "tables", "injecting", "signing", "signed", "copying",
          "persisting", "returning"} \cup Ended
Active(r) == phase[r] \notin {"new"} \cup Ended
ToolPhase == {"rebuilding", "tables", "signing"}

PipelineInit ==
    /\ phase = [r \in Run |-> "new"]
    /\ at = [r \in Run |-> 1]
    /\ tool = [r \in Run |-> FALSE]
    /\ plan = [r \in Run |-> None]
    /\ apks = [r \in Run |-> << >>]
    /\ input = [r \in Run |-> [xapk |-> "pinned", split |-> "pinned"]]
    /\ parts = [p \in Part |-> "declared"]
    /\ touched = [r \in Run |-> {}]
    /\ disk = [r \in Run |-> {}]
    /\ published = [t \in Target |-> [by |-> None, apks |-> << >>]]
    /\ faults = 0

\* There is a file at an output path: whose, and what.
Exists(t) == published[t].by # None
Author(t) == published[t].by
Package(t) == published[t].apks

Goto(r, p) == phase' = [phase EXCEPT ![r] = p]

\* A file is replaced, damaged or lost.
Fault == faults < MaxFaults /\ faults' = faults + 1

-----------------------------------------------------------------------------
\* The caller verifies the package and makes the plan: build_or_reuse and the
\* command-line tool do the same.
Plan(r, s, t) ==
    /\ phase[r] = "new"
    /\ input[r].xapk = "pinned"
    /\ plan' = [plan EXCEPT ![r] = [signer |-> s, target |-> t]]
    /\ Goto(r, "planned")
    /\ UNCHANGED <<at, tool, apks, disk, published, inputVars, keystore, faults>>

\* validate_artifacts: every artifact has the declared hash, policy and ABI.
ArtifactsDeclared == parts["primary"] = "declared"

\* There is no output yet, the keystore is there, and the artifacts are right.
CheckArtifacts(r) ==
    /\ phase[r] = "planned"
    /\ ~Exists(plan[r].target)
    /\ ArtifactsDeclared
    /\ keystore # None
    /\ Goto(r, "checked")
    /\ UNCHANGED <<at, tool, plan, apks, disk, published, inputVars, keystore, faults>>

\* Mutant: the caller's verification is trusted.
CheckSourceBlind(r) ==
    /\ phase[r] = "checked"
    /\ disk' = [disk EXCEPT ![r] = {"workspace"}]
    /\ Goto(r, "verified")
    /\ UNCHANGED <<at, tool, plan, apks, published, inputVars, keystore, faults>>

\* The package is verified once more, and the workspace is created.
CheckSource(r) ==
    /\ phase[r] = "checked"
    /\ input[r].xapk = "pinned"
    /\ disk' = [disk EXCEPT ![r] = {"workspace"}]
    /\ Goto(r, "verified")
    /\ UNCHANGED <<at, tool, plan, apks, published, inputVars, keystore, faults>>

\* verify_embedded_payloads: hash, build id and prologues of the game's library
\* and the hash of its metadata, in what was unpacked.
EmbeddedPayloads(content) == content # "other"

\* The package is read a third time, unpacked, and its payloads are checked.
Extract(r) ==
    /\ phase[r] = "verified"
    /\ EmbeddedPayloads(input[r].xapk)
    /\ apks' = [apks EXCEPT ![r] =
                [s \in {"base", "assets", "native"} |-> Original(input[r].xapk)]]
    /\ Goto(r, IF r \in Universal THEN "extracted" ELSE "rebuilding")
    /\ UNCHANGED <<at, tool, plan, disk, published, inputVars, keystore, faults>>

\* NativeSupplement::stage: the second split and its artifacts are hashed ...
StageCheck(r) ==
    /\ phase[r] = "extracted"
    /\ input[r].split = "pinned"
    /\ parts["extra"] = "declared"
    /\ Goto(r, "hashed")
    /\ UNCHANGED <<at, tool, plan, apks, disk, published, inputVars, keystore, faults>>

\* ... and the split is copied; the copy is hashed again.
StageCopy(r) ==
    /\ phase[r] = "hashed"
    /\ input[r].split = "pinned"
    /\ apks' = [apks EXCEPT ![r] = [s \in Splits(r) |->
                    IF s = "extra" THEN Original(input[r].split) ELSE @[s]]]
    /\ Goto(r, "rebuilding")
    /\ UNCHANGED <<at, tool, plan, disk, published, inputVars, keystore, faults>>

Stage(r) == StageCheck(r) \/ StageCopy(r)

-----------------------------------------------------------------------------
\* run_checked and run_capture_checked: a tool is started, and
Launch(r) ==
    /\ phase[r] \in ToolPhase /\ ~tool[r]
    /\ tool' = [tool EXCEPT ![r] = TRUE]
    /\ UNCHANGED <<phase, at, plan, apks, disk, published, inputVars, keystore, faults>>

\* the tools of one turn of a loop, or of the tables, have all succeeded.
ToolsDone(r) == tool[r] /\ tool' = [tool EXCEPT ![r] = FALSE]

\* On to the next split, or out of the loop.
NextSplit(r, p) ==
    LET last == at[r] = Len(Order(r))
    IN /\ at' = [at EXCEPT ![r] = IF last THEN 1 ELSE @ + 1]
       /\ Goto(r, IF last THEN p ELSE phase[r])

\* validate_transformed_manifest: the original's identity is gone.
TransformedManifest(m) == m # "original"

\* Decode, transform and check the manifest, and compile it again.  What the
\* compiler makes of a manifest that was right is only seen after signing.
Rebuild(r) ==
    /\ phase[r] = "rebuilding"
    /\ ToolsDone(r)
    /\ \E m \in {m \in Manifest : TransformedManifest(m)} :
        /\ apks' = [apks EXCEPT ![r][Order(r)[at[r]]].manifest = m]
        /\ IF m = "damaged" THEN Fault ELSE UNCHANGED faults
    /\ NextSplit(r, "tables")
    /\ UNCHANGED <<plan, disk, published, inputVars, keystore>>

\* The tables are rewritten by the policy and put into the assets split.
Tables(r) ==
    /\ phase[r] = "tables"
    /\ ToolsDone(r)
    /\ apks' = [apks EXCEPT ![r]["assets"].payload = parts["primary"]]
    /\ Goto(r, "injecting")
    /\ UNCHANGED <<at, plan, disk, published, inputVars, keystore, faults>>

\* Bootstrap, policy and server go into the base and the native splits.
Inject(r) ==
    /\ phase[r] = "injecting"
    /\ apks' = [apks EXCEPT ![r] = [s \in Splits(r) |->
            CASE s = "assets" -> @[s]
              [] s = "extra" -> [@[s] EXCEPT !.payload = parts["extra"]]
              [] OTHER -> [@[s] EXCEPT !.payload = parts["primary"]]]]
    /\ Goto(r, "signing")
    /\ UNCHANGED <<at, tool, plan, disk, published, inputVars, keystore, faults>>

\* One split is aligned and signed with the key that is in the keystore now;
\* alignment may lose members.
Signed(r, kept) ==
    LET s == Order(r)[at[r]]
    IN [apks EXCEPT ![r][s].signer = keystore,
                    ![r][s].payload = IF kept THEN @ ELSE "lost"]

\* apk_signer_fingerprint: the certificate is the planned one.
SignerPlanned(r) == keystore \in Signer /\ keystore = plan[r].signer

\* validate_signed_manifest
SignedManifest(apk) == apk.manifest = "planned"

\* The signature, its certificate and the manifest of the signed split are
\* verified.
Sign(r) ==
    /\ phase[r] = "signing"
    /\ ToolsDone(r)
    /\ SignerPlanned(r)
    /\ SignedManifest(apks[r][Order(r)[at[r]]])
    /\ \E kept \in BOOLEAN :
        /\ apks' = Signed(r, kept)
        /\ IF kept THEN UNCHANGED faults ELSE Fault
    /\ NextSplit(r, "signed")
    /\ UNCHANGED <<plan, disk, published, inputVars, keystore>>

\* Mutant: the signed splits are not looked into.
ReviewBlind(r) ==
    /\ phase[r] = "signed"
    /\ Goto(r, "copying")
    /\ UNCHANGED <<at, tool, plan, apks, disk, published, inputVars, keystore, faults>>

\* validate_injected_payloads and validate_zip_entries
InjectedPayloads(apk) == apk.payload \notin {"none", "lost"}

\* The injected members are looked for in the signed splits, the package is
\* built from them, and its list of splits is compared.
Review(r) ==
    /\ phase[r] = "signed"
    /\ \A s \in Splits(r) : InjectedPayloads(apks[r][s])
    /\ Goto(r, "copying")
    /\ UNCHANGED <<at, tool, plan, apks, disk, published, inputVars, keystore, faults>>

\* publish_noclobber: copy to a temporary file beside the output ...
Copy(r) ==
    /\ phase[r] = "copying"
    /\ disk' = [disk EXCEPT ![r] = @ \cup {"temporary"}]
    /\ Goto(r, "persisting")
    /\ UNCHANGED <<at, tool, plan, apks, published, inputVars, keystore, faults>>

\* Mutant: an existing output is replaced.
PersistOver(r) ==
    /\ phase[r] = "persisting"
    /\ published' = [published EXCEPT ![plan[r].target] =
                        [by |-> r, apks |-> apks[r]]]
    /\ disk' = [disk EXCEPT ![r] = {"workspace"}]
    /\ apks' = [apks EXCEPT ![r] = << >>]
    /\ Goto(r, "returning")
    /\ UNCHANGED <<at, tool, plan, inputVars, keystore, faults>>

\* ... and give it the output's name, if that is free.
Persist(r) ==
    /\ phase[r] = "persisting"
    /\ ~Exists(plan[r].target)
    /\ published' = [published EXCEPT ![plan[r].target] =
                        [by |-> r, apks |-> apks[r]]]
    /\ disk' = [disk EXCEPT ![r] = {"workspace"}]
    /\ apks' = [apks EXCEPT ![r] = << >>]
    /\ Goto(r, "returning")
    /\ UNCHANGED <<at, tool, plan, inputVars, keystore, faults>>

\* Mutant: an error path keeps the workspace.
GiveUpLittering(r) ==
    /\ Active(r) /\ phase[r] # "returning"
    /\ tool' = [tool EXCEPT ![r] = FALSE]
    /\ apks' = [apks EXCEPT ![r] = << >>]
    /\ at' = [at EXCEPT ![r] = 1]
    /\ Goto(r, "failed")
    /\ UNCHANGED <<plan, disk, published, inputVars, keystore, faults>>

\* The run returns, which drops the workspace.
Return(r) ==
    /\ phase[r] = "returning"
    /\ disk' = [disk EXCEPT ![r] = {}]
    /\ Goto(r, "done")
    /\ UNCHANGED <<at, tool, plan, apks, published, inputVars, keystore, faults>>

\* The run returns an error: workspace and temporary file are dropped.
GiveUp(r) ==
    /\ Active(r) /\ phase[r] # "returning"
    /\ tool' = [tool EXCEPT ![r] = FALSE]
    /\ disk' = [disk EXCEPT ![r] = {}]
    /\ apks' = [apks EXCEPT ![r] = << >>]
    /\ at' = [at EXCEPT ![r] = 1]
    /\ Goto(r, "failed")
    /\ UNCHANGED <<plan, published, inputVars, keystore, faults>>

Fails(r) == GiveUp(r)

\* Mutant: tools have no deadline.
TimeoutNever(r) == FALSE

\* wait_for_child kills a tool that does not end.
Timeout(r) == tool[r] /\ GiveUp(r)

-----------------------------------------------------------------------------
\* What the process does by itself, and what it waits for a tool to do.
OwnStep(r) ==
    \/ CheckArtifacts(r) \/ CheckSource(r) \/ Extract(r) \/ Stage(r)
    \/ Launch(r) \/ Inject(r) \/ Review(r) \/ Copy(r) \/ Persist(r)
    \/ Return(r)
    \/ (~tool[r] /\ Fails(r))
ToolStep(r) == Rebuild(r) \/ Tables(r) \/ Sign(r) \/ (tool[r] /\ Fails(r))

RunStep(r) == OwnStep(r) \/ ToolStep(r) \/ Timeout(r)

\* Somebody replaces an input.  The windows are the phases between the last
\* check of it and its last use.
Window(k) ==
    CASE k = "xapk" -> {"verified"}
      [] k = "primary" -> {"checked", "verified", "extracted", "hashed",
                           "rebuilding", "tables", "injecting"}
      [] k = "extra" -> {"hashed", "rebuilding", "tables", "injecting"}

Touch(R, k) ==
    touched' = [r \in Run |-> IF r \in R /\ phase[r] \in Window(k)
                              THEN touched[r] \cup {k} ELSE touched[r]]

\* What is read for the last time is not worth replacing any more.
Unread == {"new", "planned", "checked", "verified", "extracted", "hashed"}

ReplaceInput(r) ==
    /\ Fault
    /\ \E c \in {"similar", "other"} :
        \/ /\ input[r].xapk = "pinned"
           /\ phase[r] \in Unread \ {"extracted", "hashed"}
           /\ input' = [input EXCEPT ![r].xapk = c]
           /\ Touch({r}, "xapk")
        \/ /\ r \in Universal /\ input[r].split = "pinned"
           /\ phase[r] \in Unread
           /\ input' = [input EXCEPT ![r].split = c]
           /\ UNCHANGED touched
    /\ UNCHANGED <<runVars, parts, keystore>>

ReplacePart(p) ==
    /\ Fault
    /\ parts[p] = "declared"
    /\ parts' = [parts EXCEPT ![p] = "other"]
    /\ Touch(Run, p)
    /\ UNCHANGED <<runVars, input, keystore>>

Replacement == (\E r \in Run : ReplaceInput(r)) \/ (\E p \in Part : ReplacePart(p))

\* The process dies: nothing is cleaned up, and nobody reads it again.
RunsDie ==
    /\ phase' = [r \in Run |-> IF Active(r) THEN "dead" ELSE phase[r]]
    /\ tool' = [r \in Run |-> FALSE]
    /\ at' = [r \in Run |-> 1]
    /\ apks' = [r \in Run |-> << >>]
    /\ UNCHANGED <<plan, disk, published>>

-----------------------------------------------------------------------------
PipelineTypeOK ==
    /\ phase \in [Run -> Phase]
    /\ at \in [Run -> 1..4]
    /\ tool \in [Run -> BOOLEAN]
    /\ \A r \in Run :
        /\ plan[r] # None => plan[r].signer \in Signer /\ plan[r].target \in Target
        /\ \A s \in DOMAIN apks[r] : s \in Splits(r) /\ apks[r][s] \in Apk
        /\ disk[r] \subseteq {"workspace", "temporary"}
    /\ input \in [Run -> [xapk : Content, split : Content]]
    /\ parts \in [Part -> {"declared", "other"}]
    /\ faults \in 0..MaxFaults

\* A published package has every split of its plan, each with the planned
\* identity, the planned signer and its injected members, although tools may
\* damage what they rewrite and the keystore may be exchanged between splits.
PublishedIsValid ==
    \A t \in Target : Exists(t) =>
        LET r == Author(t)
        IN /\ DOMAIN Package(t) = Splits(r)
           /\ \A s \in Splits(r) :
                /\ Package(t)[s].manifest = "planned"
                /\ Package(t)[s].signer = plan[r].signer
                /\ Package(t)[s].payload \in {"declared", "other"}

\* A published package was made from the pinned original and the declared
\* artifacts, unless one was replaced just between its check and its use; the
\* second ABI split has no such moment, because its copy is hashed.
PublishedIsVerified ==
    \A t \in Target : Exists(t) =>
        LET r == Author(t)
        IN \A s \in Splits(r) :
            /\ \/ Package(t)[s].bytes = "pinned"
               \/ s # "extra" /\ "xapk" \in touched[r]
            /\ \/ Package(t)[s].payload = "declared"
               \/ s # "extra" /\ "primary" \in touched[r]
               \/ s = "extra" /\ "extra" \in touched[r]

\* A run that reports success finds its own package at its output path, also
\* when another run was to write to the same path.
SuccessIsOwn ==
    \A r \in Run : phase[r] \in {"returning", "done"} =>
        Author(plan[r].target) = r

\* What a run leaves behind is nothing but its output; only a process that was
\* killed leaves a workspace or a temporary file.
OnlyCrashesLitter == \A r \in Run : disk[r] # {} => Active(r) \/ phase[r] = "dead"

\* Every run ends, also when a tool hangs.
RunsEnd == \A r \in Run : Active(r) ~> phase[r] \in Ended
=============================================================================
