---------------------------- MODULE PipelineProofs ----------------------------
(***************************************************************************)
(* Theorems about pipeline runs in a deployment (Pipeline and Signing),    *)
(* for any number of runs, output paths, keys and faults.                  *)
(***************************************************************************)
EXTENDS Signing, TLAPS

Working == {"rebuilding", "tables", "injecting", "signing", "signed", "copying",
            "persisting"}
Reviewed == {"copying", "persisting"}

\* A split that has passed the checks after signing.
Good(r, s) == apks[r][s].manifest = "planned" /\ apks[r][s].signer = plan[r].signer

\* What the checks have established, by the phase of a run.
RunSound(r) ==
    /\ phase[r] # "new" => plan[r].target \in Target
    /\ phase[r] \in {"extracted", "hashed"} =>
        r \in Universal /\ apks[r] \in [{"base", "assets", "native"} -> Apk]
    /\ phase[r] \in Working => apks[r] \in [Splits(r) -> Apk]
    /\ at[r] \in 1..Len(Order(r))
    /\ phase[r] \notin {"rebuilding", "signing"} => at[r] = 1
    /\ phase[r] = "signing" => \A i \in 1..(at[r] - 1) : Good(r, Order(r)[i])
    /\ phase[r] \in {"signed"} \cup Reviewed => \A s \in Splits(r) : Good(r, s)
    /\ phase[r] \in Reviewed =>
        \A s \in Splits(r) : apks[r][s].payload \in {"declared", "other"}
    /\ phase[r] \in {"returning", "done"} => Author(plan[r].target) = r
    /\ disk[r] # {} => Active(r) \/ phase[r] = "dead"

\* A package at an output path, and the run that put it there.
PackageSound(t) ==
    Exists(t) =>
        /\ Author(t) \in Run
        /\ phase[Author(t)] # "new"
        /\ DOMAIN Package(t) = Splits(Author(t))
        /\ \A s \in Splits(Author(t)) :
            /\ Package(t)[s].manifest = "planned"
            /\ Package(t)[s].signer = plan[Author(t)].signer
            /\ Package(t)[s].payload \in {"declared", "other"}

Types ==
    /\ phase \in [Run -> Phase]
    /\ at \in [Run -> Nat]
    /\ DOMAIN plan = Run
    /\ DOMAIN apks = Run
    /\ DOMAIN disk = Run
    /\ DOMAIN published = Target
    /\ input \in [Run -> [xapk : Content, split : Content]]
    /\ parts \in [Part -> {"declared", "other"}]

IInv ==
    /\ Types
    /\ \A r \in Run : RunSound(r)
    /\ \A t \in Target : PackageSound(t)

\* The loops over the splits reach every split, and nothing else.
LEMMA OrderFacts ==
  ASSUME NEW r
  PROVE  /\ Len(Order(r)) \in Nat /\ 1 <= Len(Order(r))
         /\ \A i \in 1..Len(Order(r)) : Order(r)[i] \in Splits(r)
         /\ \A s \in Splits(r) : \E i \in 1..Len(Order(r)) : s = Order(r)[i]
         /\ Splits(r) = {"base", "assets", "native"}
                            \cup IF r \in Universal THEN {"extra"} ELSE {}
  <1>1. CASE r \in Universal
    <2>1. Order(r) = <<"base", "assets", "native", "extra">>
      BY <1>1 DEF Order
    <2>2. Len(Order(r)) = 4 /\ DOMAIN Order(r) = 1..4
      BY <2>1
    <2> QED BY <1>1, <2>1, <2>2 DEF Splits
  <1>2. CASE r \notin Universal
    <2>1. Order(r) = <<"base", "assets", "native">>
      BY <1>2 DEF Order
    <2>2. Len(Order(r)) = 3 /\ DOMAIN Order(r) = 1..3
      BY <2>1
    <2> QED BY <1>2, <2>1, <2>2 DEF Splits
  <1> QED BY <1>1, <1>2

\* A step of one run that publishes nothing.
LEMMA OneRun ==
  ASSUME IInv, NEW r \in Run, Types', RunSound(r)',
         published' = published,
         plan'[r] = plan[r] \/ phase[r] = "new",
         phase'[r] # "new",
         \A q \in Run \ {r} : /\ phase'[q] = phase[q] /\ at'[q] = at[q]
                              /\ plan'[q] = plan[q] /\ apks'[q] = apks[q]
                              /\ disk'[q] = disk[q]
  PROVE  IInv'
  <1>1. ASSUME NEW q \in Run PROVE RunSound(q)'
    <2>1. CASE q = r
      BY <2>1
    <2>2. CASE q # r
      BY <2>2 DEF IInv, RunSound, Good, Active, Author
    <2> QED BY <2>1, <2>2
  <1>2. ASSUME NEW t \in Target PROVE PackageSound(t)'
    BY DEF IInv, PackageSound, Exists, Author, Package
  <1> QED BY <1>1, <1>2 DEF IInv

\* A step in which no run takes part.
LEMMA NoRun ==
  ASSUME IInv, UNCHANGED runVars,
         input' \in [Run -> [xapk : Content, split : Content]],
         parts' \in [Part -> {"declared", "other"}]
  PROVE  IInv'
  <1>1. UNCHANGED <<phase, at, plan, apks, disk, published>>
    BY DEF runVars
  <1> QED BY <1>1 DEF IInv, Types, RunSound, Good, Active, Author, PackageSound,
                      Exists, Package

\* The steps that only go on to the next phase.
LEMMA Advances ==
  ASSUME IInv, NEW r \in Run, NEW p \in Phase,
         Goto(r, p), phase[r] # "new", p # "new",
         UNCHANGED <<at, plan, apks, published, inputVars>>,
         DOMAIN disk' = Run,
         \A q \in Run \ {r} : disk'[q] = disk[q],
         RunSound(r)'
  PROVE  IInv'
  <1>1. Types'
    BY DEF IInv, Types, Goto, inputVars
  <1>2. \A q \in Run \ {r} : phase'[q] = phase[q]
    BY DEF IInv, Types, Goto
  <1>3. phase'[r] = p
    BY DEF IInv, Types, Goto
  <1> QED BY <1>1, <1>2, <1>3, OneRun

\* One lemma per step of a run: the invariant is kept.
LEMMA CheckArtifactsKeeps ==
  ASSUME IInv, NEW r \in Run, CheckArtifacts(r)
  PROVE  IInv'
  <1>1. RunSound(r) /\ Types
    BY DEF IInv
  <1>2. phase'[r] = "checked" /\ "checked" \in Phase
    BY <1>1 DEF CheckArtifacts, Goto, Types, Phase, Ended
  <1>3. RunSound(r)'
    BY <1>1, <1>2 DEF CheckArtifacts, RunSound, Active, Ended, Working, Reviewed
  <1> QED BY <1>2, <1>3, Advances DEF IInv, Types, CheckArtifacts

LEMMA CheckSourceKeeps ==
  ASSUME IInv, NEW r \in Run, CheckSource(r)
  PROVE  IInv'
  <1>1. RunSound(r) /\ Types
    BY DEF IInv
  <1>2. phase'[r] = "verified" /\ "verified" \in Phase
    BY <1>1 DEF CheckSource, Goto, Types, Phase, Ended
  <1>3. RunSound(r)'
    BY <1>1, <1>2 DEF CheckSource, RunSound, Active, Ended, Working, Reviewed
  <1> QED BY <1>2, <1>3, Advances DEF IInv, Types, CheckSource

LEMMA StageCheckKeeps ==
  ASSUME IInv, NEW r \in Run, StageCheck(r)
  PROVE  IInv'
  <1>1. RunSound(r) /\ Types
    BY DEF IInv
  <1>2. phase'[r] = "hashed" /\ "hashed" \in Phase
    BY <1>1 DEF StageCheck, Goto, Types, Phase, Ended
  <1>3. RunSound(r)'
    BY <1>1, <1>2 DEF StageCheck, RunSound, Active, Ended, Working, Reviewed
  <1> QED BY <1>2, <1>3, Advances DEF IInv, Types, StageCheck

LEMMA ReviewKeeps ==
  ASSUME IInv, NEW r \in Run, Review(r)
  PROVE  IInv'
  <1>1. RunSound(r) /\ Types
    BY DEF IInv
  <1>2. phase'[r] = "copying" /\ "copying" \in Phase
    BY <1>1 DEF Review, Goto, Types, Phase, Ended
  <1>3. RunSound(r)'
    <2>1. \A s \in Splits(r) : apks[r][s].payload \in {"declared", "other"}
      BY <1>1 DEF Review, InjectedPayloads, RunSound, Working, Apk, Payload
    <2> QED BY <1>1, <1>2, <2>1
        DEF Review, RunSound, Good, Active, Ended, Working, Reviewed
  <1> QED BY <1>2, <1>3, Advances DEF IInv, Types, Review

LEMMA CopyKeeps ==
  ASSUME IInv, NEW r \in Run, Copy(r)
  PROVE  IInv'
  <1>1. RunSound(r) /\ Types
    BY DEF IInv
  <1>2. phase'[r] = "persisting" /\ "persisting" \in Phase
    BY <1>1 DEF Copy, Goto, Types, Phase, Ended
  <1>3. RunSound(r)'
    BY <1>1, <1>2 DEF Copy, RunSound, Good, Active, Ended, Working, Reviewed
  <1> QED BY <1>2, <1>3, Advances DEF IInv, Types, Copy

LEMMA ReturnKeeps ==
  ASSUME IInv, NEW r \in Run, Return(r)
  PROVE  IInv'
  <1>1. RunSound(r) /\ Types
    BY DEF IInv
  <1>2. phase'[r] = "done" /\ "done" \in Phase
    BY <1>1 DEF Return, Goto, Types, Phase, Ended
  <1>3. RunSound(r)'
    BY <1>1, <1>2 DEF Return, RunSound, Active, Ended, Working, Reviewed, Types, Author
  <1> QED BY <1>2, <1>3, Advances DEF IInv, Types, Return

LEMMA PlanKeeps ==
  ASSUME IInv, NEW r \in Run, NEW s, NEW t \in Target, Plan(r, s, t)
  PROVE  IInv'
  <1>1. RunSound(r) /\ Types
    BY DEF IInv
  <1>2. phase'[r] = "planned" /\ plan'[r].target = t /\ phase[r] = "new"
    BY <1>1 DEF Plan, Goto, Types
  <1>3. Types'
    BY <1>1 DEF Plan, Goto, Types, Phase, inputVars
  <1>4. RunSound(r)'
    BY <1>1, <1>2 DEF Plan, RunSound, Active, Ended, Working, Reviewed
  <1>5. \A q \in Run \ {r} : phase'[q] = phase[q] /\ plan'[q] = plan[q]
    BY <1>1 DEF Plan, Goto, Types
  <1> QED BY <1>2, <1>3, <1>4, <1>5, OneRun DEF Plan

LEMMA ExtractKeeps ==
  ASSUME IInv, NEW r \in Run, Extract(r)
  PROVE  IInv'
  <1>1. RunSound(r) /\ Types
    BY DEF IInv
  <1>2. phase'[r] = IF r \in Universal THEN "extracted" ELSE "rebuilding"
    BY <1>1 DEF Extract, Goto, Types
  <1>3. Types'
    BY <1>1 DEF Extract, Goto, Types, Phase, inputVars
  <1>4. apks'[r] \in [{"base", "assets", "native"} -> Apk]
    BY <1>1 DEF Extract, Types, Original, Apk, Manifest, Payload
  <1>5. r \notin Universal => Splits(r) = {"base", "assets", "native"}
    BY OrderFacts
  <1>6. at[r] = 1
    BY <1>1 DEF Extract, RunSound
  <1>7. RunSound(r)'
    BY <1>1, <1>2, <1>4, <1>5, <1>6
       DEF Extract, RunSound, Active, Ended, Working, Reviewed
  <1>8. \A q \in Run \ {r} : phase'[q] = phase[q] /\ apks'[q] = apks[q]
    BY <1>1 DEF Extract, Goto, Types
  <1> QED BY <1>2, <1>3, <1>7, <1>8, OneRun DEF Extract

LEMMA StageCopyKeeps ==
  ASSUME IInv, NEW r \in Run, StageCopy(r)
  PROVE  IInv'
  <1>1. RunSound(r) /\ Types
    BY DEF IInv
  <1>2. phase'[r] = "rebuilding"
    BY <1>1 DEF StageCopy, Goto, Types
  <1>3. Types'
    BY <1>1 DEF StageCopy, Goto, Types, Phase, inputVars
  <1>4. Original(input[r].split) \in Apk
    BY <1>1 DEF Types, Original, Apk, Manifest, Payload
  <1>5. Splits(r) = {"base", "assets", "native", "extra"}
    BY <1>1, OrderFacts DEF StageCopy, RunSound
  <1>6. apks'[r] \in [Splits(r) -> Apk]
    BY <1>1, <1>4, <1>5 DEF StageCopy, Types, RunSound
  <1>7. RunSound(r)'
    BY <1>1, <1>2, <1>6 DEF StageCopy, RunSound, Active, Ended, Working, Reviewed
  <1>8. \A q \in Run \ {r} : phase'[q] = phase[q] /\ apks'[q] = apks[q]
    BY <1>1 DEF StageCopy, Goto, Types
  <1> QED BY <1>2, <1>3, <1>7, <1>8, OneRun DEF StageCopy

LEMMA LaunchKeeps ==
  ASSUME IInv, NEW r \in Run, Launch(r)
  PROVE  IInv'
  BY DEF Launch, IInv, Types, RunSound, Good, Active, Author, PackageSound,
         Exists, Package, inputVars

\* The loop goes on to the next split or leaves.
LEMMA NextSplitFacts ==
  ASSUME Types, NEW r \in Run, RunSound(r), NEW p \in Phase, NextSplit(r, p)
  PROVE  /\ phase' \in [Run -> Phase] /\ at' \in [Run -> Nat]
         /\ at'[r] \in 1..Len(Order(r))
         /\ \/ phase'[r] = p /\ at'[r] = 1 /\ at[r] = Len(Order(r))
            \/ phase'[r] = phase[r] /\ at'[r] = at[r] + 1
         /\ \A q \in Run \ {r} : phase'[q] = phase[q] /\ at'[q] = at[q]
  <1>1. at[r] \in 1..Len(Order(r)) /\ Len(Order(r)) \in Nat /\ 1 <= Len(Order(r))
    BY OrderFacts DEF RunSound
  <1> QED BY <1>1 DEF NextSplit, Goto, Types

LEMMA RebuildKeeps ==
  ASSUME IInv, NEW r \in Run, Rebuild(r)
  PROVE  IInv'
  <1>1. RunSound(r) /\ Types
    BY DEF IInv
  <1> DEFINE s == Order(r)[at[r]]
  <1>2. PICK m \in Manifest : apks' = [apks EXCEPT ![r][s].manifest = m]
    BY DEF Rebuild, TransformedManifest
  <1>3. s \in Splits(r) /\ apks[r] \in [Splits(r) -> Apk]
    BY <1>1, OrderFacts DEF Rebuild, RunSound, Working
  <1>4. apks'[r] \in [Splits(r) -> Apk]
    BY <1>1, <1>2, <1>3 DEF Types, Apk
  <1>5. \A q \in Run \ {r} : apks'[q] = apks[q]
    BY <1>1, <1>2 DEF Types
  <1>6. NextSplit(r, "tables") /\ "tables" \in Phase
    BY DEF Rebuild, Phase
  <1>7. Types'
    BY <1>1, <1>2, <1>6, NextSplitFacts DEF Rebuild, Types, inputVars
  <1>8. phase'[r] \in {"rebuilding", "tables"}
            /\ (phase'[r] = "tables" => at'[r] = 1)
    BY <1>1, <1>6, NextSplitFacts DEF Rebuild
  <1>9. RunSound(r)'
    BY <1>1, <1>4, <1>6, <1>8, NextSplitFacts
       DEF Rebuild, RunSound, Active, Ended, Working, Reviewed
  <1> QED BY <1>1, <1>5, <1>6, <1>7, <1>8, <1>9, NextSplitFacts, OneRun DEF Rebuild

LEMMA TablesKeeps ==
  ASSUME IInv, NEW r \in Run, Tables(r)
  PROVE  IInv'
  <1>1. RunSound(r) /\ Types
    BY DEF IInv
  <1>2. phase'[r] = "injecting"
    BY <1>1 DEF Tables, Goto, Types
  <1>3. Types'
    BY <1>1 DEF Tables, Goto, Types, Phase, inputVars
  <1>4. "assets" \in Splits(r) /\ apks[r] \in [Splits(r) -> Apk]
    BY <1>1, OrderFacts DEF Tables, RunSound, Working
  <1>5. parts["primary"] \in Payload
    BY <1>1 DEF Types, Part, Payload
  <1>6. apks'[r] \in [Splits(r) -> Apk]
    BY <1>1, <1>4, <1>5 DEF Tables, Types, Apk
  <1>7. RunSound(r)'
    BY <1>1, <1>2, <1>6 DEF Tables, RunSound, Active, Ended, Working, Reviewed
  <1>8. \A q \in Run \ {r} : phase'[q] = phase[q] /\ apks'[q] = apks[q]
    BY <1>1 DEF Tables, Goto, Types
  <1> QED BY <1>2, <1>3, <1>7, <1>8, OneRun DEF Tables

LEMMA InjectKeeps ==
  ASSUME IInv, NEW r \in Run, Inject(r)
  PROVE  IInv'
  <1>1. RunSound(r) /\ Types
    BY DEF IInv
  <1>2. phase'[r] = "signing"
    BY <1>1 DEF Inject, Goto, Types
  <1>3. Types'
    BY <1>1 DEF Inject, Goto, Types, Phase, inputVars
  <1>4. apks[r] \in [Splits(r) -> Apk]
    BY <1>1 DEF Inject, RunSound, Working
  <1>5. parts["primary"] \in Payload /\ parts["extra"] \in Payload
    BY <1>1 DEF Types, Part, Payload
  <1>6. apks'[r] \in [Splits(r) -> Apk]
    <2>1. apks'[r] = [s \in Splits(r) |->
            CASE s = "assets" -> apks[r][s]
              [] s = "extra" -> [apks[r][s] EXCEPT !.payload = parts["extra"]]
              [] OTHER -> [apks[r][s] EXCEPT !.payload = parts["primary"]]]
      BY <1>1 DEF Inject, Types
    <2>2. ASSUME NEW x \in Apk, NEW y \in Payload PROVE [x EXCEPT !.payload = y] \in Apk
      BY DEF Apk
    <2> QED BY <1>4, <1>5, <2>1, <2>2
  <1>7. at[r] = 1
    BY <1>1 DEF Inject, RunSound
  <1>8. RunSound(r)'
    BY <1>1, <1>2, <1>6, <1>7 DEF Inject, RunSound, Active, Ended, Working, Reviewed
  <1>9. \A q \in Run \ {r} : phase'[q] = phase[q] /\ apks'[q] = apks[q]
    BY <1>1 DEF Inject, Goto, Types
  <1> QED BY <1>2, <1>3, <1>8, <1>9, OneRun DEF Inject

LEMMA SignKeeps ==
  ASSUME IInv, NEW r \in Run, Sign(r)
  PROVE  IInv'
  <1>1. RunSound(r) /\ Types
    BY DEF IInv
  <1> DEFINE x == Order(r)[at[r]]
  <1>2. PICK kept \in BOOLEAN : apks' = Signed(r, kept)
    BY DEF Sign
  <1>3. x \in Splits(r) /\ apks[r] \in [Splits(r) -> Apk]
    BY <1>1, OrderFacts DEF Sign, RunSound, Working
  <1> DEFINE y == [apks[r][x] EXCEPT !.signer = keystore,
                      !.payload = IF kept THEN apks[r][x].payload ELSE "lost"]
  <1>4. /\ apks'[r] = [apks[r] EXCEPT ![x] = y]
        /\ DOMAIN apks' = Run
        /\ \A q \in Run \ {r} : apks'[q] = apks[q]
    BY <1>1, <1>2, <1>3 DEF Signed, Types, Apk
  <1>5. keystore \in Signer /\ keystore = plan[r].signer /\ apks[r][x].manifest = "planned"
    BY DEF Sign, SignerPlanned, SignedManifest
  <1>6. apks'[r] \in [Splits(r) -> Apk]
    <2>1. apks[r][x] \in Apk
      BY <1>3
    <2>2. (IF kept THEN apks[r][x].payload ELSE "lost") \in Payload
      BY <2>1 DEF Apk, Payload
    <2>3. ASSUME NEW z \in Apk, NEW k \in Signer, NEW p \in Payload
          PROVE  [z EXCEPT !.signer = k, !.payload = p] \in Apk
      BY DEF Apk
    <2>4. y \in Apk
      BY <1>5, <2>1, <2>2, <2>3
    <2> HIDE DEF x, y
    <2> QED BY <1>3, <1>4, <2>4
  <1>7. /\ apks'[r][x].manifest = "planned" /\ apks'[r][x].signer = plan[r].signer
        /\ \A s \in Splits(r) \ {x} : apks'[r][s] = apks[r][s]
    BY <1>3, <1>4, <1>5 DEF Apk
  <1>8. \A i \in 1..at[r] : apks'[r][Order(r)[i]].manifest = "planned"
                            /\ apks'[r][Order(r)[i]].signer = plan[r].signer
    <2> TAKE i \in 1..at[r]
    <2>1. CASE Order(r)[i] = x
      BY <1>7, <2>1
    <2>2. CASE Order(r)[i] # x
      <3>1. i \in 1..(at[r] - 1) /\ i \in 1..Len(Order(r))
        BY <1>1, <2>2, OrderFacts DEF RunSound
      <3>2. Good(r, Order(r)[i]) /\ Order(r)[i] \in Splits(r)
        BY <1>1, <3>1, OrderFacts DEF Sign, RunSound
      <3> QED BY <1>7, <2>2, <3>2 DEF Good
    <2> QED BY <2>1, <2>2
  <1>9. NextSplit(r, "signed") /\ "signed" \in Phase
    BY DEF Sign, Phase
  <1>10. Types'
    BY <1>1, <1>4, <1>9, NextSplitFacts DEF Sign, Types, inputVars
  <1>11. plan' = plan /\ disk' = disk /\ published' = published /\ phase[r] = "signing"
    BY DEF Sign
  <1>12. RunSound(r)'
    <2>1. CASE phase'[r] = "signed" /\ at'[r] = 1 /\ at[r] = Len(Order(r))
      <3>1. \A s \in Splits(r) : Good(r, s)'
        BY <1>8, <1>11, <2>1, OrderFacts DEF Good
      <3> QED BY <1>1, <1>6, <1>9, <1>11, <2>1, <3>1, NextSplitFacts
              DEF RunSound, Active, Ended, Working, Reviewed
    <2>2. CASE phase'[r] = "signing" /\ at'[r] = at[r] + 1
      <3>1. \A i \in 1..(at'[r] - 1) : Good(r, Order(r)[i])'
        BY <1>1, <1>8, <1>11, <2>2 DEF Good, RunSound
      <3> QED BY <1>1, <1>6, <1>9, <1>11, <2>2, <3>1, NextSplitFacts
              DEF RunSound, Active, Ended, Working, Reviewed
    <2> QED BY <1>1, <1>9, <1>11, <2>1, <2>2, NextSplitFacts
  <1>13. phase'[r] # "new"
    BY <1>1, <1>9, <1>11, NextSplitFacts
  <1> QED BY <1>1, <1>4, <1>9, <1>10, <1>11, <1>12, <1>13, NextSplitFacts, OneRun

\* The package takes a free name, so that nobody else's package is lost.
LEMMA PersistKeeps ==
  ASSUME IInv, NEW r \in Run, Persist(r)
  PROVE  IInv'
  <1>1. RunSound(r) /\ Types
    BY DEF IInv
  <1> DEFINE target == plan[r].target
  <1>2. phase'[r] = "returning" /\ phase[r] = "persisting"
    BY <1>1 DEF Persist, Goto, Types
  <1>3. Types'
    BY <1>1 DEF Persist, Goto, Types, Phase, inputVars
  <1>4. target \in Target /\ published[target].by = None
    BY <1>1, <1>2 DEF RunSound, Persist, Exists
  <1>5. /\ published'[target] = [by |-> r, apks |-> apks[r]]
        /\ \A t \in Target \ {target} : published'[t] = published[t]
    BY <1>1, <1>4 DEF Persist, Types
  <1>6. \A q \in Run \ {r} : /\ phase'[q] = phase[q] /\ at'[q] = at[q]
                              /\ plan'[q] = plan[q] /\ apks'[q] = apks[q]
                              /\ disk'[q] = disk[q]
    BY <1>1 DEF Persist, Goto, Types
  <1>7. at' = at /\ plan' = plan
    BY DEF Persist
  <1>8. ASSUME NEW q \in Run PROVE RunSound(q)'
    <2>1. CASE q = r
      BY <1>1, <1>2, <1>5, <1>7, <2>1
         DEF RunSound, Active, Ended, Working, Reviewed, Author
    <2>2. CASE q # r
      <3>1. RunSound(q)
        BY DEF IInv
      <3>2. phase[q] \in {"returning", "done"} =>
                published'[plan[q].target] = published[plan[q].target]
        BY <1>4, <1>5, <3>1, PipelineAssumption DEF RunSound, Author
      <3> QED BY <1>6, <2>2, <3>1, <3>2 DEF RunSound, Good, Active, Author
    <2> QED BY <2>1, <2>2
  <1>9. ASSUME NEW t \in Target PROVE PackageSound(t)'
    <2>1. CASE t = target
      <3>1. apks[r] \in [Splits(r) -> Apk] /\ \A s \in Splits(r) :
              Good(r, s) /\ apks[r][s].payload \in {"declared", "other"}
        BY <1>1, <1>2 DEF RunSound, Working, Reviewed
      <3> QED BY <1>2, <1>5, <1>7, <2>1, <3>1
              DEF PackageSound, Exists, Author, Package, Good
    <2>2. CASE t # target
      BY <1>2, <1>5, <1>6, <1>7, <2>2 DEF IInv, PackageSound, Exists, Author, Package
    <2> QED BY <2>1, <2>2
  <1> QED BY <1>3, <1>8, <1>9 DEF IInv

LEMMA GiveUpKeeps ==
  ASSUME IInv, NEW r \in Run, GiveUp(r)
  PROVE  IInv'
  <1>1. RunSound(r) /\ Types
    BY DEF IInv
  <1>2. phase'[r] = "failed" /\ at'[r] = 1 /\ disk'[r] = {} /\ phase[r] # "new"
    BY <1>1 DEF GiveUp, Goto, Types, Active, Ended
  <1>3. Types'
    BY <1>1 DEF GiveUp, Goto, Types, Phase, Ended, inputVars
  <1>4. RunSound(r)'
    BY <1>1, <1>2, OrderFacts DEF GiveUp, RunSound, Working, Reviewed
  <1>5. \A q \in Run \ {r} : /\ phase'[q] = phase[q] /\ at'[q] = at[q]
                              /\ apks'[q] = apks[q] /\ disk'[q] = disk[q]
    BY <1>1 DEF GiveUp, Goto, Types
  <1> QED BY <1>2, <1>3, <1>4, <1>5, OneRun DEF GiveUp

LEMMA RunsDieKeeps ==
  ASSUME IInv, RunsDie, UNCHANGED inputVars
  PROVE  IInv'
  <1>1. Types
    BY DEF IInv
  <1>2. Types'
    BY <1>1 DEF RunsDie, Types, Phase, Ended, inputVars
  <1>3. ASSUME NEW r \in Run PROVE RunSound(r)'
    <2>1. RunSound(r)
      BY DEF IInv
    <2>2. /\ phase'[r] = (IF Active(r) THEN "dead" ELSE phase[r])
          /\ at'[r] = 1 /\ UNCHANGED <<plan, disk, published>>
      BY DEF RunsDie
    <2>3. phase'[r] \in {"new"} \cup Ended
      BY <2>2 DEF Active, Ended
    <2> QED BY <2>1, <2>2, <2>3, OrderFacts
            DEF RunSound, Active, Ended, Working, Reviewed, Author
  <1>4. ASSUME NEW t \in Target PROVE PackageSound(t)'
    <2>1. PackageSound(t) /\ published' = published /\ plan' = plan
      BY DEF IInv, RunsDie
    <2>2. \A r \in Run : phase[r] # "new" => phase'[r] # "new"
      BY DEF RunsDie
    <2> QED BY <2>1, <2>2 DEF PackageSound, Exists, Author, Package
  <1> QED BY <1>2, <1>3, <1>4 DEF IInv

LEMMA RunStepKeeps ==
  ASSUME IInv, NEW r \in Run, RunStep(r)
  PROVE  IInv'
  BY CheckArtifactsKeeps, CheckSourceKeeps, ExtractKeeps, StageCheckKeeps,
     StageCopyKeeps, LaunchKeeps, RebuildKeeps, TablesKeeps, InjectKeeps, SignKeeps,
     ReviewKeeps, CopyKeeps, PersistKeeps, ReturnKeeps, GiveUpKeeps
     DEF RunStep, OwnStep, ToolStep, Stage, Timeout, Fails

LEMMA ReplacementKeeps ==
  ASSUME IInv, Replacement
  PROVE  IInv'
  <1>1. Types
    BY DEF IInv
  <1>2. CASE \E r \in Run : ReplaceInput(r)
    <2>1. PICK r \in Run : ReplaceInput(r)
      BY <1>2
    <2>2. input' \in [Run -> [xapk : Content, split : Content]]
      BY <1>1, <2>1 DEF ReplaceInput, Types, Content
    <2> QED BY <1>1, <2>1, <2>2, NoRun DEF ReplaceInput, Types
  <1>3. CASE \E p \in Part : ReplacePart(p)
    <2>1. PICK p \in Part : ReplacePart(p)
      BY <1>3
    <2>2. parts' \in [Part -> {"declared", "other"}]
      BY <1>1, <2>1 DEF ReplacePart, Types
    <2> QED BY <1>1, <2>1, <2>2, NoRun DEF ReplacePart, Types
  <1> QED BY <1>2, <1>3 DEF Replacement

LEMMA InitEstablishes == Init => IInv
  <1> SUFFICES ASSUME Init PROVE IInv
    OBVIOUS
  <1>1. Types
    BY DEF Init, PipelineInit, Types, Phase, Content, Part
  <1>2. ASSUME NEW r \in Run PROVE RunSound(r)
    BY OrderFacts DEF Init, PipelineInit, RunSound, Working, Reviewed
  <1>3. ASSUME NEW t \in Target PROVE PackageSound(t)
    BY DEF Init, PipelineInit, PackageSound, Exists
  <1> QED BY <1>1, <1>2, <1>3 DEF IInv

LEMMA StepKeeps == IInv /\ [Next]_vars => IInv'
  <1> SUFFICES ASSUME IInv, [Next]_vars PROVE IInv'
    OBVIOUS
  <1>1. ASSUME UNCHANGED runVars, UNCHANGED inputVars PROVE IInv'
    BY <1>1, NoRun DEF IInv, Types, inputVars
  <1>2. CASE BootStep
    BY <1>1, <1>2 DEF BootStep, Validate, OpenPassword, WritePassword, ReadPassword,
       Generate, Generated, Export, Identify, WriteIdentity, Serve, Refuse, pipelineVars
  <1>3. CASE Restart \/ Lose \/ Exchange
    BY <1>1, <1>3 DEF Restart, Lose, Exchange, pipelineVars
  <1>4. CASE Crash
    BY <1>4, RunsDieKeeps DEF Crash
  <1>5. CASE Request
    BY <1>5, PlanKeeps DEF Request
  <1>6. CASE Work
    BY <1>6, RunStepKeeps, ReplacementKeeps DEF Work
  <1>7. CASE UNCHANGED vars
    BY <1>1, <1>7 DEF vars, pipelineVars
  <1> QED BY <1>2, <1>3, <1>4, <1>5, <1>6, <1>7 DEF Next

LEMMA Inductive == Spec => []IInv
  BY InitEstablishes, StepKeeps, PTL DEF Spec

\* However runs, crashes and exchanged keystores interleave, a published package
\* has all splits of its plan with the planned identity, the planned signer and
\* the injected members (the checks of Pipeline::run after signing).
THEOREM PackagesValid == Spec => []PublishedIsValid
  <1>1. IInv => PublishedIsValid
    BY DEF IInv, PackageSound, PublishedIsValid
  <1> QED BY <1>1, Inductive, PTL

\* Of any number of runs with one output path at most one reports success, and it
\* is the one whose package is there (publish_noclobber).
THEOREM RunsSucceedOwn == Spec => []SuccessIsOwn
  <1>1. IInv => SuccessIsOwn
    BY DEF IInv, RunSound, SuccessIsOwn
  <1> QED BY <1>1, Inductive, PTL

\* No error path of Pipeline::run leaves a workspace or a temporary file behind.
THEOREM LitterOnlyByCrashes == Spec => []OnlyCrashesLitter
  <1>1. IInv => OnlyCrashesLitter
    BY DEF IInv, RunSound, OnlyCrashesLitter
  <1> QED BY <1>1, Inductive, PTL

-----------------------------------------------------------------------------
(* The signer.                                                             *)

\* A run whose signer matters: it goes on, or its package is out.
InUse(r) == Active(r) \/ \E t \in Target : Author(t) = r

\* A deployment cannot come up with another signer than k: identity.json names
\* it, or names nobody and the key is there, or no start is accepted any more.
Held(k) ==
    /\ identity \in {k, None, Partial}
    /\ \/ identity = k
       \/ keystore = k
       \/ keystore = None /\ (password # "absent" \/ identity # None)

Intact == keystore \in Signer /\ identity = keystore /\ password = "written"

\* What the entrypoint has established, by its place.
BootSound ==
    /\ boot = "validated" => SigningFilesComplete
    /\ boot \in {"opened", "generating"} => keystore = None
    /\ boot \in {"validated", "opened", "unlocked", "generating"} /\ keystore = None =>
            identity = None /\ \A r \in Run : ~InUse(r)
    /\ boot \in {"exported", "naming", "named"} =>
            keystore = fingerprint /\ fingerprint \in Signer
    /\ boot = "naming" => identity = Partial
    /\ boot = "named" => identity = fingerprint
    /\ boot \in Booting \ {"validated", "opened"} => password = "written"
    /\ keystore \notin Signer \cup {None} => identity = None

\* Every signer in use is the same one, and is held.
KeySound ==
    /\ \A r \in Run : InUse(r) => plan[r].signer \in Signer /\ Held(plan[r].signer)
    /\ \A r, q \in Run : InUse(r) /\ InUse(q) => plan[r].signer = plan[q].signer
    /\ \A r \in Run : Active(r) => boot = "serving"
    /\ boot = "serving" =>
        /\ fingerprint \in Signer /\ Held(fingerprint)
        /\ \A r \in Run : InUse(r) => plan[r].signer = fingerprint

\* Files that nobody touched are whole once the deployment has served.
IntactSound ==
    /\ ~tampered /\ (boot = "serving" \/ \E t \in Target : Exists(t)) => Intact
    /\ ~tampered /\ boot = "refused" => \A t \in Target : ~Exists(t)

KeyInv == BootSound /\ KeySound /\ IntactSound

\* What a step of a run may change.
LEMMA RunStepFrame ==
  ASSUME IInv, NEW r \in Run, RunStep(r)
  PROVE  /\ Active(r)
         /\ UNCHANGED <<plan, keystore>> /\ UNCHANGED inputVars
         /\ \A q \in Run \ {r} : phase'[q] = phase[q] /\ apks'[q] = apks[q]
         /\ published' = published \/ Persist(r)
  <1>1. Types
    BY DEF IInv
  <1>2. phase[r] \notin {"new"} \cup Ended
    BY DEF RunStep, OwnStep, ToolStep, CheckArtifacts, CheckSource, Extract,
       Stage, StageCheck, StageCopy, Launch, Inject, Review, Copy, Persist, Return, Fails,
       GiveUp, Rebuild, Tables, Sign, Timeout, Ended, ToolPhase, Active
  <1>3. UNCHANGED <<plan, keystore>> /\ UNCHANGED inputVars
    BY DEF RunStep, OwnStep, ToolStep, CheckArtifacts, CheckSource, Extract,
       Stage, StageCheck, StageCopy, Launch, Inject, Review, Copy, Persist, Return, Fails,
       GiveUp, Rebuild, Tables, Sign, Timeout
  <1>4. published' = published \/ Persist(r)
    BY DEF RunStep, OwnStep, ToolStep, CheckArtifacts, CheckSource, Extract,
       Stage, StageCheck, StageCopy, Launch, Inject, Review, Copy, Return, Fails,
       GiveUp, Rebuild, Tables, Sign, Timeout
  <1>5. ASSUME NEW q \in Run \ {r} PROVE phase'[q] = phase[q]
    <2>1. phase' = phase \/ \E p : phase' = [phase EXCEPT ![r] = p]
      BY DEF RunStep, OwnStep, ToolStep, CheckArtifacts, CheckSource, Extract,
         Stage, StageCheck, StageCopy, Launch, Inject, Review, Copy, Persist, Return, Fails,
         GiveUp, Rebuild, Tables, Sign, Timeout, Goto, NextSplit
    <2> QED BY <1>1, <2>1 DEF Types
  <1>6. ASSUME NEW q \in Run \ {r} PROVE apks'[q] = apks[q]
    <2>1. apks' = apks \/ \E y : apks' = [apks EXCEPT ![r] = y]
      BY DEF RunStep, OwnStep, ToolStep, CheckArtifacts, CheckSource, Extract,
         Stage, StageCheck, StageCopy, Launch, Inject, Review, Copy, Persist, Return, Fails,
         GiveUp, Rebuild, Tables, Sign, Signed, Timeout
    <2> QED BY <1>1, <2>1 DEF Types
  <1> QED BY <1>2, <1>3, <1>4, <1>5, <1>6 DEF Active

\* No step of a run brings another signer into use.
LEMMA RunStepUses ==
  ASSUME IInv, NEW r \in Run, RunStep(r)
  PROVE  /\ \A q \in Run : Active(q)' => Active(q)
         /\ \A q \in Run : InUse(q)' => InUse(q)
         /\ \A t \in Target : Exists(t)' => Exists(t) \/ Active(r)
  <1>1. Types
    BY DEF IInv
  <1>2. ASSUME NEW q \in Run PROVE Active(q)' => Active(q)
    BY RunStepFrame DEF Active
  <1>3. ASSUME NEW t \in Target
        PROVE  published'[t] = published[t] \/ published'[t].by = r
    <2>1. CASE published' = published
      BY <2>1
    <2>2. CASE Persist(r)
      BY <1>1, <2>2 DEF Persist, Types
    <2> QED BY <2>1, <2>2, RunStepFrame
  <1>4. ASSUME NEW q \in Run PROVE InUse(q)' => InUse(q)
    BY <1>2, <1>3, RunStepFrame DEF InUse, Author
  <1> QED BY <1>2, <1>3, <1>4, RunStepFrame DEF Exists

\* Steps of runs and replaced inputs, with the signing files left alone.
LEMMA WorkKeepsKey ==
  ASSUME KeyInv, UNCHANGED signingVars, UNCHANGED <<plan, keystore>>,
         \A q \in Run : Active(q)' => Active(q),
         \A q \in Run : InUse(q)' => InUse(q),
         \A t \in Target : Exists(t)' => Exists(t) \/ boot = "serving"
  PROVE  KeyInv'
  <1>1. BootSound'
    BY DEF KeyInv, BootSound, SigningFilesComplete, signingVars
  <1>2. \A k : Held(k)' <=> Held(k)
    BY DEF Held, signingVars
  <1>3. KeySound'
    BY <1>2 DEF KeyInv, KeySound, signingVars
  <1>4. IntactSound'
    BY DEF KeyInv, KeySound, IntactSound, Intact, signingVars
  <1> QED BY <1>1, <1>3, <1>4 DEF KeyInv

\* The steps of the entrypoint, and losses, leave the runs alone.
LEMMA Quiet ==
  ASSUME UNCHANGED runVars
  PROVE  /\ plan' = plan
         /\ \A q \in Run : (Active(q)' <=> Active(q)) /\ (InUse(q)' <=> InUse(q))
         /\ \A t \in Target : Exists(t)' <=> Exists(t)
  BY DEF runVars, Active, InUse, Author, Exists

LEMMA BootKeepsKey ==
  ASSUME KeyInv, UNCHANGED runVars,
         BootStep \/ Restart \/ Lose \/ Exchange
  PROVE  KeyInv'
  <1> USE Quiet, SigningAssumption, PipelineAssumption
  <1>1. BootSound /\ KeySound /\ IntactSound
    BY DEF KeyInv
  <1>2. CASE Validate
    <2>1. BootSound'
      <3>0. SigningFilesComplete
        BY <1>2 DEF Validate
      <3>1. ASSUME keystore = None, NEW r \in Run PROVE ~InUse(r)
        BY <1>1, <1>2, <3>1 DEF Validate, SigningFilesComplete, KeySound, Held
      <3>2. boot' = "validated" /\ UNCHANGED <<keystore, password, identity, fingerprint>>
        BY <1>2 DEF Validate, Enter, pipelineVars
      <3>3. keystore = None => identity = None
        BY <1>2 DEF Validate, SigningFilesComplete
      <3> QED BY <1>1, <3>0, <3>1, <3>2, <3>3 DEF BootSound, Booting, SigningFilesComplete
    <2>2. KeySound'
      BY <1>1, <1>2 DEF Validate, KeySound, Held, Enter, pipelineVars
    <2>3. IntactSound'
      BY <1>1, <1>2 DEF Validate, IntactSound, Intact, Enter, pipelineVars
    <2> QED BY <2>1, <2>2, <2>3 DEF KeyInv
  <1>3. CASE OpenPassword
    <2>1. BootSound'
      BY <1>1, <1>3 DEF OpenPassword, BootSound, Enter, pipelineVars,
         SigningFilesComplete
    <2>2. KeySound'
      BY <1>1, <1>3 DEF OpenPassword, KeySound, Held, Enter, pipelineVars
    <2>3. IntactSound'
      BY <1>1, <1>3 DEF OpenPassword, IntactSound, Intact, Enter
    <2> QED BY <2>1, <2>2, <2>3 DEF KeyInv
  <1>4. CASE WritePassword
    <2>1. BootSound'
      BY <1>1, <1>4 DEF WritePassword, BootSound, Enter
    <2>2. KeySound'
      BY <1>1, <1>4 DEF WritePassword, KeySound, Held, Enter, pipelineVars
    <2>3. IntactSound'
      BY <1>1, <1>4 DEF WritePassword, IntactSound, Intact, Enter, pipelineVars
    <2> QED BY <2>1, <2>2, <2>3 DEF KeyInv
  <1>5. CASE ReadPassword
    <2>1. BootSound'
      BY <1>1, <1>5 DEF ReadPassword, BootSound, Enter, pipelineVars
    <2>2. KeySound'
      BY <1>1, <1>5 DEF ReadPassword, KeySound, Held, Enter, pipelineVars
    <2>3. IntactSound'
      BY <1>1, <1>5 DEF ReadPassword, IntactSound, Intact, Enter, pipelineVars
    <2> QED BY <2>1, <2>2, <2>3 DEF KeyInv
  <1>6. CASE Generate
    <2>1. BootSound'
      BY <1>1, <1>6 DEF Generate, BootSound, Enter, Booting, pipelineVars
    <2>2. KeySound'
      BY <1>1, <1>6 DEF Generate, KeySound, Held, Enter, pipelineVars
    <2>3. IntactSound'
      BY <1>1, <1>6 DEF Generate, IntactSound, Intact, Enter, pipelineVars
    <2> QED BY <2>1, <2>2, <2>3 DEF KeyInv
  <1>7. CASE Generated
    <2>1. BootSound'
      BY <1>1, <1>7 DEF Generated, BootSound, Enter, Booting
    <2>2. KeySound'
      BY <1>1, <1>7 DEF Generated, BootSound, KeySound, Enter
    <2>3. IntactSound'
      BY <1>1, <1>7 DEF Generated, BootSound, IntactSound, Intact, Enter
    <2> QED BY <2>1, <2>2, <2>3 DEF KeyInv
  <1>8. CASE Export
    <2>1. BootSound'
      BY <1>1, <1>8 DEF Export, BootSound, Enter, Booting, pipelineVars
    <2>2. KeySound'
      BY <1>1, <1>8 DEF Export, KeySound, Held, Enter, pipelineVars
    <2>3. IntactSound'
      BY <1>1, <1>8 DEF Export, IntactSound, Intact, Enter, pipelineVars
    <2> QED BY <2>1, <2>2, <2>3 DEF KeyInv
  <1>9. CASE Identify
    <2>1. BootSound'
      BY <1>1, <1>9 DEF Identify, BootSound, Enter, Booting, pipelineVars
    <2>2. KeySound'
      BY <1>1, <1>9 DEF Identify, KeySound, Held, Enter, pipelineVars
    <2>3. IntactSound'
      BY <1>1, <1>9 DEF Identify, IntactSound, Intact, Enter, pipelineVars
    <2> QED BY <2>1, <2>2, <2>3 DEF KeyInv
  <1>10. CASE WriteIdentity
    <2>1. BootSound'
      BY <1>1, <1>10 DEF WriteIdentity, BootSound, Enter, Booting, pipelineVars
    <2>2. KeySound'
      BY <1>1, <1>10 DEF WriteIdentity, BootSound, KeySound, Held
    <2>3. IntactSound'
      BY <1>1, <1>10 DEF WriteIdentity, BootSound, IntactSound, Intact, Booting,
         pipelineVars
    <2> QED BY <2>1, <2>2, <2>3 DEF KeyInv
  <1>11. CASE Serve
    <2>1. BootSound'
      BY <1>1, <1>11 DEF Serve, BootSound, Enter, Booting, pipelineVars
    <2>2. KeySound'
      BY <1>1, <1>11 DEF Serve, BootSound, KeySound, Held
    <2>3. IntactSound'
      BY <1>1, <1>11 DEF Serve, BootSound, IntactSound, Intact, Enter, Booting,
         pipelineVars
    <2> QED BY <2>1, <2>2, <2>3 DEF KeyInv
  <1>12. CASE Refuse
    <2>1. BootSound'
      BY <1>1, <1>12 DEF Refuse, BootSound, Enter, Booting, pipelineVars
    <2>2. KeySound'
      BY <1>1, <1>12 DEF Refuse, KeySound, Held, Enter, pipelineVars
    <2>3. IntactSound'
      BY <1>1, <1>12 DEF Refuse, BootSound, IntactSound, Intact, Enter,
         SigningFilesComplete
    <2> QED BY <2>1, <2>2, <2>3 DEF KeyInv
  <1>13. CASE Restart
    <2>1. BootSound'
      BY <1>1, <1>13 DEF Restart, BootSound, Enter, Booting, pipelineVars
    <2>2. KeySound'
      BY <1>1, <1>13 DEF Restart, KeySound, Held, Enter, pipelineVars
    <2>3. IntactSound'
      BY <1>1, <1>13 DEF Restart, IntactSound, Enter
    <2> QED BY <2>1, <2>2, <2>3 DEF KeyInv
  <1>14. CASE Lose
    <2>1. BootSound'
      BY <1>1, <1>14 DEF Lose, BootSound, Booting
    <2>2. KeySound'
      <3>1. ASSUME NEW k \in Signer, Held(k) PROVE Held(k)'
        <4>1. keystore \in Signer \cup {None} \/ identity # k
          BY <1>1 DEF BootSound
        <4>2. CASE password' = "absent" /\ UNCHANGED <<keystore, identity>>
          BY <1>14, <3>1, <4>2 DEF Lose, Held
        <4>3. CASE keystore' = None /\ UNCHANGED <<password, identity>>
          BY <1>14, <3>1, <4>3 DEF Lose, Held
        <4>4. CASE identity' = None /\ UNCHANGED <<password, keystore>>
          BY <1>14, <3>1, <4>1 DEF Lose, Held, Exchanged
        <4> QED BY <1>14, <4>2, <4>3, <4>4 DEF Lose
      <3> QED BY <1>1, <1>14, <3>1 DEF Lose, KeySound
    <2>3. IntactSound'
      BY <1>14 DEF Lose, IntactSound
    <2> QED BY <2>1, <2>2, <2>3 DEF KeyInv
  <1>15. CASE Exchange
    <2>1. BootSound'
      BY <1>15 DEF Exchange, BootSound, Booting
    <2>2. KeySound'
      BY <1>1, <1>15 DEF Exchange, KeySound, Held
    <2>3. IntactSound'
      BY <1>15 DEF Exchange, IntactSound
    <2> QED BY <2>1, <2>2, <2>3 DEF KeyInv
  <1> QED BY <1>2, <1>3, <1>4, <1>5, <1>6, <1>7, <1>8, <1>9, <1>10, <1>11, <1>12, <1>13,
     <1>14, <1>15 DEF BootStep

LEMMA CrashKeepsKey ==
  ASSUME IInv, KeyInv, Crash
  PROVE  KeyInv'
  <1>1. BootSound /\ KeySound /\ IntactSound
    BY DEF KeyInv
  <1>2. boot' = "down" /\ UNCHANGED <<plan, published, password, identity, tampered>>
    BY DEF Crash, Enter, RunsDie
  <1>3. \A q \in Run : ~Active(q)' /\ (InUse(q)' => InUse(q))
    BY DEF Crash, RunsDie, InUse, Active, Ended, Author
  <1>4. \A t \in Target : Exists(t)' <=> Exists(t)
    BY <1>2 DEF Exists
  <1>5. keystore' = keystore \/ boot = "generating"
    BY DEF Crash
  <1>6. boot = "generating" =>
            keystore = None /\ identity = None /\ \A q \in Run : ~InUse(q)
    BY <1>1 DEF BootSound
  <1>7. \A q \in Run : InUse(q)' => keystore' = keystore
    BY <1>3, <1>5, <1>6
  <1>8. BootSound'
    BY <1>1, <1>2, <1>5, <1>6 DEF BootSound, Booting
  <1>9. KeySound'
    BY <1>1, <1>2, <1>3, <1>7 DEF KeySound, Held
  <1>10. IntactSound'
    BY <1>1, <1>2, <1>4, <1>5, <1>6, PipelineAssumption DEF IntactSound, Intact
  <1> QED BY <1>8, <1>9, <1>10 DEF KeyInv

\* Runs are planned with the signer of the configuration, which is the one held.
LEMMA RequestKeepsKey ==
  ASSUME IInv, KeyInv, Request
  PROVE  KeyInv'
  <1>1. BootSound /\ KeySound /\ IntactSound /\ Types
    BY DEF KeyInv, IInv
  <1>2. PICK r \in Run, t \in Target : Plan(r, fingerprint, t)
    BY DEF Request
  <1>3. boot = "serving" /\ UNCHANGED signingVars /\ UNCHANGED <<keystore, published>>
    BY <1>2 DEF Request, Plan
  <1>4. plan'[r].signer = fingerprint /\ \A q \in Run \ {r} : plan'[q] = plan[q]
    BY <1>1, <1>2 DEF Plan, Types
  <1>5. \A q \in Run \ {r} : (InUse(q)' => InUse(q)) /\ (Active(q)' => Active(q))
    BY <1>1, <1>2, <1>3 DEF Plan, Goto, Types, InUse, Active, Author
  <1>6. \A u \in Target : Exists(u)' <=> Exists(u)
    BY <1>3 DEF Exists
  <1>7. BootSound'
    BY <1>1, <1>3 DEF BootSound, Booting, signingVars
  <1>8. \A k : Held(k)' <=> Held(k)
    BY <1>3 DEF Held, signingVars
  <1>9. \A q \in Run : InUse(q)' => plan'[q].signer = fingerprint
    BY <1>1, <1>3, <1>4, <1>5 DEF KeySound
  <1>10. KeySound'
    BY <1>1, <1>3, <1>8, <1>9 DEF KeySound, signingVars
  <1>11. IntactSound'
    BY <1>1, <1>3, <1>6 DEF IntactSound, Intact, signingVars
  <1> QED BY <1>7, <1>10, <1>11 DEF KeyInv

LEMMA KeyStep == IInv /\ KeyInv /\ [Next]_vars => KeyInv'
  <1> SUFFICES ASSUME IInv, KeyInv, [Next]_vars PROVE KeyInv'
    OBVIOUS
  <1>1. CASE BootStep \/ Restart \/ Lose \/ Exchange
    <2>1. UNCHANGED runVars
      BY <1>1 DEF BootStep, Validate, OpenPassword, WritePassword, ReadPassword,
         Generate, Generated, Export, Identify, WriteIdentity, Serve, Refuse,
         Restart, Lose, Exchange, pipelineVars
    <2> QED BY <1>1, <2>1, BootKeepsKey
  <1>2. CASE Crash
    BY <1>2, CrashKeepsKey
  <1>3. CASE Request
    BY <1>3, RequestKeepsKey
  <1>4. ASSUME UNCHANGED runVars, UNCHANGED signingVars, keystore' = keystore
        PROVE  KeyInv'
    BY <1>4, Quiet, WorkKeepsKey DEF KeyInv
  <1>5. CASE Work
    <2>1. UNCHANGED signingVars
      BY <1>5 DEF Work
    <2>2. CASE Replacement
      <3>1. UNCHANGED runVars /\ keystore' = keystore
        BY <2>2 DEF Replacement, ReplaceInput, ReplacePart
      <3> QED BY <1>4, <2>1, <3>1
    <2>3. ASSUME NEW r \in Run, RunStep(r) PROVE KeyInv'
      <3>1. Active(r) => boot = "serving"
        BY DEF KeyInv, KeySound
      <3> QED BY <2>1, <2>3, <3>1, RunStepFrame, RunStepUses, WorkKeepsKey
    <2> QED BY <1>5, <2>2, <2>3 DEF Work
  <1>6. CASE UNCHANGED vars
    BY <1>4, <1>6 DEF vars, pipelineVars
  <1> QED BY <1>1, <1>2, <1>3, <1>5, <1>6 DEF Next

LEMMA KeyInit == Init => KeyInv
  <1> SUFFICES ASSUME Init PROVE KeyInv
    OBVIOUS
  <1>1. \A t \in Target : ~Exists(t)
    BY DEF Init, PipelineInit, Exists
  <1>2. \A r \in Run : ~Active(r) /\ ~InUse(r)
    BY PipelineAssumption DEF Init, PipelineInit, Active, InUse, Author
  <1> QED BY <1>1, <1>2 DEF Init, KeyInv, BootSound, KeySound, IntactSound, Booting

LEMMA KeyInductive == Spec => []KeyInv
  BY Inductive, KeyInit, KeyStep, PTL DEF Spec

\* Whatever a deployment loses of its signing files, and wherever its container
\* is killed, all packages it ever publishes have one signer (entrypoint.py,
\* validate_signing_files and the check of identity.json; apk_signer_fingerprint).
THEOREM SignerForever == Spec => []OneSigner
  <1>1. IInv /\ KeyInv => OneSigner
    <2> SUFFICES ASSUME IInv, KeyInv,
                        NEW t \in Target, NEW u \in Target, Exists(t), Exists(u),
                        NEW s \in DOMAIN Package(t)
                 PROVE  Package(t)[s].signer = Package(u)["base"].signer
      BY DEF OneSigner
    <2>1. PackageSound(t) /\ PackageSound(u)
      BY DEF IInv
    <2>2. Package(t)[s].signer = plan[Author(t)].signer
      BY <2>1 DEF PackageSound
    <2>3. Package(u)["base"].signer = plan[Author(u)].signer
      BY <2>1, OrderFacts DEF PackageSound
    <2>4. InUse(Author(t)) /\ InUse(Author(u))
      BY DEF InUse
    <2> QED BY <2>1, <2>2, <2>3, <2>4 DEF PackageSound, KeyInv, KeySound
  <1> QED BY <1>1, Inductive, KeyInductive, PTL

\* A deployment that has published refuses to start only if somebody lost or
\* exchanged its signing files: no crash of its own bricks it.
THEOREM CrashesNeverBrick == Spec => []RefusedOnlyUnborn
  <1>1. KeyInv => RefusedOnlyUnborn
    BY DEF KeyInv, IntactSound, RefusedOnlyUnborn
  <1> QED BY <1>1, KeyInductive, PTL

-----------------------------------------------------------------------------
(* The inputs.                                                             *)

\* A split was made from the pinned original, and has its declared part, or the
\* input was replaced just between its check and its use.
Fresh(r, s) == apks[r][s].bytes = "pinned" \/ (s # "extra" /\ "xapk" \in touched[r])
PartOf(s) == IF s = "extra" THEN "extra" ELSE "primary"
Clean(r, s) == apks[r][s].payload \in {"declared", "lost"} \/ PartOf(s) \in touched[r]
Untouched(r, p) == parts[p] = "declared" \/ p \in touched[r]

\* What the checks of the inputs have established, by the phase of a run.
ContentSound(r) ==
    /\ phase[r] = "verified" => input[r].xapk = "pinned" \/ "xapk" \in touched[r]
    /\ phase[r] \in {"extracted", "hashed"} =>
        \A s \in {"base", "assets", "native"} : Fresh(r, s)
    /\ phase[r] \in Working => \A s \in Splits(r) : Fresh(r, s)
    /\ phase[r] \in Window("primary") => Untouched(r, "primary")
    /\ phase[r] \in Window("extra") /\ r \in Universal => Untouched(r, "extra")
    /\ phase[r] = "injecting" => Clean(r, "assets")
    /\ phase[r] \in {"signing", "signed"} \cup Reviewed => \A s \in Splits(r) : Clean(r, s)

ContentInv ==
    /\ DOMAIN touched = Run
    /\ \A r \in Run : ContentSound(r)
    /\ PublishedIsVerified

LEMMA WindowFacts ==
  /\ Window("xapk") = {"verified"}
  /\ Window("primary") = {"checked", "verified", "extracted", "hashed",
                          "rebuilding", "tables", "injecting"}
  /\ Window("extra") = {"hashed", "rebuilding", "tables", "injecting"}
  BY DEF Window

\* A run in a phase in which nothing is known of its inputs.
LEMMA Unknowing ==
  ASSUME NEW r \in Run,
         phase'[r] \in {"new", "planned", "returning"} \cup Ended
  PROVE  ContentSound(r)'
  BY WindowFacts DEF ContentSound, Ended, Working, Reviewed

\* One lemma per step of a run: what it knows of its inputs.
LEMMA CheckContent ==
  ASSUME IInv, ContentInv, NEW r \in Run,
         CheckArtifacts(r) \/ CheckSource(r) \/ StageCheck(r)
  PROVE  ContentSound(r)'
  <1>1. Types /\ ContentSound(r) /\ UNCHANGED <<apks, input, parts, touched>>
    BY DEF IInv, ContentInv, CheckArtifacts, CheckSource, StageCheck, inputVars
  <1>2. CASE CheckArtifacts(r)
    <2>1. phase'[r] = "checked" /\ parts["primary"] = "declared"
      BY <1>1, <1>2 DEF CheckArtifacts, ArtifactsDeclared, Goto, Types
    <2> QED BY <1>1, <2>1, WindowFacts DEF ContentSound, Untouched, Working, Reviewed
  <1>3. CASE CheckSource(r)
    <2>1. phase'[r] = "verified" /\ phase[r] = "checked" /\ input[r].xapk = "pinned"
      BY <1>1, <1>3 DEF CheckSource, Goto, Types
    <2> QED BY <1>1, <2>1, WindowFacts DEF ContentSound, Untouched, Working, Reviewed
  <1>4. CASE StageCheck(r)
    <2>1. phase'[r] = "hashed" /\ phase[r] = "extracted" /\ parts["extra"] = "declared"
      BY <1>1, <1>4 DEF StageCheck, Goto, Types
    <2> QED BY <1>1, <2>1, WindowFacts DEF ContentSound, Fresh, Untouched, Working, Reviewed
  <1> QED BY <1>2, <1>3, <1>4

LEMMA ExtractContent ==
  ASSUME IInv, ContentInv, NEW r \in Run, Extract(r)
  PROVE  ContentSound(r)'
  <1>1. Types /\ ContentSound(r) /\ UNCHANGED <<input, parts, touched>>
    BY DEF IInv, ContentInv, Extract, inputVars
  <1>2. /\ phase[r] = "verified"
        /\ phase'[r] = IF r \in Universal THEN "extracted" ELSE "rebuilding"
        /\ apks'[r] = [s \in {"base", "assets", "native"} |-> Original(input[r].xapk)]
    BY <1>1 DEF Extract, Goto, Types
  <1>3. \A s \in {"base", "assets", "native"} : Fresh(r, s)'
    BY <1>1, <1>2 DEF ContentSound, Fresh, Original
  <1>4. r \notin Universal => Splits(r) = {"base", "assets", "native"}
    BY OrderFacts
  <1> QED BY <1>1, <1>2, <1>3, <1>4, WindowFacts
          DEF ContentSound, Untouched, Working, Reviewed

LEMMA StageCopyContent ==
  ASSUME IInv, ContentInv, NEW r \in Run, StageCopy(r)
  PROVE  ContentSound(r)'
  <1>1. Types /\ ContentSound(r) /\ UNCHANGED <<input, parts, touched>>
    BY DEF IInv, ContentInv, StageCopy, inputVars
  <1>2. /\ phase[r] = "hashed" /\ phase'[r] = "rebuilding"
        /\ input[r].split = "pinned"
        /\ apks'[r] = [s \in Splits(r) |->
                IF s = "extra" THEN Original(input[r].split) ELSE apks[r][s]]
    BY <1>1 DEF StageCopy, Goto, Types
  <1>3. \A s \in Splits(r) \ {"extra"} : s \in {"base", "assets", "native"}
    BY OrderFacts
  <1>4. \A s \in Splits(r) : Fresh(r, s)'
    BY <1>1, <1>2, <1>3 DEF ContentSound, Fresh, Original
  <1> QED BY <1>1, <1>2, <1>4, WindowFacts DEF ContentSound, Untouched, Working, Reviewed

\* A tool changes what it is for, and not where the split comes from.
LEMMA ToolContent ==
  ASSUME IInv, ContentInv, NEW r \in Run, Rebuild(r) \/ Tables(r)
  PROVE  ContentSound(r)'
  <1>1. Types /\ RunSound(r) /\ ContentSound(r) /\ UNCHANGED <<input, parts, touched>>
    BY DEF IInv, ContentInv, Rebuild, Tables, inputVars
  <1>2. apks[r] \in [Splits(r) -> Apk] /\ "assets" \in Splits(r)
    BY <1>1, OrderFacts DEF RunSound, Rebuild, Tables, Working
  <1>3. CASE Rebuild(r)
    <2> DEFINE x == Order(r)[at[r]]
    <2>1. PICK m \in Manifest : apks' = [apks EXCEPT ![r][x].manifest = m]
      BY <1>3 DEF Rebuild, TransformedManifest
    <2>2. x \in Splits(r)
      BY <1>1, OrderFacts DEF RunSound
    <2>3. \A s \in Splits(r) : apks'[r][s].bytes = apks[r][s].bytes
      BY <1>1, <1>2, <2>1, <2>2 DEF Types, Apk
    <2>4. phase[r] = "rebuilding" /\ phase'[r] \in {"rebuilding", "tables"}
      BY <1>1, <1>3, NextSplitFacts DEF Rebuild, Phase
    <2>5. \A s \in Splits(r) : Fresh(r, s)'
      BY <1>1, <2>3, <2>4 DEF ContentSound, Fresh, Working
    <2> QED BY <1>1, <2>4, <2>5, WindowFacts DEF ContentSound, Untouched, Working, Reviewed
  <1>4. CASE Tables(r)
    <2>1. /\ phase[r] = "tables" /\ phase'[r] = "injecting"
          /\ apks' = [apks EXCEPT ![r]["assets"].payload = parts["primary"]]
      BY <1>1, <1>4 DEF Tables, Goto, Types
    <2>2. /\ \A s \in Splits(r) : apks'[r][s].bytes = apks[r][s].bytes
          /\ apks'[r]["assets"].payload = parts["primary"]
      BY <1>1, <1>2, <2>1 DEF Types, Apk
    <2>3. \A s \in Splits(r) : Fresh(r, s)'
      BY <1>1, <2>1, <2>2 DEF ContentSound, Fresh, Working
    <2>4. Clean(r, "assets")'
      BY <1>1, <2>1, <2>2, WindowFacts DEF ContentSound, Clean, PartOf, Untouched
    <2> QED BY <1>1, <2>1, <2>3, <2>4, WindowFacts
            DEF ContentSound, Untouched, Working, Reviewed
  <1> QED BY <1>3, <1>4

LEMMA InjectContent ==
  ASSUME IInv, ContentInv, NEW r \in Run, Inject(r)
  PROVE  ContentSound(r)'
  <1>1. Types /\ RunSound(r) /\ ContentSound(r) /\ UNCHANGED <<input, parts, touched>>
    BY DEF IInv, ContentInv, Inject, inputVars
  <1>2. /\ phase[r] = "injecting" /\ phase'[r] = "signing"
        /\ apks'[r] = [s \in Splits(r) |->
            CASE s = "assets" -> apks[r][s]
              [] s = "extra" -> [apks[r][s] EXCEPT !.payload = parts["extra"]]
              [] OTHER -> [apks[r][s] EXCEPT !.payload = parts["primary"]]]
    BY <1>1 DEF Inject, Goto, Types
  <1>3. apks[r] \in [Splits(r) -> Apk]
    BY <1>1, <1>2 DEF RunSound, Working
  <1>4. Untouched(r, "primary") /\ (r \in Universal => Untouched(r, "extra"))
    BY <1>1, <1>2, WindowFacts DEF ContentSound
  <1>5. ASSUME NEW s \in Splits(r) PROVE Fresh(r, s)' /\ Clean(r, s)'
    <2>1. Fresh(r, s) /\ apks[r][s] \in Apk
      BY <1>1, <1>2, <1>3 DEF ContentSound, Working
    <2>2. CASE s = "assets"
      BY <1>1, <1>2, <2>1, <2>2 DEF ContentSound, Fresh, Clean
    <2>3. CASE s = "extra"
      <3>1. apks'[r][s] = [apks[r][s] EXCEPT !.payload = parts["extra"]]
        BY <1>2, <2>3
      <3>2. r \in Universal
        BY <2>3, OrderFacts
      <3> QED BY <1>1, <1>4, <2>1, <2>3, <3>1, <3>2 DEF Apk, Fresh, Clean, PartOf, Untouched
    <2>4. CASE s \notin {"assets", "extra"}
      <3>1. apks'[r][s] = [apks[r][s] EXCEPT !.payload = parts["primary"]]
        BY <1>2, <2>4
      <3> QED BY <1>1, <1>4, <2>1, <2>4, <3>1 DEF Apk, Fresh, Clean, PartOf, Untouched
    <2> QED BY <2>2, <2>3, <2>4
  <1> QED BY <1>2, <1>5, WindowFacts DEF ContentSound, Working, Reviewed

LEMMA SignContent ==
  ASSUME IInv, ContentInv, NEW r \in Run, Sign(r)
  PROVE  ContentSound(r)'
  <1>1. Types /\ RunSound(r) /\ ContentSound(r) /\ UNCHANGED <<input, parts, touched>>
    BY DEF IInv, ContentInv, Sign, inputVars
  <1>2. apks[r] \in [Splits(r) -> Apk] /\ Order(r)[at[r]] \in Splits(r)
    BY <1>1, OrderFacts DEF RunSound, Sign, Working
  <1>3. phase[r] = "signing" /\ phase'[r] \in {"signing", "signed"}
    BY <1>1, NextSplitFacts DEF Sign, Phase
  <1>4. PICK kept \in BOOLEAN : apks' = Signed(r, kept)
    BY DEF Sign
  <1>5. \A s \in Splits(r) : /\ apks'[r][s].bytes = apks[r][s].bytes
                             /\ apks'[r][s].payload \in {apks[r][s].payload, "lost"}
    BY <1>1, <1>2, <1>4 DEF Signed, Types, Apk
  <1>6. \A s \in Splits(r) : Fresh(r, s)' /\ Clean(r, s)'
    BY <1>1, <1>3, <1>5 DEF ContentSound, Fresh, Clean, Working
  <1> QED BY <1>3, <1>6, WindowFacts DEF ContentSound, Working, Reviewed

LEMMA LaterContent ==
  ASSUME IInv, ContentInv, NEW r \in Run, Launch(r) \/ Review(r) \/ Copy(r)
  PROVE  ContentSound(r)'
  <1>1. Types /\ ContentSound(r) /\ UNCHANGED <<apks, input, parts, touched>>
    BY DEF IInv, ContentInv, Launch, Review, Copy, inputVars
  <1>2. \/ phase'[r] = phase[r]
        \/ phase[r] \in {"signed", "copying"} /\ phase'[r] \in Reviewed
    BY <1>1 DEF Launch, Review, Copy, Goto, Types, Reviewed
  <1> QED BY <1>1, <1>2, WindowFacts
          DEF ContentSound, Fresh, Clean, Untouched, Working, Reviewed

LEMMA RunStepContent ==
  ASSUME IInv, ContentInv, NEW r \in Run, RunStep(r)
  PROVE  ContentSound(r)'
  <1>1. CASE Persist(r) \/ Return(r) \/ GiveUp(r)
    <2>1. phase'[r] \in {"returning", "done", "failed"}
      BY <1>1 DEF IInv, Types, Persist, Return, GiveUp, Goto
    <2> QED BY <2>1, Unknowing DEF Ended
  <1> QED BY <1>1, CheckContent, ExtractContent, StageCopyContent, ToolContent,
             InjectContent, SignContent, LaterContent
          DEF RunStep, OwnStep, ToolStep, Stage, Timeout, Fails

\* What a run publishes it has verified.
LEMMA PersistVerified ==
  ASSUME IInv, ContentInv, NEW r \in Run, Persist(r)
  PROVE  PublishedIsVerified'
  <1>1. Types /\ RunSound(r) /\ ContentSound(r) /\ touched' = touched
    BY DEF IInv, ContentInv, Persist, inputVars
  <1> DEFINE target == plan[r].target
  <1>2. target \in Target /\ phase[r] = "persisting"
    BY <1>1 DEF RunSound, Persist
  <1>3. /\ published'[target] = [by |-> r, apks |-> apks[r]]
        /\ \A t \in Target \ {target} : published'[t] = published[t]
    BY <1>1, <1>2 DEF Persist, Types
  <1>4. \A s \in Splits(r) : Fresh(r, s) /\ Clean(r, s)
    BY <1>1, <1>2 DEF ContentSound, Working, Reviewed
  <1>5. \A s \in Splits(r) : apks[r][s].payload \in {"declared", "other"}
    BY <1>1, <1>2 DEF RunSound, Reviewed
  <1>6. ASSUME NEW t \in Target, Exists(t)', NEW s \in Splits(Author(t)')
        PROVE  /\ \/ Package(t)'[s].bytes = "pinned"
                  \/ s # "extra" /\ "xapk" \in touched[Author(t)']
               /\ \/ Package(t)'[s].payload = "declared"
                  \/ s # "extra" /\ "primary" \in touched[Author(t)']
                  \/ s = "extra" /\ "extra" \in touched[Author(t)']
    <2>1. CASE t = target
      <3>1. Author(t)' = r /\ Package(t)' = apks[r]
        BY <1>3, <2>1 DEF Author, Package
      <3> QED BY <1>4, <1>5, <1>6, <3>1 DEF Fresh, Clean, PartOf
    <2>2. CASE t # target
      BY <1>3, <1>6, <2>2 DEF ContentInv, PublishedIsVerified, Exists, Author, Package
    <2> QED BY <2>1, <2>2
  <1> QED BY <1>1, <1>6 DEF PublishedIsVerified, Exists, Author, Package

\* An input that is replaced in a window leaves its trace.
LEMMA ReplacementContent ==
  ASSUME IInv, ContentInv, Replacement
  PROVE  ContentInv'
  <1>1. Types /\ UNCHANGED <<phase, apks, published>>
    BY DEF IInv, Replacement, ReplaceInput, ReplacePart, runVars
  <1>2. /\ DOMAIN touched' = Run
        /\ \A r \in Run : touched[r] \subseteq touched'[r]
    BY DEF Replacement, ReplaceInput, ReplacePart, Touch, ContentInv
  <1>3. \A r \in Run : phase[r] = "verified" =>
            input'[r].xapk = input[r].xapk \/ "xapk" \in touched'[r]
    BY <1>1, WindowFacts DEF Replacement, ReplaceInput, ReplacePart, Touch, Types
  <1>4. \A r \in Run, p \in Part : phase[r] \in Window(p) =>
            parts'[p] = parts[p] \/ p \in touched'[r]
    BY <1>1 DEF Replacement, ReplaceInput, ReplacePart, Touch, Types
  <1>5. ASSUME NEW r \in Run PROVE ContentSound(r)'
    <2>1. ContentSound(r)
      BY DEF ContentInv
    <2>2. \A p \in Part : phase[r] \in Window(p) /\ Untouched(r, p) => Untouched(r, p)'
      BY <1>2, <1>4 DEF Untouched
    <2>3. \A s : (Fresh(r, s) => Fresh(r, s)') /\ (Clean(r, s) => Clean(r, s)')
      BY <1>1, <1>2 DEF Fresh, Clean
    <2>4. Splits(r)' = Splits(r) /\ "primary" \in Part /\ "extra" \in Part
      BY DEF Splits, Order, Part
    <2>5. phase[r] = "verified" => input'[r].xapk = "pinned" \/ "xapk" \in touched'[r]
      BY <1>2, <1>3, <2>1 DEF ContentSound
    <2> QED BY <1>1, <2>1, <2>2, <2>3, <2>4, <2>5 DEF ContentSound
  <1>6. PublishedIsVerified'
    <2>1. \A t \in Target : Exists(t) => Author(t) \in Run
      BY DEF IInv, PackageSound
    <2> QED BY <1>1, <1>2, <2>1 DEF ContentInv, PublishedIsVerified, Exists, Author, Package
  <1> QED BY <1>2, <1>5, <1>6 DEF ContentInv

\* Steps that read and write no input of a run.
LEMMA ContentFrame ==
  ASSUME IInv, ContentInv, UNCHANGED <<published, input, parts, touched>>,
         \A r \in Run : ContentSound(r)' \/ (phase'[r] = phase[r] /\ apks'[r] = apks[r])
  PROVE  ContentInv'
  <1>1. ASSUME NEW r \in Run PROVE ContentSound(r)'
    BY DEF ContentInv, ContentSound, Fresh, Clean, Untouched
  <1> QED BY <1>1 DEF ContentInv, PublishedIsVerified, Exists, Author, Package

LEMMA ContentStep == IInv /\ ContentInv /\ [Next]_vars => ContentInv'
  <1> SUFFICES ASSUME IInv, ContentInv, [Next]_vars PROVE ContentInv'
    OBVIOUS
  <1>1. CASE UNCHANGED runVars /\ UNCHANGED inputVars
    BY <1>1, ContentFrame DEF runVars, inputVars
  <1>2. CASE BootStep
    BY <1>1, <1>2 DEF BootStep, Validate, OpenPassword, WritePassword, ReadPassword,
       Generate, Generated, Export, Identify, WriteIdentity, Serve, Refuse, pipelineVars
  <1>3. CASE Restart \/ Lose \/ Exchange
    BY <1>1, <1>3 DEF Restart, Lose, Exchange, pipelineVars
  <1>4. CASE Crash
    <2>1. \A r \in Run : phase'[r] \in {"new"} \cup Ended
      BY <1>4 DEF Crash, RunsDie, Active, Ended
    <2>2. \A r \in Run : ContentSound(r)'
      BY <2>1, Unknowing
    <2> QED BY <1>4, <2>2, ContentFrame DEF Crash, RunsDie, inputVars
  <1>5. CASE Request
    <2>1. PICK r \in Run, t \in Target : Plan(r, fingerprint, t)
      BY <1>5 DEF Request
    <2>2. phase'[r] = "planned" /\ \A q \in Run \ {r} : phase'[q] = phase[q]
      BY <2>1 DEF IInv, Types, Plan, Goto
    <2>3. ContentSound(r)'
      BY <2>2, Unknowing
    <2> QED BY <2>1, <2>2, <2>3, ContentFrame DEF Plan, inputVars
  <1>6. ASSUME NEW r \in Run, RunStep(r) PROVE ContentInv'
    <2>1. ContentSound(r)'
      BY <1>6, RunStepContent
    <2>2. UNCHANGED <<input, parts, touched>>
      BY <1>6, RunStepFrame DEF inputVars
    <2>3. \A q \in Run \ {r} : phase'[q] = phase[q] /\ apks'[q] = apks[q]
      BY <1>6, RunStepFrame
    <2>4. CASE published' = published
      BY <2>1, <2>2, <2>3, <2>4, ContentFrame
    <2>5. CASE Persist(r)
      <3>1. ASSUME NEW q \in Run \ {r} PROVE ContentSound(q)'
        BY <2>2, <2>3 DEF ContentInv, ContentSound, Fresh, Clean, Untouched
      <3> QED BY <2>1, <2>2, <2>5, <3>1, PersistVerified DEF ContentInv
    <2> QED BY <1>6, <2>4, <2>5, RunStepFrame
  <1>7. CASE Work
    BY <1>6, <1>7, ReplacementContent DEF Work
  <1>8. CASE UNCHANGED vars
    BY <1>1, <1>8 DEF vars, pipelineVars
  <1> QED BY <1>2, <1>3, <1>4, <1>5, <1>7, <1>8 DEF Next

\* A published package was made from the pinned original and the declared
\* artifacts, unless one was replaced between its last check and its last use in
\* Pipeline::run; the second ABI split has no such moment.
THEOREM PackagesVerified == Spec => []PublishedIsVerified
  <1>1. Init => ContentInv
    <2> SUFFICES ASSUME Init PROVE ContentInv
      OBVIOUS
    <2>1. \A r \in Run : ContentSound(r)
      BY WindowFacts DEF Init, PipelineInit, ContentSound, Working, Reviewed
    <2> QED BY <2>1 DEF Init, PipelineInit, ContentInv, PublishedIsVerified, Exists
  <1>2. ContentInv => PublishedIsVerified
    BY DEF ContentInv
  <1> QED BY <1>1, <1>2, ContentStep, Inductive, PTL DEF Spec
=============================================================================
