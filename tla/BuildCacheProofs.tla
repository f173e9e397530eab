--------------------------- MODULE BuildCacheProofs ---------------------------
(***************************************************************************)
(* Theorems about BuildCache, for any set of workers and any number of     *)
(* faults: at most one worker builds, a job keeps what it owns, and only   *)
(* verified packages are handed out.                                       *)
(***************************************************************************)
EXTENDS BuildCache, TLAPS

\* What the properties rest on, for one worker: only a process has a job, who is
\* at work on a package holds the lock, a tool runs only during a build, a
\* published job has its package, and where uploads are taken their owners are
\* held until the job ends. A worker that serves its package has no job.
JobSound(w) ==
    /\ life[w] = "down" => job[w] = "none"
    /\ job[w] \in Locked => lock = w
    /\ tool[w] = TRUE => job[w] = "building"
    /\ job[w] = "published" => output[w] # "none"
    /\ life[w] = "serving" => job[w] = "none"
    /\ life[w] = "preparing" => job[w] # "receiving"
    /\ life[w] # "preparing" /\ job[w] # "none" => upload[w] = TRUE /\ permit[w] = FALSE

IInv ==
    /\ TypeOK
    /\ \A w \in Worker : JobSound(w)
    /\ ServedIsVerified

\* The job of one worker ends with Return or with the process: the others
\* keep what they have, and the lock is released only by its holder.
LEMMA ReturnSound ==
  ASSUME TypeOK, \A v \in Worker : JobSound(v), NEW w \in Worker,
         job' = [job EXCEPT ![w] = "none"],
         lock' = IF lock = w THEN NoWorker ELSE lock,
         tool' = [tool EXCEPT ![w] = FALSE],
         DropOwned(w),
         \A v \in Worker \ {w} : life'[v] = life[v] /\ output'[v] = output[v]
  PROVE  \A v \in Worker : JobSound(v)'
  <1> SUFFICES ASSUME NEW v \in Worker PROVE JobSound(v)'
    OBVIOUS
  <1>1. CASE v = w
    BY <1>1 DEF TypeOK, JobSound, Locked, DropOwned
  <1>2. CASE v # w
    <2>1. JobSound(v)
      OBVIOUS
    <2>2. job'[v] = job[v] /\ tool'[v] = tool[v] /\ upload'[v] = upload[v]
              /\ permit'[v] = permit[v] /\ output'[v] = output[v]
              /\ life'[v] = life[v]
      BY <1>2 DEF TypeOK, DropOwned
    <2>3. lock = v => lock' = v
      BY <1>2
    <2> QED BY <2>1, <2>2, <2>3 DEF JobSound
  <1> QED BY <1>1, <1>2

LEMMA ReturnTypes ==
  ASSUME TypeOK, NEW w \in Worker,
         job' = [job EXCEPT ![w] = "none"],
         lock' = IF lock = w THEN NoWorker ELSE lock,
         tool' = [tool EXCEPT ![w] = FALSE],
         DropOwned(w)
  PROVE  /\ job' \in [Worker -> {"none", "receiving"} \cup Running]
         /\ permit' \in [Worker -> BOOLEAN]
         /\ upload' \in [Worker -> BOOLEAN]
         /\ client' \in [Worker -> BOOLEAN]
         /\ lock' \in Worker \cup {NoWorker}
         /\ tool' \in [Worker -> BOOLEAN]
  BY DEF TypeOK, DropOwned, Running

\* A step that ends the job by returning, with the package verified if it is
\* handed out, preserves the invariant.
LEMMA ReturnKeeps ==
  ASSUME IInv, NEW w \in Worker, NEW ok \in BOOLEAN, Return(w, ok),
         orphans' = orphans, faults' \in Nat, output' = output,
         sidecar' \in [Worker -> Content],
         ok = TRUE => output[w] # "none" /\ sidecar'[w] = output[w]
  PROVE  IInv'
  <1>1. TypeOK'
    <2>1. life' \in [Worker -> {"down", "preparing", "serving", "open", "draining"}]
      BY DEF IInv, TypeOK, Return
    <2>2. served' \subseteq [package : Content, digest : Content]
      <3>1. [package |-> output[w], digest |-> sidecar'[w]] \in [package : Content, digest : Content]
        BY DEF IInv, TypeOK
      <3> QED BY <3>1 DEF IInv, TypeOK, Return
    <2> QED BY <2>1, <2>2, ReturnTypes DEF IInv, TypeOK, Return
  <1>2. \A v \in Worker : JobSound(v)'
    <2>1. \A v \in Worker \ {w} : life'[v] = life[v]
      BY DEF IInv, TypeOK, Return
    <2> QED BY <2>1, ReturnSound DEF IInv, Return
  <1>3. ServedIsVerified'
    <2> DEFINE s == [package |-> output[w], digest |-> sidecar'[w]]
    <2>1. \A t \in served' : t \in served \/ (ok = TRUE /\ t = s)
      BY DEF Return
    <2>2. ok = TRUE => s.package # "none" /\ s.digest = s.package
      OBVIOUS
    <2> HIDE DEF s
    <2> QED BY <2>1, <2>2 DEF IInv, ServedIsVerified
  <1> QED BY <1>1, <1>2, <1>3 DEF IInv

LEMMA GoneKeeps ==
  ASSUME IInv, NEW w \in Worker, Gone(w), faults' \in Nat
  PROVE  IInv'
  <1>1. TypeOK'
    <2>1. life' \in [Worker -> {"down", "preparing", "serving", "open", "draining"}]
      BY DEF IInv, TypeOK, Gone
    <2>2. orphans' \in Nat
      BY DEF IInv, TypeOK, Gone
    <2> QED BY <2>1, <2>2, ReturnTypes DEF IInv, TypeOK, Gone, files
  <1>2. \A v \in Worker : JobSound(v)'
    <2>1. \A v \in Worker \ {w} : life'[v] = life[v]
      BY DEF IInv, TypeOK, Gone
    <2> QED BY <2>1, ReturnSound DEF IInv, Gone, files
  <1>3. ServedIsVerified'
    BY DEF IInv, ServedIsVerified, Gone, files
  <1> QED BY <1>1, <1>2, <1>3 DEF IInv

LEMMA InitEstablishes == Init => IInv
  BY CacheAssumption DEF Init, IInv, TypeOK, JobSound, Locked, Running, Content, ServedIsVerified

LEMMA StepKeeps == IInv /\ [Next]_vars => IInv'
  <1> SUFFICES ASSUME IInv, [Next]_vars PROVE IInv'
    OBVIOUS
  <1> USE DEF IInv
  <1>f. Fault => faults' \in Nat
    BY DEF Fault, TypeOK
  <1>1. ASSUME NEW w \in Worker, Start(w) PROVE IInv'
    <2>1. TypeOK'
      BY <1>1 DEF Start, TypeOK, Running, owned, files
    <2>2. \A v \in Worker : JobSound(v)'
      BY <1>1 DEF Start, TypeOK, JobSound, Locked, owned, files
    <2> QED BY <2>1, <2>2, <1>1 DEF Start, ServedIsVerified, files
  <1>2. ASSUME NEW w \in Worker, Upload(w) PROVE IInv'
    <2>1. TypeOK'
      BY <1>2 DEF Upload, TypeOK, Running, files
    <2>2. \A v \in Worker : JobSound(v)'
      BY <1>2 DEF Upload, TypeOK, JobSound, Locked, files
    <2> QED BY <2>1, <2>2, <1>2 DEF Upload, ServedIsVerified, files
  <1>3. ASSUME NEW w \in Worker, UploadEnds(w) PROVE IInv'
    <2>1. TypeOK'
      BY <1>3 DEF UploadEnds, DropOwned, TypeOK, Running, files
    <2>2. \A v \in Worker : JobSound(v)'
      BY <1>3 DEF UploadEnds, DropOwned, TypeOK, JobSound, Locked, files
    <2> QED BY <2>1, <2>2, <1>3 DEF UploadEnds, ServedIsVerified, files
  <1>4. ASSUME NEW w \in Worker, Submit(w) PROVE IInv'
    <2>1. TypeOK'
      BY <1>4 DEF Submit, TypeOK, Running, owned, files
    <2>2. \A v \in Worker : JobSound(v)'
      BY <1>4 DEF Submit, TypeOK, JobSound, Locked, owned, files
    <2> QED BY <2>1, <2>2, <1>4 DEF Submit, ServedIsVerified, files
  <1>5. ASSUME NEW w \in Worker, ClientLeaves(w) PROVE IInv'
    <2>1. TypeOK'
      BY <1>5 DEF ClientLeaves, TypeOK, files
    <2>2. \A v \in Worker : JobSound(v)'
      BY <1>5 DEF ClientLeaves, TypeOK, JobSound, Locked, files
    <2> QED BY <2>1, <2>2, <1>5 DEF ClientLeaves, ServedIsVerified, files
  <1>6. ASSUME NEW w \in Worker, Acquire(w) PROVE IInv'
    <2>1. TypeOK'
      BY <1>6 DEF Acquire, TypeOK, Running, owned, files
    <2>2. \A v \in Worker : JobSound(v)'
      BY <1>6, CacheAssumption DEF Acquire, TypeOK, JobSound, Locked, owned, files
    <2> QED BY <2>1, <2>2, <1>6 DEF Acquire, ServedIsVerified, files
  <1>7. ASSUME NEW w \in Worker, Rejected(w) PROVE IInv'
    BY <1>7, <1>f, ReturnKeeps DEF Rejected, files, TypeOK
  <1>8. ASSUME NEW w \in Worker, Reuse(w) PROVE IInv'
    BY <1>8, ReturnKeeps DEF Reuse, files, TypeOK
  <1>9. ASSUME NEW w \in Worker, NoSidecar(w) PROVE IInv'
    BY <1>9, ReturnKeeps DEF NoSidecar, files, TypeOK
  <1>10. ASSUME NEW w \in Worker, Build(w) PROVE IInv'
    <2>1. TypeOK'
      BY <1>10 DEF Build, TypeOK, Running, owned, files
    <2>2. \A v \in Worker : JobSound(v)'
      BY <1>10 DEF Build, TypeOK, JobSound, Locked, owned, files
    <2> QED BY <2>1, <2>2, <1>10 DEF Build, ServedIsVerified, files
  <1>11. ASSUME NEW w \in Worker, BuildFails(w) PROVE IInv'
    BY <1>11, <1>f, ReturnKeeps DEF BuildFails, files, TypeOK
  <1>12. ASSUME NEW w \in Worker, Publish(w) PROVE IInv'
    <2>1. TypeOK'
      BY <1>12 DEF Publish, TypeOK, Running, Content, owned
    <2>2. \A v \in Worker : JobSound(v)'
      BY <1>12 DEF Publish, TypeOK, JobSound, Locked, owned
    <2> QED BY <1>12, <2>1, <2>2 DEF Publish, ServedIsVerified
  <1>13. ASSUME NEW w \in Worker, Checksum(w) PROVE IInv'
    <2>1. sidecar' \in [Worker -> Content] /\ sidecar'[w] = output[w]
      BY <1>13 DEF Checksum, TypeOK
    <2>2. output[w] # "none"
      BY <1>13 DEF Checksum, JobSound
    <2> QED BY <1>13, <2>1, <2>2, ReturnKeeps DEF Checksum, TypeOK
  <1>14. ASSUME NEW w \in Worker, ChecksumFails(w) PROVE IInv'
    BY <1>14, <1>f, ReturnKeeps DEF ChecksumFails, files, TypeOK
  <1>15. ASSUME NEW w \in Worker, Drained(w) PROVE IInv'
    <2>1. TypeOK'
      BY <1>15 DEF Drained, TypeOK, owned, files
    <2>2. \A v \in Worker : JobSound(v)'
      BY <1>15 DEF Drained, TypeOK, JobSound, owned, files
    <2> QED BY <2>1, <2>2, <1>15 DEF Drained, ServedIsVerified, files
  <1>16. ASSUME NEW w \in Worker, Stop(w) PROVE IInv'
    <2>1. CASE Gone(w)
      BY <1>16, <1>f, <2>1, GoneKeeps DEF Stop
    <2>2. CASE /\ life[w] \in {"serving", "open"}
               /\ life' = [life EXCEPT ![w] = "draining"]
               /\ UNCHANGED <<job, owned, lock, tool, orphans, files, served>>
      <3>1. TypeOK'
        BY <1>16, <1>f, <2>2 DEF Stop, TypeOK, owned, files
      <3>2. \A v \in Worker : JobSound(v)'
        BY <2>2 DEF TypeOK, JobSound, owned, files
      <3> QED BY <3>1, <3>2, <2>2 DEF ServedIsVerified, files
    <2> QED BY <1>16, <2>1, <2>2 DEF Stop
  <1>17. ASSUME NEW w \in Worker, Kill(w) PROVE IInv'
    BY <1>17, <1>f, GoneKeeps DEF Kill
  <1>18. CASE OrphanEnds
    <2>1. TypeOK'
      BY <1>18 DEF OrphanEnds, TypeOK, owned, files
    <2>2. \A v \in Worker : JobSound(v)'
      BY <1>18 DEF OrphanEnds, JobSound, owned, files
    <2> QED BY <2>1, <2>2, <1>18 DEF OrphanEnds, ServedIsVerified, files
  <1>20. ASSUME NEW w \in Worker, SourceRejected(w) PROVE IInv'
    <2>1. TypeOK'
      BY <1>20, <1>f DEF SourceRejected, TypeOK, owned, files
    <2>2. \A v \in Worker : JobSound(v)'
      BY <1>20 DEF SourceRejected, TypeOK, JobSound, Locked, owned, files
    <2> QED BY <2>1, <2>2, <1>20 DEF SourceRejected, ServedIsVerified
  <1>21. ASSUME NEW w \in Worker, Mismatch(w) PROVE IInv'
    BY <1>21, ReturnKeeps DEF Mismatch, files, TypeOK
  <1>22. ASSUME NEW w \in Worker, Damage(w) PROVE IInv'
    <2>1. TypeOK'
      BY <1>22, <1>f DEF Damage, TypeOK, Content, owned
    <2>2. \A v \in Worker : JobSound(v)'
      BY <1>22 DEF Damage, TypeOK, JobSound, Locked, owned
    <2> QED BY <2>1, <2>2, <1>22 DEF Damage, ServedIsVerified
  <1>19. CASE UNCHANGED vars
    BY <1>19 DEF vars, TypeOK, JobSound, ServedIsVerified
  <1> QED BY <1>1, <1>2, <1>3, <1>4, <1>5, <1>6, <1>7, <1>8, <1>9, <1>10, <1>11,
             <1>12, <1>13, <1>14, <1>15, <1>16, <1>17, <1>18, <1>19, <1>20,
             <1>21, <1>22 DEF Next

LEMMA Inductive == Spec => []IInv
  <1> QED BY InitEstablishes, StepKeeps, PTL DEF Spec

\* BuildCache keeps its types: jobs, locks and files are in the states the
\* code distinguishes, for any set of workers.
THEOREM BuildCacheType == Spec => []TypeOK
  <1>1. IInv => TypeOK
    BY DEF IInv
  <1> QED BY <1>1, Inductive, PTL

\* Workers of different generations never build at the same time
\* (build_lock), however many there are and whatever faults happen.
THEOREM OneBuilderAlways == Spec => []OneBuilder
  <1>1. IInv => OneBuilder
    BY DEF IInv, TypeOK, JobSound, OneBuilder, Locked
  <1> QED BY <1>1, Inductive, PTL

\* A running job keeps its upload and its permit (patch_upload).
THEOREM OwnersKept == Spec => []JobKeepsOwners
  <1>1. IInv => JobKeepsOwners
    BY DEF IInv, TypeOK, JobSound, JobKeepsOwners, Running
  <1> QED BY <1>1, Inductive, PTL

\* Only packages that match their sidecar are handed out (build_or_reuse).
THEOREM ServedVerified == Spec => []ServedIsVerified
  <1>1. IInv => ServedIsVerified
    BY DEF IInv
  <1> QED BY <1>1, Inductive, PTL
=============================================================================
