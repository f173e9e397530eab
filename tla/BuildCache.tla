----------------------------- MODULE BuildCache -----------------------------
(***************************************************************************)
(* Building packages in the worker processes of a blue/green deployment:   *)
(* patch_upload, prepare_operator_source, build_or_reuse and               *)
(* write_checksum_noclobber of patcher-web/src/main.rs, build_lock of      *)
(* gateway.rs, and run_checked and publish_noclobber of pipeline.rs.       *)
(*                                                                         *)
(* Every worker is a generation of its own, so its package has a cache key *)
(* of its own; a worker that is started again finds the entry it left.     *)
(***************************************************************************)
EXTENDS Integers, FiniteSets

CONSTANTS
    Worker,     \* the generations
    Prepared,   \* those with an operator source: built before serving
    NoWorker,   \* nobody holds the lock
    MaxFaults   \* bound: kills, stops, refusals, damage and failing steps

ASSUME CacheAssumption ==
    /\ Prepared \subseteq Worker
    /\ NoWorker \notin Worker
    /\ IsFiniteSet(Worker)
    /\ MaxFaults \in Nat

VARIABLES
    life,     \* life[w]: the process; "serving" its package or "open" to uploads
    job,      \* job[w]: the build it is working on
    permit,   \* permit[w]: AppState::worker has its one permit
    upload,   \* upload[w]: the temporary directory of the upload exists
    client,   \* client[w]: the uploading client is still connected
    lock,     \* holder of heavy-build.lock
    tool,     \* tool[w]: a tool of the pipeline runs as a child of w
    orphans,  \* tools whose worker is gone
    output,   \* output[w]: what <key>.xapk in the cache holds
    sidecar,  \* sidecar[w]: what <key>.sha256 is the digest of
    served,   \* history: each package handed out, and the digest it has then
    faults    \* history: faults so far

vars == <<life, job, permit, upload, client, lock, tool, orphans, output,
          sidecar, served, faults>>

files == <<output, sidecar>>
owned == <<permit, upload, client>>

\* A job in spawn_blocking or in prepare_operator_source, and one that holds
\* the lock of build_or_reuse.
Running == {"queued", "locked", "building", "published"}
Locked  == {"locked", "building", "published"}

\* A cached file: absent, as it was built, or damaged since.
Content == {"none", "good", "bad"}

Fault == faults < MaxFaults /\ faults' = faults + 1

-----------------------------------------------------------------------------
Init ==
    /\ life = [w \in Worker |-> "down"]
    /\ job = [w \in Worker |-> "none"]
    /\ permit = [w \in Worker |-> TRUE]
    /\ upload = [w \in Worker |-> FALSE]
    /\ client = [w \in Worker |-> FALSE]
    /\ lock = NoWorker
    /\ tool = [w \in Worker |-> FALSE]
    /\ orphans = 0
    /\ output = [w \in Worker |-> "none"]
    /\ sidecar = [w \in Worker |-> "none"]
    /\ served = {}
    /\ faults = 0

\* A process starts; with an operator source it builds before it serves.
Start(w) ==
    /\ life[w] = "down"
    /\ life' = [life EXCEPT ![w] = IF w \in Prepared THEN "preparing" ELSE "open"]
    /\ job' = [job EXCEPT ![w] = IF w \in Prepared THEN "queued" ELSE "none"]
    /\ UNCHANGED <<owned, lock, tool, orphans, files, served, faults>>

\* patch_upload: the only permit is taken or the answer is 503 (409 where a
\* package is prepared); then the body streams into a temporary directory.
Upload(w) ==
    /\ life[w] = "open"
    /\ permit[w]
    /\ job' = [job EXCEPT ![w] = "receiving"]
    /\ permit' = [permit EXCEPT ![w] = FALSE]
    /\ upload' = [upload EXCEPT ![w] = TRUE]
    /\ client' = [client EXCEPT ![w] = TRUE]
    /\ UNCHANGED <<life, lock, tool, orphans, files, served, faults>>

\* The locals of the job, or of the handler before it, are dropped.
DropOwned(w) ==
    /\ permit' = [permit EXCEPT ![w] = TRUE]
    /\ upload' = [upload EXCEPT ![w] = FALSE]
    /\ client' = [client EXCEPT ![w] = FALSE]

\* The upload is refused, stalls, grows too large, or the client goes away.
UploadEnds(w) ==
    /\ job[w] = "receiving"
    /\ job' = [job EXCEPT ![w] = "none"]
    /\ DropOwned(w)
    /\ UNCHANGED <<life, lock, tool, orphans, files, served, faults>>

\* The body is complete: spawn_blocking takes over permit and directory.
Submit(w) ==
    /\ job[w] = "receiving"
    /\ job' = [job EXCEPT ![w] = "queued"]
    /\ UNCHANGED <<life, owned, lock, tool, orphans, files, served, faults>>

\* Mutant: the request future keeps the owners and drops them.
ClientTakesAll(w) ==
    /\ job[w] \in Running
    /\ client[w]
    /\ DropOwned(w)
    /\ UNCHANGED <<life, job, lock, tool, orphans, files, served, faults>>

\* The client goes away while the job runs: only the request future is gone.
ClientLeaves(w) ==
    /\ job[w] \in Running
    /\ client[w]
    /\ client' = [client EXCEPT ![w] = FALSE]
    /\ UNCHANGED <<life, job, permit, upload, lock, tool, orphans, files, served, faults>>

\* Mutant: a lock that others may share.
AcquireShared(w) ==
    /\ job[w] = "queued"
    /\ lock' = w
    /\ job' = [job EXCEPT ![w] = "locked"]
    /\ UNCHANGED <<life, owned, tool, orphans, files, served, faults>>

\* build_lock: file.lock() blocks until the lock is free.
Acquire(w) ==
    /\ job[w] = "queued"
    /\ lock = NoWorker
    /\ lock' = w
    /\ job' = [job EXCEPT ![w] = "locked"]
    /\ UNCHANGED <<life, owned, tool, orphans, files, served, faults>>

\* The job returns: the lock file is closed and the owners are dropped. A
\* failed prebuild ends the process, a good one lets it serve.
Return(w, ok) ==
    /\ job' = [job EXCEPT ![w] = "none"]
    /\ lock' = IF lock = w THEN NoWorker ELSE lock
    /\ tool' = [tool EXCEPT ![w] = FALSE]
    /\ DropOwned(w)
    /\ life' = IF life[w] # "preparing" THEN life
               ELSE [life EXCEPT ![w] = IF ok THEN "serving" ELSE "down"]
    /\ served' = IF ok /\ (client[w] \/ life[w] = "preparing")
                 THEN served \cup {[package |-> output[w], digest |-> sidecar'[w]]}
                 ELSE served

\* prepare_operator_source: the operator's source is refused before the lock,
\* and the worker takes complete uploads instead.
SourceRejected(w) ==
    /\ life[w] = "preparing"
    /\ job[w] = "queued"
    /\ life' = [life EXCEPT ![w] = "open"]
    /\ job' = [job EXCEPT ![w] = "none"]
    /\ Fault
    /\ UNCHANGED <<owned, lock, tool, orphans, files, served>>

\* verify_xapk refuses the upload before the lock, the lock file cannot be
\* opened, or verify_xapk refuses the source (having changed) under the lock.
Rejected(w) ==
    /\ job[w] \in {"queued", "locked"}
    /\ Fault
    /\ UNCHANGED <<orphans, files>>
    /\ Return(w, FALSE)

\* Mutant: a cached package is trusted without its sidecar.
ReuseUnchecked(w) ==
    /\ job[w] = "locked"
    /\ output[w] # "none"
    /\ UNCHANGED <<orphans, files, faults>>
    /\ Return(w, TRUE)

\* The cached package is there and matches its sidecar.
Reuse(w) ==
    /\ job[w] = "locked"
    /\ output[w] # "none"
    /\ sidecar[w] = output[w]
    /\ UNCHANGED <<orphans, files, faults>>
    /\ Return(w, TRUE)

\* Mutant: the job waits for somebody else to write the sidecar.
NoSidecarRetried(w) ==
    /\ job[w] = "locked"
    /\ output[w] # "none"
    /\ sidecar[w] = "none"
    /\ job' = [job EXCEPT ![w] = "queued"]
    /\ lock' = NoWorker
    /\ UNCHANGED <<life, owned, tool, orphans, files, served, faults>>

\* "cached XAPK has no verified SHA-256 sidecar".
NoSidecar(w) ==
    /\ job[w] = "locked"
    /\ output[w] # "none"
    /\ sidecar[w] = "none"
    /\ UNCHANGED <<orphans, files, faults>>
    /\ Return(w, FALSE)

\* "cached XAPK failed its SHA-256 sidecar check".
Mismatch(w) ==
    /\ job[w] = "locked"
    /\ output[w] # "none"
    /\ sidecar[w] \notin {"none", output[w]}
    /\ UNCHANGED <<orphans, files, faults>>
    /\ Return(w, FALSE)

\* Pipeline::run starts its first tool.
Build(w) ==
    /\ job[w] = "locked"
    /\ output[w] = "none"
    /\ job' = [job EXCEPT ![w] = "building"]
    /\ tool' = [tool EXCEPT ![w] = TRUE]
    /\ UNCHANGED <<life, owned, lock, orphans, files, served, faults>>

\* A tool fails or exceeds its time and is killed, or a check fails.
BuildFails(w) ==
    /\ job[w] = "building"
    /\ Fault
    /\ UNCHANGED <<orphans, files>>
    /\ Return(w, FALSE)

\* The last tool is done, its output is validated and published.
Publish(w) ==
    /\ job[w] = "building"
    /\ job' = [job EXCEPT ![w] = "published"]
    /\ tool' = [tool EXCEPT ![w] = FALSE]
    /\ output' = [output EXCEPT ![w] = "good"]
    /\ UNCHANGED <<life, owned, lock, orphans, sidecar, served, faults>>

\* The digest of the published file, then write_checksum_noclobber.
Checksum(w) ==
    /\ job[w] = "published"
    /\ sidecar' = [sidecar EXCEPT ![w] = output[w]]
    /\ Return(w, TRUE)
    /\ UNCHANGED <<orphans, output, faults>>

ChecksumFails(w) ==
    /\ job[w] = "published"
    /\ Fault
    /\ UNCHANGED <<orphans, files>>
    /\ Return(w, FALSE)

\* A draining worker exits once requests and blocking jobs are done.
Drained(w) ==
    /\ life[w] = "draining"
    /\ job[w] = "none"
    /\ life' = [life EXCEPT ![w] = "down"]
    /\ UNCHANGED <<job, owned, lock, tool, orphans, files, served, faults>>

\* The process is gone at once; the kernel closes the lock file, and a tool
\* that runs is nobody's child any more.
Gone(w) ==
    /\ life' = [life EXCEPT ![w] = "down"]
    /\ job' = [job EXCEPT ![w] = "none"]
    /\ lock' = IF lock = w THEN NoWorker ELSE lock
    /\ tool' = [tool EXCEPT ![w] = FALSE]
    /\ orphans' = IF tool[w] THEN orphans + 1 ELSE orphans
    /\ DropOwned(w)
    /\ UNCHANGED <<files, served>>

\* SIGTERM. The handler is installed by axum::serve only, so a worker that is
\* still preparing is ended by it; one that serves drains.
Stop(w) ==
    /\ \/ life[w] = "preparing" /\ Gone(w)
       \/ /\ life[w] \in {"serving", "open"}
          /\ life' = [life EXCEPT ![w] = "draining"]
          /\ UNCHANGED <<job, owned, lock, tool, orphans, files, served>>
    /\ Fault

\* The process crashes or is killed.
Kill(w) ==
    /\ life[w] # "down"
    /\ Gone(w)
    /\ Fault

\* The cached package is damaged in place.
Damage(w) ==
    /\ output[w] = "good"
    /\ output' = [output EXCEPT ![w] = "bad"]
    /\ Fault
    /\ UNCHANGED <<life, job, owned, lock, tool, orphans, sidecar, served>>

\* A tool without a worker comes to its end.
OrphanEnds ==
    /\ orphans > 0
    /\ orphans' = orphans - 1
    /\ UNCHANGED <<life, job, owned, lock, tool, files, served, faults>>

Next ==
    \/ \E w \in Worker :
         \/ Start(w)
         \/ Upload(w)
         \/ UploadEnds(w)
         \/ Submit(w)
         \/ ClientLeaves(w)
         \/ Acquire(w)
         \/ SourceRejected(w)
         \/ Rejected(w)
         \/ Reuse(w)
         \/ NoSidecar(w)
         \/ Mismatch(w)
         \/ Build(w)
         \/ BuildFails(w)
         \/ Publish(w)
         \/ Checksum(w)
         \/ ChecksumFails(w)
         \/ Drained(w)
         \/ Stop(w)
         \/ Kill(w)
         \/ Damage(w)
    \/ OrphanEnds

Spec == Init /\ [][Next]_vars

\* A stopped worker is started again; uploads end (600 seconds); jobs run to
\* their end (tools are killed at their time limit); whoever waits for a file
\* lock that is released again and again gets it, as the kernel queues them.
Fairness ==
    \A w \in Worker :
        /\ WF_vars(Start(w))
        /\ WF_vars(UploadEnds(w) \/ Submit(w))
        /\ SF_vars(Acquire(w))
        /\ WF_vars(Reuse(w) \/ NoSidecar(w) \/ Mismatch(w) \/ Build(w))
        /\ WF_vars(Publish(w) \/ BuildFails(w))
        /\ WF_vars(Checksum(w) \/ ChecksumFails(w))
        /\ WF_vars(Drained(w))

FairSpec == Spec /\ Fairness

-----------------------------------------------------------------------------
(* Properties.                                                             *)

\* Processes, jobs, the lock and the cache entries are in one of the states
\* the code distinguishes, and orphaned tools are never fewer than none.
TypeOK ==
    /\ life \in [Worker -> {"down", "preparing", "serving", "open", "draining"}]
    /\ job \in [Worker -> {"none", "receiving"} \cup Running]
    /\ permit \in [Worker -> BOOLEAN]
    /\ upload \in [Worker -> BOOLEAN]
    /\ client \in [Worker -> BOOLEAN]
    /\ lock \in Worker \cup {NoWorker}
    /\ tool \in [Worker -> BOOLEAN]
    /\ orphans \in Nat
    /\ output \in [Worker -> Content]
    /\ sidecar \in [Worker -> Content]
    /\ served \subseteq [package : Content, digest : Content]
    /\ faults \in Nat

\* Whoever builds holds the lock, and a tool runs for it only: the workers of
\* two generations never build at the same time, whatever clients disconnect
\* and jobs fail.
OneBuilder ==
    \A w \in Worker : job[w] \in Locked \/ tool[w] => lock = w

\* A job never loses what it reads, nor the permit that keeps others out: a
\* client that disconnects releases neither ("These owners must survive
\* cancellation of the HTTP request future").
JobKeepsOwners ==
    \A w \in Worker :
        job[w] \in Running /\ life[w] \in {"open", "draining"}
            => upload[w] /\ ~permit[w]

\* A package is handed out only when its sidecar names the content it has at
\* that moment, also when the process that built it died half-way or the cache
\* was damaged since.
ServedIsVerified ==
    \A s \in served : s.package # "none" /\ s.digest = s.package

\* A job always ends, and with it the permit comes back, although it waits
\* for the lock of another process.
JobsEnd == \A w \in Worker : job[w] # "none" ~> job[w] = "none"

\* BLUE_GREEN.md: one heavy task at a time, across instances.
OneHeavyTask == orphans + Cardinality({w \in Worker : tool[w]}) <= 1

\* docker/README.md: "Restarting the same release reuses validated output":
\* once its package is published, and unless that is damaged, a worker that is
\* restarted comes to serve.
RestartReuses ==
    \A w \in Prepared :
        output[w] = "good" ~> life[w] \in {"serving", "open"} \/ output[w] = "bad"
=============================================================================
