# A TLA+ model of guitar-girl-memorial-patcher

The patcher turns an original game package into a patched one and hands it out
over HTTP. What is hard to get right is a pipeline of external tools whose
inputs may change under it, an admission layer shared by racing requests,
one-time tickets for downloads, a build cache shared by processes that may die,
a supervisor that replaces the running worker without losing a download, and
arithmetic on numbers that come out of files. This directory models those parts,
checks them with TLC on small instances, and proves with TLAPS, for every
instance, every safety property that TLC checks.

## 1. Inventory

| part | source | state it keeps | operations |
|---|---|---|---|
| admission layer | `patcher-web/src/security.rs` | ledger of client addresses (buckets, failures, ban, slots in use), last sweep, semaphore | `protect_inner`, `admit`, `failed`, `leave`, `Lease::drop` |
| prepared-package tickets | `patcher-web/src/main.rs`, `patcher-core/src/challenge.rs` | maps of challenges and of download grants | `issue_challenge`, `prove_challenge`, `grant_download`, `download` |
| package building and cache | `main.rs`, `gateway.rs` (`build_lock`), `pipeline.rs` | one build permit, upload directories, `heavy-build.lock`, `<key>.xapk` and its sidecar | `patch_upload`, `prepare_operator_source`, `build_or_reuse`, shutdown |
| gateway | `gateway.rs` | flights per worker, `routes.stats.json` | `forward`, the statistics task |
| blue/green supervisor | `deploy/run_managed.py` | `state.json`, `generations/*.json`, `routes.json`, child processes | `main`, `BlueGreen.activate`, `BlueGreen.maintain`, `stage` |
| patch pipeline | `patcher-core/src/pipeline*.rs` | a workspace with the splits, a temporary output | `Pipeline::run` and its stages, `wait_for_child`, `publish_noclobber` |
| package, plan, manifest, version | `patcher-core/src` | none | checks and arithmetic |
| command-line tool | `patcher-cli` | none | a front end of the pipeline that takes no lock |
| container entrypoint | `docker/*.py` | password, keystore and `identity.json`, config, child processes | identity bootstrap, supervision |
| LAN hotfix installer | `deploy/install_lan_hotfix.py` | installed files and backups | install, rollback |
| release tooling, web page | `tools/`, `web/` | none | release scripts; the browser's half of the protocol |

How they interact. A request meets the gateway's admission layer, is routed by
`routes.json` to a worker, meets that worker's own admission layer, and then a
handler. The supervisor writes `routes.json`, reads the gateway's statistics
file, and starts and stops gateway and workers. Workers of two generations
share only the build lock and the cache directory. A build runs the pipeline,
which signs with the keystore that the container's entrypoint (or the operator)
made; the command-line tool runs the same pipeline beside it.

What is hard: requests that race between reading the clock and taking a lock;
handlers that are dropped at any await; deaths of processes between any two
file writes; statistics that are stale when they are used; deadlines that
must agree across three processes. `PROJECT.json` lists these hazards at the
line where each bites.

What makes each part correct:

* admission: slots, permits and table entries are accounted for exactly; no
  address gets more budget by being forgotten; a ban is served;
* tickets: at most one grant per challenge and one download per grant, and
  nothing promised is dropped early;
* building: one builder at a time, a job keeps what it reads, nothing
  unverified is served, jobs end, a restart comes up;
* supervisor: Android revisions are never reused, whatever is on disk boots,
  routes and processes agree, an update never takes the service away, and the
  service comes back after faults;
* gateway and retention: a request reaches the worker that can answer it, as the
  same visitor; a worker outlives the uploads and the tickets it gave out;
* pipeline: what is published is complete, made from verified inputs, signed as
  planned and by the run that reports it; every run ends and cleans up;
* entrypoint: one signer for the life of a deployment, and a crash during its
  creation never makes a deployment in use unusable;
* checks and arithmetic: reads stay inside the file, a verified package is what
  is unpacked, updates install.

## 2. Modules

| module | models | extends |
|---|---|---|
| `TokenBucket` | `Bucket` | |
| `Admission` | the admission layer | `TokenBucket` |
| `AdmissionBudget`, `AdmissionBans` | the same steps, with histories of what was granted and of bans | `Admission` |
| `Tickets` | abstract one-time tickets: no clock, lock or request | |
| `PrebuiltWorker` | the ticket handlers; implements `Tickets` | instance of `Tickets` |
| `BuildCache` | worker processes, jobs, lock, cache | |
| `Supervisor` | `main` and `BlueGreen` | |
| `Retention` | gateway flights, statistics and draining | |
| `Pipeline` | `Pipeline::run`, several at a time, and its tools | |
| `Signing` | the container's signing files, and pipeline runs that sign with them | `Pipeline` |
| `Elf` | the readers of native libraries in `pipeline.rs` | |
| `Package` | `verify_xapk`, unpacking, injection, the output package | |
| `Release` | Android versions, from `version.rs` to `next_revision` | |
| `Ingress` | visitor resolution, header cleaning, routing | |
| `Checks` | one call of each of these algorithms, with reference definitions | `Elf`, `Package`, `Release`, `Ingress`, `TokenBucket` |
| `MC*` | instances for TLC | |
| `AdmissionProofs`, `SupervisorProofs`, `BuildCacheProofs`, `RetentionProofs`, `ChecksProofs` | theorems | the module proved about |
| `WorkerProofs` | theorems about the tickets | `PrebuiltWorker` |
| `PipelineProofs` | theorems about runs and signing files | `Signing` |
| `LedgerProofs` | theorems about the two histories | `AdmissionProofs`, `AdmissionBudget`, `AdmissionBans` |

Operators whose comment begins with "Mutant" are not part of any
specification. Each is a plausible defect of an operator that follows it;
`PROJECT.json` names the property it would break.

### Admission

`clients` is the ledger's map, a function on the tracked addresses; `permits`
the semaphore; `req[r]` a request slot whose `phase` is the place in
`protect_inner`. `Arrive` takes the permit and reads the clock; `Admit`
(`RefuseFull`, `RefuseBanned`, `RefuseCrowded`, `RefuseRate`, `RefuseOperation`,
`Accept`) is one pass of `admit` under the ledger's mutex with the stamp read
before, the sweep included; `RespondOk`, `RespondFailure` and `HandlerTimeout`
end the handler; `Failed` is `failed()` under the mutex; `DropLease` and
`ReleasePermit` are the two halves of dropping a lease. Because the stamp is
taken before the mutex, stamps reach the ledger out of order; `MaxSkew` bounds
by how much. Tokens are whole units: one token is `period` units and a second
refills `cap` units, which is the code's f64 arithmetic without its rounding, for
instants on whole seconds; what f64 rounds is left out. The header checks are abstracted to their outcome;
how the client's address is found is in `Ingress`.

### PrebuiltWorker and Tickets

`challenges` and `downloads` are the two maps with their expiry. A handler is
cut at the awaits where it may be overtaken or dropped: `Ask`/`Issue` for
`issue_challenge`, `Prove`/`Grant` for `prove_challenge` and `grant_download`
(token and expiry are fixed in the first half), `Cancel` in between. `Download`
is atomic, since the grant is removed under the lock before anything is looked
at. `FilesChange` is a change that `verify_prepared_metadata` sees. Nonces and
tokens are never drawn twice; the proof's content is right or wrong.

### BuildCache

Every worker is one generation with one cache key. `job[w]` is the build it
runs, `permit`, `upload` and `client` are the owners of the job, and `lock` is
the OS file lock. `output` and `sidecar` say what the two cached files hold, and
`Damage` harms a package in place. `Return` is every way out of `build_or_reuse`:
the lock file is closed, the owners are dropped, and a failed prebuild ends the
process; `NoSidecar` and `Mismatch` are the two refusals of a cached package. A
prepared worker serves its package (`"serving"`); where the operator's source is
refused before the lock (`SourceRejected`) it takes complete uploads (`"open"`)
like a worker without a source. `served` remembers each package handed out with
the digest in its sidecar at that moment. `Stop` is SIGTERM: `shutdown_signal` is installed by `axum::serve`, so a worker
that still prepares is ended by the signal's default action; one that serves
drains, and the runtime waits for the blocking job (`Drained`). `Gone` leaves a
running tool behind in `orphans`.

### Supervisor

Each `atomic_json` is one step, and `Crash` may come between any two. `disk` is
`state.json`, `mem` the dictionary in memory, `generations` the immutable
generation files, `routes` is `routes.json`. `Stage`, `Reserve`,
`StartCandidate`, `CandidateSettles`, `PersistCutover`, `PublishCutover` are one
update; each has its failing twin. `Recovered` is the except block of the loop,
`Halt` the finally block. `RollbackPublish`/`RollbackPersist` and
`RetirePublish`/`RetireStop` are `maintain`; the time when a worker may be
retired is left open here and is the subject of `Retention`. A process is
`"stuck"` when `stop()` gave up on it after an hour and no variable refers to it
any more; it is alive, and `AtMostTwoWorkers` counts it.

Without a supervisor the service is `"down"` (a start is due), `"stopped"` by the
operator, or `"failed"`. `starts` counts what the service manager counts: it
starts the supervisor `Burst` times in an interval (`Boot`) and then gives up
(`Refused`); the interval ends at any time (`IntervalPasses`), and the operator
starts a stopped or failed service whenever he likes (`OperatorStarts`).
`NeverReady` is a first worker that fails its readiness check, at this start and
maybe at each one; it is possible for a generation that was never ready, as
after the crash that the run `build_cache_restart` shows.

### Retention

One cutover seen from the old worker. `Route` reads `routes.json`, `Depart`
increments the counter, `Answer` is the worker's handler, `Land` drops the
flight. `Snapshot` writes the statistics file (counting and renaming are one
step), `Maintain` is one turn of the supervisor.

### Pipeline

`phase[r]` is the place of a run in `Pipeline::run`, `at[r]` the split its loop is
at, `tool[r]` whether it waits for a tool. An APK is what is checked about it:
the content it was made from, the identity in its manifest, what was injected,
and its signer. "similar" content passes the checks of the unpacked payloads
and differs elsewhere; "damaged" manifests and "lost" members are what a tool may
leave although it reports success. The order is the code's: `CheckArtifacts`
(no output yet, artifacts declared), `CheckSource` (the second verification; the
caller's was `Plan`), `Extract`, `StageCheck` and `StageCopy` for a second ABI,
one `Rebuild` per split, `Tables`, `Inject`, one `Sign` per split with its
checks, `Review`, `Copy`, `Persist`, `Return`. `Fails` is every error return: a
failed check, an I/O error, an exceeded quota, a tool's exit code; it drops
workspace and temporary file. `Timeout` is `wait_for_child` at its deadline.

`ReplaceInput` and `ReplacePart` replace an input file at any moment; the history
`touched` remembers when that happened between the last check of the file and
its last use, which is the only way past the checks (`PublishedIsVerified`). In
one worker the build lock serialises runs; the command-line tool takes no lock,
so the model lets runs overlap freely, also for one output path. `verify_xapk`
is one step: a file replaced while it is hashed is not modelled.

### Signing

`boot` is the place in the entrypoint's `main`. Password, keystore and identity
are written in place, so a crash may leave an empty password file, a partial
keystore or a partial `identity.json`; `validate_signing_files` and the later
checks decide what a start accepts (`Refuse` otherwise). `Lose` removes one of
the files, but never the last of them, and never the identity after the keystore
was exchanged: then nothing in the signing directory tells the old signer.
`identity.json` is reduced to its signer. The entrypoint compares the application
ID as well (entrypoint.py:96-99), and `run_managed.py` compares application ID,
signer and origin with its `state.json` (lines 577-582); both would only refuse
more starts, so the model allows more than the code. A crash is the end of the processes, not a loss of power: what was
written stays written.

### Elf, Package, Release, Ingress, Checks

Pure operators. In `Elf` a `u64` is a number below `Wide`, an `Option` a set of at
most one element; additions are checked, saturating or wrapping where the code's
are. `GnuBuildId` goes over the note segments in their order and ends at the first
with a build id or with more than `MaxNote` bytes. In `Package` a name is the sequence of its components, so that `./base.apk`
and `base.apk` are two names of one file; `Creatable` is what the file system
demands of a name that a file is created under (a name that ends in `.` or that
needs a file where a directory is fails, and with it the extraction). The code's
loops over notes, entries and members are recursive functions of the number of
turns (`NoteWalk`, `Expanded`, `WalkAlong`, `Without`). `Release` follows a revision from the
configuration, the binary and the supervisor's counter to the version code.
`Ingress` has addresses with a place, a host and a form (mapped into IPv6 or
not), the configuration rules, the headers a request brings and those the
gateway sets, and the choice of a worker for a token. Its `SecurityNew` leaves out
that a proxy list has at most 64 networks, none of them of prefix 0, and that the
client header is one of two names (security.rs:179-182): the model accepts more
configurations, and its checks hold for those too. `Checks` takes one bounded
input, computes the result the code would return, and compares it with a
reference definition that is written without the code's arithmetic.

## 3. Runs

| run | instance | shows |
|---|---|---|
| `admission` | 2 addresses, 3 requests, 1 table entry, 2 permits, 5 instants, every bucket refills before its entry is forgotten | slots, permits and table entries are exact; the table's limit holds; `BudgetConserved`: pruning never buys budget |
| `admission_bans` | 1 address, 2 requests, limit 2, window 2, ban 2, 5 instants | at most `3 * limit - 4` failures within a window pass without a ban; a ban is served (both bounds are sharp in this instance) |
| `supervisor` | 2 pairs, revisions to 5, 4 faults, 3 starts in an interval | the safety properties of the supervisor, no forgotten worker among them, and that service recovers from faults |
| `prebuilt_worker` | 3 nonces, 2 tokens, 2 requests, tables of 2 and 1, 6 seconds | refinement of `Tickets`; a grant or challenge once promised is there until it is used or ends |
| `build_cache` | 1 prepared worker, 2 with uploads, 2 faults | one builder, jobs keep their owners, what is handed out matches its sidecar, every job ends |
| `retention` | 1 visitor, all courses around one cutover, 12 instants | uploads finish; a ticket outlives its worker by one request or one turn at most |
| `deployment` | 2 runs, one with a second ABI, 2 output paths, 2 keys, 2 faults | packages are complete, verified, by one signer, and made by the run that reports success; runs end and clean up; crashes during the bootstrap harm only a deployment that has published nothing |
| `checks` | numbers to 8 for 64-bit and 64 for index arithmetic, 2 program segments, 2 note segments of 2 notes, one of them oversized, archives of 3 entries, 4 splits, revisions to 5, 12 addresses, all proxy settings | the pure algorithms agree with their references |

The bounds are chosen so that the contested resource is smaller than the
number of contenders (a table of one for two addresses, a grant table of one
for two tokens), and so that time reaches past each deadline twice: a
failure window, a ban and the pruning of an entry all fit. Durations are
scaled and keep the order they have in the code; where a property depends on
that order, a named assumption says so (`TtlAssumption`, `SkewAssumption`,
`WindowAssumption`), which TLC evaluates on the instance and the proofs cite.
`MaxTime`, `MaxFaults`, `MaxSkew`, `MaxGap` and `LatestCutover` are bounds of
the model, not of the code. Four faults are enough for each pair of faults
inside an update and another pair inside the recovery from it, and more than the
three starts that the service manager grants. Two faults are a crash between
package and sidecar and a stop or damage afterwards. One visitor is
enough for `retention`: others could only keep the old worker busy longer. Two
runs are enough to compete for a path and to use two paths, and two faults for
a replaced input and a lost file in one behaviour; crashes are not counted as
faults and may happen any number of times. In `checks` the small widths keep
every case of the arithmetic: an end below, at and above the file size, and one
that overflows.

`CHECK_DEADLOCK FALSE` is set for the supervisor, which waits for a release that
may never come when revisions have run out in the small instance, for
retention, which ends when the old worker has stopped, for `checks`, whose one
step computes a result, and for the violation runs on the worker processes and
on the restart.

### Where the code and its documents disagree

Four runs are expected to fail; each checks one sentence of the repository.

* `admission_documented_ban`: README.md promises a ban for eight failures
  within ten minutes. The window starts at its first failure and restarts at
  zero, so failures on both sides of a restart are not added up.
  `RepeatedFailuresBan` states what does hold.
* `build_cache_heavy`: one heavy task at a time across instances. A worker that
  is stopped while it prepares dies without ending its tool. `OneBuilder`
  holds: at most one worker builds. Under the supplied unit a stop of the whole
  service ends the tools too (`KillMode=control-group`); a rejected candidate
  that the supervisor stops does not go through the unit.
* `build_cache_restart`: restarting reuses validated output. After a fault
  between package and sidecar every start of that generation fails.
  `ServedIsVerified` holds: the package is not served either.
* `supervisor_workers`: "at most two worker processes" (run_managed.py:439,
  BLUE_GREEN.md:28). `stop()` waits an hour for a rejected candidate and then
  raises; the process stays alive without an owner, and the next update starts a
  third one. `OldDrainsFirst` states what holds: apart from such a process, only
  the active worker and one retired or tried worker run.

Two more disagreements have no run of their own.

* run_managed.py:549 logs "Retired worker drained; expired token window closed"
  when it stops the old worker. `last_busy` is the last turn that saw a request in
  flight, so a ticket given out after that turn ends later than the 600 quiet
  seconds and is still valid. `RemainderBounded` states by how much: one request
  or one turn of the supervisor.
* docs/DISTRIBUTED_SIGNING.md:18-19 says that the "bootstrap rejects partial
  signing-state loss before generating anything"; when only `identity.json` is
  lost, the entrypoint writes a new one from the keystore and starts. The signer
  stays the same (`OneSigner` holds).

### Fairness

`Supervisor`: the service manager restarts a failed supervisor until it has
counted too many starts (`Restart=on-failure`, `StartLimitBurst`), and the loop
takes its own steps. A worker that was ready once comes up again when it is
started: its package and checksum are in the cache, and nobody has damaged them.
Nothing is assumed of a worker that was never ready, of the end of the interval, of
the operator or of releases. The budget of faults is finite: `ServiceRecovers` says
that a deployment whose worker was ready once serves again after them, unless it
is stopped, or failed because the starts of the interval are used up; both end
only when the operator acts.

`BuildCache`: uploads end (600 seconds), tools end (they are killed at their
time limit), a draining worker exits, a stopped one is started again. The file
lock is strongly fair: it is released again and again, and the kernel queues
the processes that block on it.

`Signing`: a run's own steps go on, and the deadline of a running tool comes
(`wait_for_child` polls it). Nothing is assumed of the tools, of the entrypoint,
or of requests. A run may always fail, so `RunsEnd` says that no run is stuck
in a tool or waits for something that does not come.

## 4. Proofs

Every theorem is about all values of the constants that satisfy the `ASSUME`s of
the modules: any number of addresses, requests, workers, runs, keys, visitors,
any limits and durations, any number of faults. Each proof module defines the
inductive invariant it needs, shows in one lemma per action that it is kept, and
derives the properties.

`AdmissionProofs`: the type invariant, `LeaseAccounting` with `PerIpBound`,
`PermitAccounting` and `TableBound`. `LeaseAccounting` is inductive only together
with the types, since the sweep may drop an entry exactly when its slot counter
is zero, hence (by the equality itself) when no request of that address holds a
lease. The cardinality facts come from the library's finite-set theorems.

`LedgerProofs` is about histories that outlive an entry of the table.

* `BudgetConserved`. For a tracked address, `Covered` says that what was granted
  and what is left in the bucket were refilled by the time of its stamp, counting
  twice the seconds by which stamps ran backwards; for an address the table has
  forgotten, `Clear` says that even a full bucket gives it nothing it would not
  have. The sweep leads from the first to the second because an entry is idle
  for `Ttl` seconds when it goes, and every bucket is full again after that, even
  with stamps that are late on both sides (`TtlAssumption`).
* `BanServed`. `Owed`: the latest sentence is over, up to the skew of a stamp, or
  it still is in the table.
* `RepeatedFailuresBan`. `CountSound` says that what the table counts are the
  latest failures of the history. `Bounded` limits how many failures within one
  window the history may hold besides: those of the window before without its
  first, or those before one count that a sweep or a pardon has forgotten.
  A second forgetting cannot fall within the same window, because an entry lives
  longer than a window (`SkewAssumption`). `3 * limit - 4` is what remains.

`SupervisorProofs`: `TypeOK`, `CounterCovers`, `DiskIsBootable`, `RoutesMatch`,
`OldDrainsFirst` and the action properties `VersionNeverReused` and
`NoSelfInflictedOutage`. None of them is inductive. The inductive invariant `IInv`
adds what the code relies on silently:

* `CandidateKnown`: between staging and cutover the candidate has a generation
  file with its pair, is not the active worker, nothing is retired, and it has
  proved ready before it is persisted;
* `MemoryKnown`: what is active or retired in memory was made from the pair
  beside it and has proved ready;
* `FloorKept`: whatever has proved ready is the installation or has a generation
  file, the counter on disk covers the installation's revision, and between the
  generation file and its reservation only the candidate is above the counter;
* `Owned`: a process that is starting or up is the active, the retired or the
  candidate's;
* `NoneEarly`: a generation that was never made has no process;
* `RoutesKnown`: where routes differ from memory, the program counter says why.

`NoSelfInflictedOutage` follows from `RoutesKnown` with `CandidateKnown`: whatever
an update, its failure or `maintain` stops is never what the routes call active.

`BuildCacheProofs`: the type invariant, `OneBuilder`, `JobKeepsOwners` and
`ServedIsVerified`. Its invariant `IInv` adds, for each worker (`JobSound`), that
only a live process has a job, that a job past the lock is the one `lock`
names, that a tool runs only while building, that a job between publishing and
writing the sidecar has a package, damaged or not, and that upload and permit are
held from the upload's arrival until its job ends. `ServedIsVerified` is about the
moment of handing out, since a package may be damaged later.

`WorkerProofs`: the type invariant, `PromisesKept`, and the refinement
`OneTimeTickets`: `PrebuiltWorker` implements `Tickets`. The invariant says of a
request that waits to store its grant that its nonce and token are spent and
nobody else's (`SlotSound`, `OwnSlots`), of a challenge in the table that it is
unanswered and has its full lifetime (`ChallengeSound`), and of a grant that it is
what was promised and unused (`GrantSound`). Under it the refinement mapping is
a function of the two maps (`Views`), and each handler step is shown to be one
step of `Tickets` or a stutter: refusals, pruning and cancelled requests only
let tickets lapse, a restart lets all of them lapse, and the tick of the clock
those whose time is over.

`RetentionProofs`: the type invariant, `UploadsFinish` and `RemainderBounded`.
`FlightSound` dates the requests under way, `UploadSound` says that an upload is
in the statistics unless they are older than its departure and that a turn of
the supervisor that missed it came early, and `TicketSound` bounds the end of each
ticket by the cutover, or by the last turn that saw the worker busy.

`PipelineProofs`, with the entrypoint, its crashes and exchanged keystores around
the runs: `PublishedIsValid`, `PublishedIsVerified`, `SuccessIsOwn`,
`OnlyCrashesLitter`, `OneSigner` and `RefusedOnlyUnborn`.

* `RunSound` says what the checks passed so far have established, phase by phase:
  while signing, the splits before `at` are good, after it all of them, and after
  the review all have their injected members; a run that returns is the author
  of what is at its path. `PackageSound` says the same of what was published.
  `SuccessIsOwn` is kept by another run's `Persist` because a name that is taken is
  not taken again, and the loops are shown to reach every split (`OrderFacts`,
  `NextSplitFacts`).
* `ContentSound` follows the contents from the checks of the inputs to the splits:
  each is what was declared, or its input was replaced after its check.
* `KeySound` says that every signer in use, by a package or by an active run, is
  the same one and is `Held`: `identity.json` names it, or there is no whole
  identity and it is in the keystore, or the keystore is gone and what is left
  makes every start refuse. `BootSound` is what the entrypoint has established at
  each place, and `IntactSound` that files nobody touched are whole once the
  deployment has served.

`ChecksProofs`: all ten checks, for every input the callers can make
(`InputsAssumption`), not only the enumerated ones. `ElfReadsInside` rests on the
checked additions, `OnlyProxiesSpeak` and `SameVisitor` on the rules for the
configuration, `RoutedToIssuer` on there being at most one legacy worker,
`UpdatesInstall` on the revision being the same number from the counter to the
version code, and `WaitSuffices` on the rounding of the waiting time.

Three of them are about loops over sequences of any length. The provers cannot
instantiate the library's induction theorems, which take an operator, so the
induction is made with sets: `Least` (numbers have a least one, from the
well-foundedness of `<`), `Induction` (a set that holds 0 and is closed under
the turns of a loop holds all turns) and `Iteration` (a loop of `n` turns exists
as a function, so that the recursive functions of the model satisfy their
equations). On these rest:

* `BuildIdFound`. `NoteExtentExact`: where a note starts at a multiple of four
  inside the segment, the saturating ends are the exact ones if the note fits and
  lie outside the segment if not. `WalkSound` is the loop's invariant: either all
  notes so far fit, none was GNU's and the cursor is the exact end, or the loop
  stopped at the first that did not fit or was GNU's, with the matching result.
  `SegmentIdExact` is that for a segment within `MaxNote`, and `BuildIdExact` lifts
  it to the first segment that ends the search.
* `UnpacksAsVerified`. `ResolvedFacts`: a safe name never leads up, and leads to a
  file of the name's last part. So an entry that becomes a file with a split's
  name has that name at the end, `verify_xapk` has hashed it, and its whole name
  is the split's, whichever of the entries for the path is written last.
* `InjectionKeepsCode`. `WithoutFacts`: the loop keeps each member that is not
  replaced, once; `NextDexFacts`: the new number is above all others and does not
  wrap.

The proofs changed the model in three places. `NoteStep` and `Walk` were `CASE`s
with overlapping arms, which TLC takes in order and TLA+ does not. An entry
`base.apk/.` resolves to the file `base.apk` without ending in `.apk`: without
`Creatable`, which the file system enforces, `UnpacksAsVerified` is false. And
the new dex number is a 32-bit one, which is said in `NextDex`.

### Assumptions

Only the `ASSUME`s of the modules, which TLC evaluates on every run that uses
them. Most say that limits are positive, as `Security::new` demands, that sets are
finite and that model values are distinct (a nonce is no token, an address that
does not parse is no address). Those that say more:

* `TtlAssumption`: a refill period and twice the skew fit in `Ttl`. The code's
  longest period is 600 seconds, `ttl` is at least 660, and no thread rests for
  half a minute between reading the clock and taking the mutex;
* `SkewAssumption`: the failure window and the skew fit in `Ttl`, which the code
  makes a minute longer than the window;
* `WindowAssumption`: challenge and grant fit in the retention (180 + 600 = 780),
  a grant in the quiet time (600), and a request routed before the cutover shows
  in the statistics in time (600 + 15 + 5 < 780);
* `ElfAssumption`: a note segment that is read has at most 64 KiB, which is far
  from the end of an index (`MaxNote + 5 <= Usize`);
* `InputsAssumption`: inputs have the shapes the callers give them. The zip reader
  lists one member per name; the dex numbers of the pinned base are below 2^32 - 1;
* `PackageAssumption`: split names end in `.apk`, so none is empty, `.` or `..`;
* `SplitAssumption`: `config.` names are no name of the base or the assets.

### Only model-checked

* Liveness (`ServiceRecovers`, `JobsEnd`, `RunsEnd`): fairness and `ENABLED` are
  beyond the proof system.
* The four runs that are expected to fail.

## 5. What is not modelled

* What the tools and the rewriting of manifests and tables put into the files,
  and the cache key of a plan, which is one hash of its fields.
* `activate` (an installation without gateway).
* Download and verification of releases inside `stage`: a staged generation is
  a verified one, a failure before its file is written changes nothing.
* A file system that loses or reorders renames after a power loss:
  `atomic_json` does not sync the directory, the model makes each rename
  durable.
* A grandchild of a tool that keeps the tool's output open: `run_capture_checked`
  would wait for it without a deadline.
* Clocks: wall clock and monotonic clock advance together; no clock is set back.
* The entrypoint's supervision of server and relay, and `prepare.py`, which runs
  at image build time.
* LAN hotfix installer, release tooling, web page: scripts and a page that run
  once, in one process, for an operator or a visitor who sees the result.

## 6. Plan

1. Done: `Admission`, `Supervisor`, `PrebuiltWorker` with `Tickets`, `BuildCache`,
   `Retention`, `Pipeline` with `Signing`, and `Checks` over the pure algorithms;
   a theorem for each safety invariant, each action property and the refinement.
2. Models worth adding if the code changes there: `activate` without a gateway,
   the hotfix installer's rollback, and a variant of `Supervisor` whose renames
   become durable late.
