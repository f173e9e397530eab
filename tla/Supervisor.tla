----------------------------- MODULE Supervisor -----------------------------
(***************************************************************************)
(* The blue/green deployment supervisor, deploy/run_managed.py: main and   *)
(* the class BlueGreen, with what it keeps on disk (state.json, the        *)
(* generation files and routes.json), the worker processes it starts and   *)
(* the gateway in front of them.                                           *)
(*                                                                         *)
(* Every write of a file is one atomic_json (temporary file and rename)    *)
(* and one step, so the supervisor may be cut off between any two of them. *)
(* How long a retired worker is kept is the subject of module Retention;   *)
(* here it may be retired at any time.                                     *)
(***************************************************************************)
EXTENDS Integers, FiniteSets

CONSTANTS
    Pair,         \* release pairs (worker digest and patch digest)
    NoPair,       \* the pair of the deployment as it was installed
    Seed,         \* Android revision that installation reports in /healthz
    Compiled,     \* revisions compiled into the released workers
    MaxRevision,  \* the last revision; 2100000000 - 800000 in the code
    Burst,        \* StartLimitBurst of the service, 3
    MaxFaults     \* bound: crashes, process deaths and failed writes

ASSUME RevisionAssumption ==
    /\ MaxRevision \in Nat
    /\ Seed \in 1 .. MaxRevision
    /\ Compiled \subseteq Nat
    /\ NoPair \notin Pair
    /\ Burst \in Nat \ {0}
    /\ MaxFaults \in Nat

VARIABLES
    disk,         \* state.json: counter, active generation and its pair
    generations,  \* generations/<revision>.json: its pair, NoPair if no file
    routes,       \* routes.json: the active revision and the targets
    pc,           \* where the supervisor is
    mem,          \* the supervisor's copy of state.json
    retired,      \* BlueGreen.retired: revision and pair, or none
    candidate,    \* the generation being tried, or none
    proc,         \* proc[g]: the worker process of generation g
    gateway,      \* is the gateway process running
    proven,       \* history: the generations that passed a readiness check
    starts,       \* starts the service manager counts in its interval
    faults        \* history: faults so far

vars == <<disk, generations, routes, pc, mem, retired, candidate, proc,
          gateway, proven, starts, faults>>

\* Generation 0 is the installation itself.
Gen    == 0 .. MaxRevision
Rev    == 1 .. MaxRevision
NoGen  == -1
None   == [rev |-> NoGen, pair |-> NoPair]
Blank  == [counter |-> 0, active |-> 0, pair |-> NoPair]

AnyPair == Pair \cup {NoPair}
Stored  == [counter : Nat, active : Gen, pair : AnyPair]
Chosen  == [rev : Gen \cup {NoGen}, pair : AnyPair]

\* No supervisor: the service manager is about to start it ("down"), the
\* operator stopped it, or the service manager gave up on it.
Idle == {"down", "stopped", "failed"}

PC == Idle \cup
      {"booting", "seeded", "running", "staged", "reserved", "trying",
       "settled", "persisted", "rollback", "draining", "restarting"}

\* The Android revision that generation g reports (initial_revision).
Android(g) == IF g = 0 THEN Seed ELSE g

MaxOf(m, n) == IF m >= n THEN m ELSE n

\* Mutant: the counter itself is handed out again.
NextRevisionReused(previous, compiled) == MaxOf(previous, compiled)

\* next_revision
NextRevision(previous, compiled) == MaxOf(previous + 1, compiled)

\* BlueGreen.publish
Published(g, old) == [active |-> g, targets |-> {g} \cup old]

\* The generation files that exist.
Allocated == {g \in Rev : generations[g] # NoPair}

Fault == faults < MaxFaults /\ faults' = faults + 1

Dead(g) == proc[g] = "dead"

\* The retired worker can take over.
RetiredAlive == \E g \in Gen : g = retired.rev /\ ~Dead(g)

-----------------------------------------------------------------------------
Init ==
    /\ disk = Blank
    /\ generations = [g \in Rev |-> NoPair]
    /\ routes = Published(0, {})
    /\ pc = "down"
    /\ mem = Blank
    /\ retired = None
    /\ candidate = None
    /\ proc = [g \in Gen |-> "dead"]
    /\ gateway = FALSE
    /\ proven = {}
    /\ starts = 0
    /\ faults = 0

(* Start of main().                                                        *)

\* The service manager starts the supervisor: it loads state.json and starts
\* the worker of the active generation.
Boot ==
    /\ pc = "down"
    /\ starts < Burst
    /\ starts' = starts + 1
    /\ mem' = disk
    /\ proc' = [proc EXCEPT ![disk.active] = "starting"]
    /\ pc' = "booting"
    /\ UNCHANGED <<disk, generations, routes, retired, candidate, gateway, proven, faults>>

\* Mutant: generation files whose reservation was lost are not looked at.
BootReadyForgetful ==
    /\ pc = "booting"
    /\ proc[mem.active] = "starting"
    /\ mem' = [mem EXCEPT !.counter = MaxOf(mem.counter, Android(mem.active))]
    /\ disk' = mem'
    /\ proc' = [proc EXCEPT ![mem.active] = "up"]
    /\ proven' = proven \cup {mem.active}
    /\ pc' = "seeded"
    /\ UNCHANGED <<generations, routes, retired, candidate, gateway, starts, faults>>

\* The worker is ready: the counter is raised over every revision that may be
\* in use, also over generations whose reservation was lost, and persisted.
BootReady ==
    /\ pc = "booting"
    /\ proc[mem.active] = "starting"
    /\ LET floor == MaxOf(mem.counter, Android(mem.active))
           top   == {floor} \cup Allocated
       IN  \E n \in top :
             /\ \A m \in top : n >= m
             /\ mem' = [mem EXCEPT !.counter = n]
    /\ disk' = mem'
    /\ proc' = [proc EXCEPT ![mem.active] = "up"]
    /\ proven' = proven \cup {mem.active}
    /\ pc' = "seeded"
    /\ UNCHANGED <<generations, routes, retired, candidate, gateway, starts, faults>>

\* start_gateway
BootGateway ==
    /\ pc = "seeded"
    /\ routes' = Published(mem.active, {})
    /\ gateway' = TRUE
    /\ pc' = "running"
    /\ UNCHANGED <<disk, generations, mem, retired, candidate, proc, proven, starts, faults>>

(* main() leaves its loop: everything is stopped (close and finally).      *)

Halt(place) ==
    /\ pc' = place
    /\ mem' = Blank
    /\ retired' = None
    /\ candidate' = None
    /\ proc' = [g \in Gen |-> "dead"]
    /\ gateway' = FALSE
    /\ UNCHANGED <<disk, generations, routes, proven, starts>>

\* The operator stops the service: SIGTERM, which ends the loop and every
\* wait for readiness, and no restart. During an update the candidate is
\* rejected first.
Shutdown ==
    /\ pc \in {"booting", "running", "restarting"}
    /\ Halt("stopped")
    /\ Fault

\* Mutant: maintain does not look after the gateway.
GiveUpBlind ==
    /\ \/ pc \in {"booting", "restarting"} /\ Dead(mem.active)
       \/ /\ pc = "running"
          /\ Dead(mem.active)
          /\ ~RetiredAlive
    /\ Halt("down")
    /\ UNCHANGED faults

\* An exception that nothing catches: the first worker, or the active worker
\* restarted after a failed update, does not come up; the gateway is gone; or
\* the active worker is gone and no retired one is there to take over.
GiveUp ==
    /\ \/ pc \in {"booting", "restarting"} /\ Dead(mem.active)
       \/ pc = "running" /\ ~gateway
       \/ /\ pc = "running"
          /\ Dead(mem.active)
          /\ ~RetiredAlive
    /\ Halt("down")
    /\ UNCHANGED faults

\* The first worker of a generation that was never ready may fail to become
\* ready at every start: its package cannot be built, or a build was cut off
\* before its checksum (see module BuildCache).
NeverReady ==
    /\ pc = "booting"
    /\ mem.active \notin proven
    /\ Halt("down")
    /\ UNCHANGED faults

(* The service manager: Restart=on-failure within StartLimitBurst starts   *)
(* per StartLimitIntervalSec, and the operator.                            *)

Refused ==
    /\ pc = "down"
    /\ starts = Burst
    /\ pc' = "failed"
    /\ UNCHANGED <<disk, generations, routes, mem, retired, candidate, proc, gateway, proven, starts, faults>>

IntervalPasses ==
    /\ starts > 0
    /\ starts' = 0
    /\ UNCHANGED <<disk, generations, routes, pc, mem, retired, candidate, proc, gateway, proven, faults>>

OperatorStarts ==
    /\ pc \in {"stopped", "failed"}
    /\ pc' = "down"
    /\ UNCHANGED <<disk, generations, routes, mem, retired, candidate, proc, gateway, proven, starts, faults>>

(* One update: the body of the try block of the loop.                      *)

\* Mutants: an update starts while a worker is still retired; the counter has
\* no end.
StageThird(p, compiled) ==
    LET rev == NextRevision(mem.counter, compiled)
    IN  /\ pc = "running"
        /\ gateway /\ ~Dead(mem.active)
        /\ p # mem.pair
        /\ rev \in Rev \ Allocated
        /\ generations' = [generations EXCEPT ![rev] = p]
        /\ candidate' = [rev |-> rev, pair |-> p]
        /\ pc' = "staged"
        /\ UNCHANGED <<disk, routes, mem, retired, proc, gateway, proven, starts, faults>>

\* A new pair is released and no retired worker is left: stage() writes the
\* immutable generation file, and refuses to overwrite one.
Stage(p, compiled) ==
    LET rev == NextRevision(mem.counter, compiled)
    IN  /\ pc = "running"
        /\ gateway /\ ~Dead(mem.active)
        /\ p # mem.pair
        /\ retired = None
        /\ rev \in Rev \ Allocated
        /\ generations' = [generations EXCEPT ![rev] = p]
        /\ candidate' = [rev |-> rev, pair |-> p]
        /\ pc' = "staged"
        /\ UNCHANGED <<disk, routes, mem, retired, proc, gateway, proven, starts, faults>>

\* The new revision is persisted in the counter before anything is built.
Reserve ==
    /\ pc = "staged"
    /\ mem' = [mem EXCEPT !.counter = candidate.rev]
    /\ disk' = mem'
    /\ pc' = "reserved"
    /\ UNCHANGED <<generations, routes, retired, candidate, proc, gateway, proven, starts, faults>>

\* The except block of the loop: the update is dropped, and an active worker
\* that happens to be gone is started again. procs: the worker processes.
Recovered(procs) ==
    /\ candidate' = None
    /\ \/ /\ procs[mem.active] # "dead"
          /\ pc' = "running"
          /\ proc' = procs
       \/ /\ procs[mem.active] = "dead"
          /\ pc' = "restarting"
          /\ proc' = [procs EXCEPT ![mem.active] = "starting"]

\* That write fails: the loop goes on, with the counter raised in memory.
ReserveFails ==
    /\ pc = "staged"
    /\ mem' = [mem EXCEPT !.counter = candidate.rev]
    /\ Recovered(proc)
    /\ Fault
    /\ UNCHANGED <<disk, generations, routes, retired, gateway, proven, starts>>

\* The released worker has no blue/green support.
Incapable ==
    /\ pc = "reserved"
    /\ candidate' = None
    /\ pc' = "running"
    /\ UNCHANGED <<disk, generations, routes, mem, retired, proc, gateway, proven, starts, faults>>

StartCandidate ==
    /\ pc = "reserved"
    /\ proc' = [proc EXCEPT ![candidate.rev] = "starting"]
    /\ pc' = "trying"
    /\ UNCHANGED <<disk, generations, routes, mem, retired, candidate, gateway, proven, starts, faults>>

\* The candidate is ready and stays healthy while it settles.
CandidateSettles ==
    /\ pc = "trying"
    /\ proc[candidate.rev] = "starting"
    /\ proc' = [proc EXCEPT ![candidate.rev] = "up"]
    /\ proven' = proven \cup {candidate.rev}
    /\ pc' = "settled"
    /\ UNCHANGED <<disk, generations, routes, mem, retired, candidate, gateway, starts, faults>>

\* The candidate is stopped and the update forgotten; nothing else changes.
Abandon ==
    /\ proc' = [proc EXCEPT ![candidate.rev] = "dead"]
    /\ candidate' = None
    /\ pc' = "running"

\* It never becomes ready, exits or turns unhealthy, or a stop is requested.
CandidateRejected ==
    /\ pc = "trying"
    /\ Abandon
    /\ UNCHANGED <<disk, generations, routes, mem, retired, gateway, proven, starts, faults>>

\* It is rejected, or one of the writes of the cutover fails (see PublishFails
\* for state.json), but it does not stop within the hour: TimeoutExpired leaves
\* activate, and the process, which nobody owns any more, stays behind.
CandidateStuck ==
    /\ pc \in {"trying", "settled", "persisted"}
    /\ ~Dead(candidate.rev)
    /\ disk' \in IF pc = "persisted" THEN {mem, disk} ELSE {disk}
    /\ Recovered([proc EXCEPT ![candidate.rev] = "stuck"])
    /\ Fault
    /\ UNCHANGED <<generations, routes, mem, retired, gateway, proven, starts>>

CutoverState == [mem EXCEPT !.active = candidate.rev, !.pair = candidate.pair]

\* Mutants: state.json is written before the candidate has settled; routes are
\* published before it is written.
PersistEarly ==
    /\ pc \in {"trying", "settled"}
    /\ disk' = CutoverState
    /\ pc' = "persisted"
    /\ UNCHANGED <<generations, routes, mem, retired, candidate, proc, gateway, proven, starts, faults>>

PublishFirst ==
    /\ pc = "settled"
    /\ routes' = Published(candidate.rev, {mem.active})
    /\ pc' = "persisted"
    /\ UNCHANGED <<disk, generations, mem, retired, candidate, proc, gateway, proven, starts, faults>>

\* Cutover, first half: state.json names the candidate.
PersistCutover ==
    /\ pc = "settled"
    /\ disk' = CutoverState
    /\ pc' = "persisted"
    /\ UNCHANGED <<generations, routes, mem, retired, candidate, proc, gateway, proven, starts, faults>>

PersistFails ==
    /\ pc = "settled"
    /\ Abandon
    /\ Fault
    /\ UNCHANGED <<disk, generations, routes, mem, retired, gateway, proven, starts>>

\* Cutover, second half: the gateway is told; the old worker retires.
PublishCutover ==
    /\ pc = "persisted"
    /\ routes' = Published(candidate.rev, {mem.active})
    /\ retired' = [rev |-> mem.active, pair |-> mem.pair]
    /\ mem' = CutoverState
    /\ candidate' = None
    /\ pc' = "running"
    /\ UNCHANGED <<disk, generations, proc, gateway, proven, starts, faults>>

\* Publishing fails: the old state is written back, unless that fails too.
PublishFails ==
    /\ pc = "persisted"
    /\ disk' \in {mem, disk}
    /\ Abandon
    /\ Fault
    /\ UNCHANGED <<generations, routes, mem, retired, gateway, proven, starts>>

(* BlueGreen.maintain.                                                     *)

\* The active worker is gone and the retired one is alive: back to it.
RollbackPublish ==
    /\ pc = "running"
    /\ gateway
    /\ Dead(mem.active)
    /\ RetiredAlive
    /\ routes' = Published(retired.rev, {})
    /\ pc' = "rollback"
    /\ UNCHANGED <<disk, generations, mem, retired, candidate, proc, gateway, proven, starts, faults>>

RollbackPersist ==
    /\ pc = "rollback"
    /\ mem' = [mem EXCEPT !.active = retired.rev, !.pair = retired.pair]
    /\ disk' = mem'
    /\ retired' = None
    /\ pc' = "running"
    /\ UNCHANGED <<generations, routes, candidate, proc, gateway, proven, starts, faults>>

\* A write inside maintain fails: the exception ends the supervisor.
MaintainFails ==
    /\ \/ pc = "rollback"
       \/ pc = "running" /\ retired # None
    /\ Halt("down")
    /\ Fault

\* Mutant: the drained worker is stopped without leaving the routes.
RetireUnpublished ==
    /\ pc = "running"
    /\ gateway /\ ~Dead(mem.active)
    /\ retired # None
    /\ pc' = "draining"
    /\ UNCHANGED <<disk, generations, routes, mem, retired, candidate, proc, gateway, proven, starts, faults>>

\* The retired worker is drained: it leaves the routes, then it is stopped.
RetirePublish ==
    /\ pc = "running"
    /\ gateway /\ ~Dead(mem.active)
    /\ retired # None
    /\ routes' = Published(mem.active, {})
    /\ pc' = "draining"
    /\ UNCHANGED <<disk, generations, mem, retired, candidate, proc, gateway, proven, starts, faults>>

RetireStop ==
    /\ pc = "draining"
    /\ proc' = [proc EXCEPT ![retired.rev] = "dead"]
    /\ retired' = None
    /\ pc' = "running"
    /\ UNCHANGED <<disk, generations, routes, mem, candidate, gateway, proven, starts, faults>>

\* The retired worker is still busy after an hour: TimeoutExpired.
RetireTimeout ==
    /\ pc = "draining"
    /\ Halt("down")
    /\ Fault

\* The update check raises (no network, bad release) just when the active
\* worker is gone: it is started again in place.
RestartActive ==
    /\ pc = "running"
    /\ Dead(mem.active)
    /\ Recovered(proc)
    /\ Fault
    /\ UNCHANGED <<disk, generations, routes, mem, retired, gateway, proven, starts>>

RestartReady ==
    /\ pc = "restarting"
    /\ proc[mem.active] = "starting"
    /\ proc' = [proc EXCEPT ![mem.active] = "up"]
    /\ pc' = "running"
    /\ UNCHANGED <<disk, generations, routes, mem, retired, candidate, gateway, proven, starts, faults>>

(* The environment.                                                        *)

\* A worker dies, or does not come up in time.
WorkerDies(g) ==
    /\ ~Dead(g)
    /\ proc' = [proc EXCEPT ![g] = "dead"]
    /\ Fault
    /\ UNCHANGED <<disk, generations, routes, pc, mem, retired, candidate, gateway, proven, starts>>

GatewayDies ==
    /\ gateway
    /\ gateway' = FALSE
    /\ Fault
    /\ UNCHANGED <<disk, generations, routes, pc, mem, retired, candidate, proc, proven, starts>>

\* Power loss, or the service manager kills the whole control group.
Crash ==
    /\ pc \notin Idle
    /\ Halt("down")
    /\ Fault

Update ==
    \/ \E p \in Pair, c \in Compiled : Stage(p, c)
    \/ Reserve
    \/ Incapable
    \/ StartCandidate
    \/ CandidateSettles
    \/ CandidateRejected
    \/ PersistCutover
    \/ PublishCutover

Maintain ==
    \/ RollbackPublish
    \/ RollbackPersist
    \/ RetirePublish
    \/ RetireStop
    \/ RestartReady
    \/ GiveUp

ServiceManager ==
    \/ Refused
    \/ IntervalPasses
    \/ OperatorStarts

Environment ==
    \/ Shutdown
    \/ NeverReady
    \/ Crash
    \/ ReserveFails
    \/ CandidateStuck
    \/ PersistFails
    \/ PublishFails
    \/ MaintainFails
    \/ RetireTimeout
    \/ RestartActive
    \/ \E g \in Gen : WorkerDies(g)
    \/ GatewayDies

Next ==
    \/ Boot
    \/ BootReady
    \/ BootGateway
    \/ ServiceManager
    \/ Update
    \/ Maintain
    \/ Environment

Spec == Init /\ [][Next]_vars

\* The service manager restarts a supervisor that failed until it has counted
\* too many starts; the loop never stops taking its own steps; a worker that
\* was ready once finds its package and checksum in the cache and comes up
\* again. Nothing is assumed of a worker that was never ready, of the
\* operator, of the interval or of releases.
Fairness ==
    /\ WF_vars(Boot \/ Refused)
    /\ WF_vars(mem.active \in proven /\ BootReady)
    /\ WF_vars(BootGateway)
    /\ WF_vars(Reserve \/ ReserveFails)
    /\ WF_vars(StartCandidate \/ Incapable)
    /\ WF_vars(CandidateSettles \/ CandidateRejected)
    /\ WF_vars(PersistCutover \/ PersistFails)
    /\ WF_vars(PublishCutover \/ PublishFails)
    /\ WF_vars(Maintain)

FairSpec == Spec /\ Fairness

-----------------------------------------------------------------------------
(* Properties.                                                             *)

\* state.json, the generation files, routes.json and the supervisor's memory
\* stay well formed: every revision they name is one that may be allocated.
TypeOK ==
    /\ disk \in Stored
    /\ generations \in [Rev -> AnyPair]
    /\ routes \in [active : Gen, targets : SUBSET Gen]
    /\ pc \in PC
    /\ mem \in Stored
    /\ retired \in Chosen
    /\ candidate \in Chosen
    /\ proc \in [Gen -> {"dead", "starting", "up", "stuck"}]
    /\ gateway \in BOOLEAN
    /\ proven \subseteq Gen
    /\ starts \in 0 .. Burst
    /\ faults \in Nat

\* The revisions that some phone may have installed.
Used == Allocated \cup {Android(g) : g \in proven}

\* An Android revision is never handed out twice nor below one already in
\* use, whatever crash or failed write separates the generation file, the
\* counter in state.json and the build ("never reuse an allocated Android
\* version", run_managed.py).
VersionNeverReused ==
    [][\A g \in Allocated' \ Allocated, u \in Used : g > u]_vars

\* While the supervisor runs, the counter covers every generation file, so
\* stage() never stumbles over a file left behind by a crash and updates
\* never get stuck on "generation already exists".
CounterCovers ==
    pc \notin Idle \cup {"booting", "staged"}
        => \A g \in Used : g <= mem.counter

\* "Stable ingress + at most two worker processes" (BlueGreen), counted over
\* the processes that are alive. Does not hold: a candidate that outlives the
\* hour of stop() stays alive beside the next update.
AtMostTwoWorkers == Cardinality({g \in Gen : ~Dead(g)}) <= 2

\* The workers the supervisor owns: the active one and one more.
OwnedWorkers ==
    {mem.active, IF retired # None THEN retired.rev ELSE candidate.rev}

\* No third generation is started before the old one is drained, and no
\* worker is forgotten: however an update, a rollback or a drain ends, a
\* running worker is the active one or the only retired or tried one, unless
\* stop() has waited an hour for it in vain.
OldDrainsFirst ==
    \A g \in Gen : proc[g] \in {"starting", "up"} => g \in OwnedWorkers

\* Generation g was made from pair p (and the installation from none).
MadeFrom(g, p) ==
    \/ g = 0 /\ p = NoPair
    \/ g \in Allocated /\ generations[g] = p

\* After any crash the supervisor starts a generation that has passed a
\* readiness check before, with the pair it was made from; a failed update
\* is never what state.json names.
DiskIsBootable ==
    /\ MadeFrom(disk.active, disk.pair)
    /\ disk = Blank \/ disk.active \in proven

\* Between two steps of the loop the gateway's routes are exactly what the
\* supervisor believes: the active worker and the retired one, no third.
RoutesMatch ==
    pc = "running" /\ gateway =>
        routes = Published(mem.active, {retired.rev} \ {NoGen})

\* The worker that new visitors are sent to is never stopped by the
\* supervisor as long as the gateway serves: only its own death or the end
\* of the whole deployment takes it away, also while an update fails at any
\* of its writes ("old worker never stopped").
NoSelfInflictedOutage ==
    [][gateway /\ gateway' /\ proc[routes.active] = "up"
         /\ ~WorkerDies(routes.active) => proc'[routes.active] = "up"]_vars

Serving == gateway /\ proc[routes.active] = "up"

\* A deployment whose worker was ready once serves visitors again and again
\* after the faults have stopped, in whatever state they left the files and
\* the processes, unless the operator stopped it or the service manager
\* counted too many starts in one interval.
ServiceRecovers ==
    <>(proven # {}) => []<>(Serving \/ pc \in {"stopped", "failed"})
=============================================================================
