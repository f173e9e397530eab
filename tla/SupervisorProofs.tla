-------------------------- MODULE SupervisorProofs --------------------------
(***************************************************************************)
(* Proofs about the deployment supervisor, for any set of release pairs,   *)
(* any number of revisions and any number of faults.                       *)
(***************************************************************************)
EXTENDS Supervisor, TLAPS

Updating == {"staged", "reserved", "trying", "settled", "persisted"}

\* The candidate while an update is on its way; no update starts while a
\* retired worker is left, and none is left when the supervisor starts.
CandidateKnown ==
    /\ pc \in Updating =>
         /\ candidate.rev \in Allocated
         /\ candidate.pair = generations[candidate.rev]
         /\ candidate.rev # mem.active
         /\ retired = None
    /\ pc \in {"settled", "persisted"} => candidate.rev \in proven
    /\ pc \notin Updating => candidate = None
    /\ pc \in Idle \cup {"booting", "seeded"} => retired = None
    /\ pc \in {"rollback", "draining"} => retired # None

\* What the supervisor remembers is a generation that was ready once.
MemoryKnown ==
    /\ pc \in Idle => mem = Blank
    /\ MadeFrom(mem.active, mem.pair)
    /\ pc \notin Idle \cup {"booting"} => mem.active \in proven
    /\ retired # None =>
         /\ MadeFrom(retired.rev, retired.pair)
         /\ retired.rev \in proven
         /\ retired.rev # mem.active

\* The revisions in use while the supervisor is not looking.
FloorKept ==
    /\ proven \subseteq {0} \cup Allocated
    /\ 0 \in proven => Seed <= disk.counter
    /\ pc = "booting" => mem = disk
    /\ pc = "staged" =>
         /\ mem.counter < candidate.rev
         /\ \A g \in Used \ {candidate.rev} : g <= mem.counter

\* Only the workers the supervisor owns are alive, and none before it starts
\* or when a rollback left it.
Owned ==
    /\ \A g \in Gen : proc[g] \in {"starting", "up"} =>
         g \in {mem.active, retired.rev, candidate.rev}
    /\ pc \in Idle => proc = [g \in Gen |-> "dead"]
    /\ pc \in {"staged", "reserved"} => proc[candidate.rev] = "dead"
    /\ pc = "rollback" => proc[mem.active] = "dead"

\* A generation that was never made has no process.
NoneEarly == \A g \in Rev \ Allocated : proc[g] = "dead"

\* The routes, in the middle of a step of maintain too.
RoutesKnown ==
    /\ pc \in Updating \cup {"running", "restarting"} =>
         routes = Published(mem.active, {retired.rev} \ {NoGen})
    /\ pc = "draining" => routes = Published(mem.active, {})
    /\ pc = "rollback" => routes = Published(retired.rev, {})

IInv ==
    /\ TypeOK
    /\ CandidateKnown
    /\ MemoryKnown
    /\ FloorKept
    /\ CounterCovers
    /\ DiskIsBootable
    /\ Owned
    /\ NoneEarly
    /\ RoutesKnown

USE RevisionAssumption DEF NoGen, None, Blank, AnyPair, Stored, Chosen, Gen, Rev,
    Idle, PC, Updating, Allocated

\* During an update the candidate is a generation with a file.
LEMMA CandidateType ==
    ASSUME IInv, pc \in Updating
    PROVE  /\ candidate.rev \in Rev
           /\ candidate.rev \in Allocated
           /\ candidate.pair \in Pair
           /\ candidate.pair = generations[candidate.rev]
BY DEF IInv, TypeOK, CandidateKnown

\* Revisions in use are revisions.
LEMMA UsedType ==
    ASSUME IInv
    PROVE  Used \subseteq Gen
BY DEF IInv, TypeOK, Used, Android

\* The state written at cutover is a state.
LEMMA CutoverType ==
    ASSUME IInv, pc \in Updating
    PROVE  CutoverState \in Stored
<1>1. candidate.rev \in Gen /\ candidate.pair \in AnyPair
  BY CandidateType
<1> QED
  BY <1>1 DEF IInv, TypeOK, CutoverState

\* Ending the supervisor, in any way, leaves the files as they are.
LEMMA HaltStep ==
    ASSUME NEW place \in Idle, IInv, Halt(place), faults' \in Nat
    PROVE  IInv'
<1>1. TypeOK'
  <2>1. gateway' \in BOOLEAN
    BY DEF Halt
  <2> QED
    BY <2>1 DEF IInv, TypeOK, Halt
<1>2. CandidateKnown' /\ MemoryKnown' /\ DiskIsBootable'
  BY DEF IInv, TypeOK, CandidateKnown, MemoryKnown, DiskIsBootable,
         MadeFrom, Halt
<1>3. FloorKept' /\ CounterCovers'
  BY DEF IInv, TypeOK, CandidateKnown, MemoryKnown, DiskIsBootable,
         MadeFrom, FloorKept, CounterCovers, Used, Android, Halt
<1>4. Owned' /\ NoneEarly'
  BY DEF IInv, TypeOK, CandidateKnown, MemoryKnown, MadeFrom, Owned,
         NoneEarly, Halt
<1>5. RoutesKnown'
  BY DEF IInv, TypeOK, CandidateKnown, MemoryKnown, RoutesKnown, Published,
         Halt
<1> QED
  BY <1>1, <1>2, <1>3, <1>4, <1>5 DEF IInv

\* Boot starts the worker of the generation that state.json names.
LEMMA BootStep ==
    ASSUME IInv, Boot
    PROVE  IInv'
<1>1. TypeOK'
  BY DEF IInv, TypeOK, Boot
<1>2. CandidateKnown' /\ MemoryKnown' /\ DiskIsBootable'
  BY DEF IInv, TypeOK, CandidateKnown, MemoryKnown, DiskIsBootable,
         MadeFrom, Boot
<1>3. FloorKept' /\ CounterCovers'
  BY DEF IInv, TypeOK, CandidateKnown, MemoryKnown, DiskIsBootable,
         MadeFrom, FloorKept, CounterCovers, Used, Android, Boot
<1>4. Owned' /\ NoneEarly'
  <2>1. \A g \in Gen : proc'[g] # "dead" => g = mem'.active
    BY DEF IInv, TypeOK, Owned, Boot
  <2>2. \A g \in Rev \ Allocated : g # disk.active
    BY DEF IInv, DiskIsBootable, MadeFrom
  <2> QED
    BY <2>1, <2>2 DEF IInv, TypeOK, Owned, NoneEarly, Boot
<1>5. RoutesKnown'
  BY DEF IInv, TypeOK, CandidateKnown, MemoryKnown, RoutesKnown, Published,
         Boot
<1> QED
  BY <1>1, <1>2, <1>3, <1>4, <1>5 DEF IInv

\* The service manager's own steps touch no file and no process.
LEMMA ServiceManagerStep ==
    ASSUME IInv, ServiceManager
    PROVE  IInv'
<1> USE DEF ServiceManager, Refused, IntervalPasses, OperatorStarts
<1>1. TypeOK'
  <2>1. starts' \in 0 .. Burst /\ pc' \in PC
    BY DEF IInv, TypeOK
  <2> QED
    BY <2>1 DEF IInv, TypeOK
<1>2. CandidateKnown' /\ MemoryKnown' /\ DiskIsBootable'
  BY DEF IInv, TypeOK, CandidateKnown, MemoryKnown, DiskIsBootable, MadeFrom
<1>3. FloorKept' /\ CounterCovers'
  BY DEF IInv, TypeOK, FloorKept, CounterCovers, Used, Android
<1>4. Owned' /\ NoneEarly'
  BY DEF IInv, TypeOK, Owned, NoneEarly
<1>5. RoutesKnown'
  BY DEF IInv, TypeOK, RoutesKnown, Published
<1> QED
  BY <1>1, <1>2, <1>3, <1>4, <1>5 DEF IInv

\* BootReady raises the counter over every revision in use.
LEMMA BootReadyStep ==
    ASSUME IInv, BootReady
    PROVE  IInv'
<1>1. TypeOK'
  BY SMTT(30) DEF IInv, TypeOK, CandidateKnown, MemoryKnown, MadeFrom, Android, BootReady, MaxOf
<1>2. CandidateKnown' /\ MemoryKnown' /\ DiskIsBootable'
  BY DEF IInv, TypeOK, CandidateKnown, MemoryKnown, DiskIsBootable,
         MadeFrom, BootReady, MaxOf
<1>3. FloorKept' /\ CounterCovers'
  BY DEF IInv, TypeOK, CandidateKnown, MemoryKnown, DiskIsBootable,
         MadeFrom, FloorKept, CounterCovers, Used, Android, BootReady, MaxOf
<1>4. Owned' /\ NoneEarly'
  BY DEF IInv, TypeOK, CandidateKnown, MemoryKnown, MadeFrom, Owned,
         NoneEarly, BootReady, MaxOf
<1>5. RoutesKnown'
  BY DEF IInv, TypeOK, CandidateKnown, MemoryKnown, RoutesKnown, Published,
         BootReady, MaxOf
<1> QED
  BY <1>1, <1>2, <1>3, <1>4, <1>5 DEF IInv

\* BootGateway publishes the active worker alone: none is retired yet.
LEMMA BootGatewayStep ==
    ASSUME IInv, BootGateway
    PROVE  IInv'
<1>1. TypeOK'
  BY DEF IInv, TypeOK, BootGateway, Published
<1>2. CandidateKnown' /\ MemoryKnown' /\ DiskIsBootable'
  BY DEF IInv, TypeOK, CandidateKnown, MemoryKnown, DiskIsBootable,
         MadeFrom, BootGateway, Published
<1>3. FloorKept' /\ CounterCovers'
  BY DEF IInv, TypeOK, CandidateKnown, MemoryKnown, DiskIsBootable,
         MadeFrom, FloorKept, CounterCovers, Used, Android, BootGateway,
         Published
<1>4. Owned' /\ NoneEarly'
  BY DEF IInv, TypeOK, CandidateKnown, MemoryKnown, MadeFrom, Owned,
         NoneEarly, BootGateway, Published
<1>5. RoutesKnown'
  <2>1. {retired'.rev} \ {NoGen} = {}
    BY DEF IInv, CandidateKnown, BootGateway
  <2> QED
    BY <2>1 DEF RoutesKnown, BootGateway
<1> QED
  BY <1>1, <1>2, <1>3, <1>4, <1>5 DEF IInv

\* Reserve brings the counter up to the candidate, the highest in use.
LEMMA ReserveStep ==
    ASSUME IInv, Reserve
    PROVE  IInv'
<1>1. TypeOK'
  BY SMTT(30) DEF IInv, TypeOK, CandidateKnown, MemoryKnown, MadeFrom, Android, Reserve
<1>2. CandidateKnown' /\ MemoryKnown' /\ DiskIsBootable'
  BY DEF IInv, TypeOK, CandidateKnown, MemoryKnown, DiskIsBootable,
         MadeFrom, Reserve
<1>3. FloorKept' /\ CounterCovers'
  <2>1. Used' = Used
    BY DEF Reserve, Used, Android
  <2>2. candidate.rev \in Nat /\ mem'.counter = candidate.rev
    BY CandidateType DEF IInv, TypeOK, Reserve
  <2>3. \A g \in Used : g <= candidate.rev
    <3>1. /\ mem.counter \in Nat
          /\ mem.counter < candidate.rev
          /\ \A g \in Used \ {candidate.rev} : g <= mem.counter
      BY DEF IInv, TypeOK, FloorKept, Reserve
    <3> QED
      BY <2>2, <3>1, UsedType
  <2>4. 0 \in proven => Seed <= disk'.counter
    <3>1. 0 \in proven => Seed \in Used
      BY DEF Used, Android
    <3> QED
      BY <2>3, <3>1 DEF IInv, TypeOK, FloorKept, Reserve
  <2> QED
    BY <2>1, <2>2, <2>3, <2>4 DEF IInv, FloorKept, CounterCovers, Reserve
<1>4. Owned' /\ NoneEarly'
  BY DEF IInv, TypeOK, CandidateKnown, MemoryKnown, MadeFrom, Owned,
         NoneEarly, Reserve
<1>5. RoutesKnown'
  BY DEF IInv, TypeOK, CandidateKnown, MemoryKnown, RoutesKnown, Published,
         Reserve
<1> QED
  BY <1>1, <1>2, <1>3, <1>4, <1>5 DEF IInv

\* ReserveFails raises the counter in memory, and disk keeps its floor.
LEMMA ReserveFailsStep ==
    ASSUME IInv, ReserveFails
    PROVE  IInv'
<1>1. TypeOK'
  <2>1. candidate.rev \in Nat
    BY CandidateType DEF ReserveFails
  <2>2. mem' \in Stored
    BY <2>1 DEF IInv, TypeOK, ReserveFails
  <2>3. candidate' \in Chosen /\ pc' \in PC
    BY DEF ReserveFails, Recovered
  <2>4. proc' \in [Gen -> {"dead", "starting", "up", "stuck"}]
    <3>1. proc' = proc \/ proc' = [proc EXCEPT ![mem.active] = "starting"]
      BY DEF ReserveFails, Recovered
    <3> QED
      BY <3>1 DEF IInv, TypeOK
  <2> QED
    BY <2>2, <2>3, <2>4 DEF IInv, TypeOK, ReserveFails, Fault
<1>2. CandidateKnown' /\ MemoryKnown' /\ DiskIsBootable'
  BY DEF IInv, TypeOK, CandidateKnown, MemoryKnown, DiskIsBootable,
         MadeFrom, ReserveFails, Recovered, Fault
<1>3. FloorKept' /\ CounterCovers'
  <2>1. Used' = Used
    BY DEF ReserveFails, Used, Android
  <2>2. candidate.rev \in Nat /\ mem'.counter = candidate.rev
    BY CandidateType DEF IInv, TypeOK, ReserveFails
  <2>3. \A g \in Used : g <= candidate.rev
    <3>1. /\ mem.counter \in Nat
          /\ mem.counter < candidate.rev
          /\ \A g \in Used \ {candidate.rev} : g <= mem.counter
      BY DEF IInv, TypeOK, FloorKept, ReserveFails
    <3> QED
      BY <2>2, <3>1, UsedType
  <2>4. 0 \in proven => Seed <= disk'.counter
    <3>1. 0 \in proven => Seed \in Used
      BY DEF Used, Android
    <3> QED
      BY <2>3, <3>1 DEF IInv, TypeOK, FloorKept, ReserveFails
  <2>5. pc' \in {"running", "restarting"}
    BY DEF ReserveFails, Recovered
  <2> QED
    BY <2>1, <2>2, <2>3, <2>4, <2>5 DEF IInv, FloorKept, CounterCovers, ReserveFails
<1>4. Owned' /\ NoneEarly'
  <2>1. proc' = proc \/ proc' = [proc EXCEPT ![mem.active] = "starting"]
    BY DEF ReserveFails, Recovered
  <2>2. /\ proc[candidate.rev] = "dead"
        /\ mem'.active = mem.active
        /\ pc' \in {"running", "restarting"}
    BY DEF IInv, TypeOK, Owned, ReserveFails, Recovered
  <2>3. Owned'
    <3>1. retired' = retired /\ mem.active \in Gen
      BY DEF IInv, TypeOK, Stored, ReserveFails
    <3>2. ASSUME NEW g \in Gen, proc'[g] \in {"starting", "up"}
          PROVE  g \in {mem.active, retired.rev}
      <4>1. g # mem.active => proc'[g] = proc[g]
        BY <2>1, <3>1 DEF IInv, TypeOK
      <4> QED
        BY <2>2, <3>2, <4>1 DEF IInv, Owned
    <3> QED
      BY <2>2, <3>1, <3>2 DEF Owned, Idle
  <2>4. NoneEarly'
    BY <2>1 DEF IInv, TypeOK, MemoryKnown, MadeFrom, NoneEarly, ReserveFails
  <2> QED
    BY <2>3, <2>4
<1>5. RoutesKnown'
  BY DEF IInv, TypeOK, CandidateKnown, MemoryKnown, RoutesKnown, Published,
         ReserveFails, Recovered, Fault
<1> QED
  BY <1>1, <1>2, <1>3, <1>4, <1>5 DEF IInv

\* Incapable drops a candidate that has no process.
LEMMA IncapableStep ==
    ASSUME IInv, Incapable
    PROVE  IInv'
<1>1. TypeOK'
  BY DEF IInv, TypeOK, Incapable
<1>2. CandidateKnown' /\ MemoryKnown' /\ DiskIsBootable'
  BY DEF IInv, TypeOK, CandidateKnown, MemoryKnown, DiskIsBootable,
         MadeFrom, Incapable
<1>3. FloorKept' /\ CounterCovers'
  BY DEF IInv, TypeOK, CandidateKnown, MemoryKnown, DiskIsBootable,
         MadeFrom, FloorKept, CounterCovers, Used, Android, Incapable
<1>4. Owned' /\ NoneEarly'
  BY DEF IInv, TypeOK, CandidateKnown, MemoryKnown, MadeFrom, Owned,
         NoneEarly, Incapable
<1>5. RoutesKnown'
  BY DEF IInv, TypeOK, CandidateKnown, MemoryKnown, RoutesKnown, Published,
         Incapable
<1> QED
  BY <1>1, <1>2, <1>3, <1>4, <1>5 DEF IInv

\* StartCandidate adds the second worker: none is retired.
LEMMA StartCandidateStep ==
    ASSUME IInv, StartCandidate
    PROVE  IInv'
<1>1. TypeOK'
  BY DEF IInv, TypeOK, StartCandidate
<1>2. CandidateKnown' /\ MemoryKnown' /\ DiskIsBootable'
  BY DEF IInv, TypeOK, CandidateKnown, MemoryKnown, DiskIsBootable,
         MadeFrom, StartCandidate
<1>3. FloorKept' /\ CounterCovers'
  BY DEF IInv, TypeOK, CandidateKnown, MemoryKnown, DiskIsBootable,
         MadeFrom, FloorKept, CounterCovers, Used, Android, StartCandidate
<1>4. Owned' /\ NoneEarly'
  BY DEF IInv, TypeOK, CandidateKnown, MemoryKnown, MadeFrom, Owned,
         NoneEarly, StartCandidate
<1>5. RoutesKnown'
  BY DEF IInv, TypeOK, CandidateKnown, MemoryKnown, RoutesKnown, Published,
         StartCandidate
<1> QED
  BY <1>1, <1>2, <1>3, <1>4, <1>5 DEF IInv

\* CandidateSettles adds a proven generation whose file exists.
LEMMA CandidateSettlesStep ==
    ASSUME IInv, CandidateSettles
    PROVE  IInv'
<1>1. TypeOK'
  <2>1. candidate.rev \in Gen
    BY CandidateType DEF CandidateSettles
  <2> QED
    BY <2>1 DEF IInv, TypeOK, CandidateSettles
<1>2. CandidateKnown' /\ MemoryKnown' /\ DiskIsBootable'
  BY DEF IInv, TypeOK, CandidateKnown, MemoryKnown, DiskIsBootable,
         MadeFrom, CandidateSettles
<1>3. FloorKept' /\ CounterCovers'
  <2>1. /\ candidate.rev \in Allocated
        /\ candidate.rev # 0
    BY CandidateType DEF CandidateSettles
  <2>2. Used' = Used
    BY <2>1 DEF CandidateSettles, Used, Android
  <2> QED
    BY <2>1, <2>2 DEF IInv, TypeOK, FloorKept, CounterCovers, CandidateSettles
<1>4. Owned' /\ NoneEarly'
  BY DEF IInv, TypeOK, CandidateKnown, MemoryKnown, MadeFrom, Owned,
         NoneEarly, CandidateSettles
<1>5. RoutesKnown'
  BY DEF IInv, TypeOK, CandidateKnown, MemoryKnown, RoutesKnown, Published,
         CandidateSettles
<1> QED
  BY <1>1, <1>2, <1>3, <1>4, <1>5 DEF IInv

\* CandidateRejected stops the candidate.
LEMMA CandidateRejectedStep ==
    ASSUME IInv, CandidateRejected
    PROVE  IInv'
<1>1. TypeOK'
  BY DEF IInv, TypeOK, CandidateRejected, Abandon
<1>2. CandidateKnown' /\ MemoryKnown' /\ DiskIsBootable'
  BY DEF IInv, TypeOK, CandidateKnown, MemoryKnown, DiskIsBootable,
         MadeFrom, CandidateRejected, Abandon
<1>3. FloorKept' /\ CounterCovers'
  BY DEF IInv, TypeOK, CandidateKnown, MemoryKnown, DiskIsBootable,
         MadeFrom, FloorKept, CounterCovers, Used, Android,
         CandidateRejected, Abandon
<1>4. Owned' /\ NoneEarly'
  BY DEF IInv, TypeOK, CandidateKnown, MemoryKnown, MadeFrom, Owned,
         NoneEarly, CandidateRejected, Abandon
<1>5. RoutesKnown'
  BY DEF IInv, TypeOK, CandidateKnown, MemoryKnown, RoutesKnown, Published,
         CandidateRejected, Abandon
<1> QED
  BY <1>1, <1>2, <1>3, <1>4, <1>5 DEF IInv

\* CandidateStuck disowns the candidate's process.
LEMMA CandidateStuckStep ==
    ASSUME IInv, CandidateStuck
    PROVE  IInv'
<1>1. TypeOK'
  <2>1. disk' \in Stored
    BY DEF IInv, TypeOK, CandidateStuck
  <2>2. candidate' \in Chosen /\ pc' \in PC
    BY DEF CandidateStuck, Recovered, None, Chosen, AnyPair, PC
  <2>3. proc' \in [Gen -> {"dead", "starting", "up", "stuck"}]
    BY DEF IInv, TypeOK, CandidateStuck, Recovered
  <2>4. faults' \in Nat
    BY DEF IInv, TypeOK, CandidateStuck, Fault
  <2> QED
    BY <2>1, <2>2, <2>3, <2>4 DEF IInv, TypeOK, CandidateStuck
<1>2. CandidateKnown' /\ MemoryKnown' /\ DiskIsBootable'
  BY DEF IInv, TypeOK, CandidateKnown, MemoryKnown, DiskIsBootable,
         MadeFrom, CandidateStuck, Recovered, Fault, Dead
<1>3. FloorKept' /\ CounterCovers'
  BY DEF IInv, TypeOK, CandidateKnown, MemoryKnown, DiskIsBootable,
         MadeFrom, FloorKept, CounterCovers, Used, Android, CandidateStuck,
         Recovered, Fault, Dead
<1>4. Owned' /\ NoneEarly'
  <2>1. /\ candidate.rev \in Allocated
        /\ candidate.rev # mem.active
    BY CandidateType DEF IInv, CandidateKnown, CandidateStuck
  <2>2. \A g \in Gen : proc'[g] \in {"starting", "up"} =>
                        g \in {mem.active, retired.rev}
    BY <2>1 DEF IInv, TypeOK, Owned, CandidateStuck, Recovered
  <2>3. NoneEarly'
    BY <2>1 DEF IInv, TypeOK, MemoryKnown, MadeFrom, NoneEarly, CandidateStuck, Recovered
  <2> QED
    BY <2>2, <2>3 DEF Owned, CandidateStuck, Recovered
<1>5. RoutesKnown'
  BY DEF IInv, TypeOK, CandidateKnown, MemoryKnown, RoutesKnown, Published,
         CandidateStuck, Recovered, Fault, Dead
<1> QED
  BY <1>1, <1>2, <1>3, <1>4, <1>5 DEF IInv

\* PersistCutover names a proven candidate in state.json.
LEMMA PersistCutoverStep ==
    ASSUME IInv, PersistCutover
    PROVE  IInv'
<1>1. TypeOK'
  <2>1. disk' \in Stored
    BY CutoverType DEF PersistCutover
  <2> QED
    BY <2>1 DEF IInv, TypeOK, PersistCutover
<1>2. CandidateKnown' /\ MemoryKnown' /\ DiskIsBootable'
  BY DEF IInv, TypeOK, CandidateKnown, MemoryKnown, DiskIsBootable,
         MadeFrom, PersistCutover, CutoverState
<1>3. FloorKept' /\ CounterCovers'
  BY DEF IInv, TypeOK, CandidateKnown, MemoryKnown, DiskIsBootable,
         MadeFrom, FloorKept, CounterCovers, Used, Android, PersistCutover,
         CutoverState
<1>4. Owned' /\ NoneEarly'
  BY DEF IInv, TypeOK, CandidateKnown, MemoryKnown, MadeFrom, Owned,
         NoneEarly, PersistCutover, CutoverState
<1>5. RoutesKnown'
  BY DEF IInv, TypeOK, CandidateKnown, MemoryKnown, RoutesKnown, Published,
         PersistCutover, CutoverState
<1> QED
  BY <1>1, <1>2, <1>3, <1>4, <1>5 DEF IInv

\* PersistFails stops the candidate.
LEMMA PersistFailsStep ==
    ASSUME IInv, PersistFails
    PROVE  IInv'
<1>1. TypeOK'
  BY SMTT(30) DEF IInv, TypeOK, CandidateKnown, MemoryKnown, MadeFrom, Android, PersistFails, Abandon, Fault
<1>2. CandidateKnown' /\ MemoryKnown' /\ DiskIsBootable'
  BY DEF IInv, TypeOK, CandidateKnown, MemoryKnown, DiskIsBootable,
         MadeFrom, PersistFails, Abandon, Fault
<1>3. FloorKept' /\ CounterCovers'
  BY DEF IInv, TypeOK, CandidateKnown, MemoryKnown, DiskIsBootable,
         MadeFrom, FloorKept, CounterCovers, Used, Android, PersistFails,
         Abandon, Fault
<1>4. Owned' /\ NoneEarly'
  BY DEF IInv, TypeOK, CandidateKnown, MemoryKnown, MadeFrom, Owned,
         NoneEarly, PersistFails, Abandon, Fault
<1>5. RoutesKnown'
  BY DEF IInv, TypeOK, CandidateKnown, MemoryKnown, RoutesKnown, Published,
         PersistFails, Abandon, Fault
<1> QED
  BY <1>1, <1>2, <1>3, <1>4, <1>5 DEF IInv

\* PublishCutover makes the candidate active and retires the old worker.
LEMMA PublishCutoverStep ==
    ASSUME IInv, PublishCutover
    PROVE  IInv'
<1>1. TypeOK'
  <2>1. mem' \in Stored
    BY CutoverType DEF PublishCutover
  <2>2. retired' \in Chosen /\ candidate' \in Chosen
    BY DEF IInv, TypeOK, PublishCutover
  <2>3. routes' \in [active : Gen, targets : SUBSET Gen]
    BY CandidateType DEF IInv, TypeOK, PublishCutover, Published
  <2> QED
    BY <2>1, <2>2, <2>3 DEF IInv, TypeOK, PublishCutover
<1>2. CandidateKnown' /\ MemoryKnown' /\ DiskIsBootable'
  BY DEF IInv, TypeOK, CandidateKnown, MemoryKnown, DiskIsBootable,
         MadeFrom, PublishCutover, CutoverState, Published
<1>3. FloorKept' /\ CounterCovers'
  BY DEF IInv, TypeOK, CandidateKnown, MemoryKnown, DiskIsBootable,
         MadeFrom, FloorKept, CounterCovers, Used, Android, PublishCutover,
         CutoverState, Published
<1>4. Owned' /\ NoneEarly'
  BY DEF IInv, TypeOK, CandidateKnown, MemoryKnown, MadeFrom, Owned,
         NoneEarly, PublishCutover, CutoverState, Published
<1>5. RoutesKnown'
  <2>1. {retired'.rev} \ {NoGen} = {mem.active}
    BY DEF IInv, TypeOK, PublishCutover
  <2>2. mem'.active = candidate.rev
    BY DEF IInv, TypeOK, PublishCutover, CutoverState
  <2> QED
    BY <2>1, <2>2 DEF RoutesKnown, PublishCutover
<1> QED
  BY <1>1, <1>2, <1>3, <1>4, <1>5 DEF IInv

\* PublishFails leaves either state in state.json; both are proven.
LEMMA PublishFailsStep ==
    ASSUME IInv, PublishFails
    PROVE  IInv'
<1>1. TypeOK'
  BY SMTT(30) DEF IInv, TypeOK, CandidateKnown, MemoryKnown, MadeFrom, Android, PublishFails, Abandon, Fault
<1>2. CandidateKnown' /\ MemoryKnown' /\ DiskIsBootable'
  BY DEF IInv, TypeOK, CandidateKnown, MemoryKnown, DiskIsBootable,
         MadeFrom, PublishFails, Abandon, Fault
<1>3. FloorKept' /\ CounterCovers'
  BY DEF IInv, TypeOK, CandidateKnown, MemoryKnown, DiskIsBootable,
         MadeFrom, FloorKept, CounterCovers, Used, Android, PublishFails,
         Abandon, Fault
<1>4. Owned' /\ NoneEarly'
  BY DEF IInv, TypeOK, CandidateKnown, MemoryKnown, MadeFrom, Owned,
         NoneEarly, PublishFails, Abandon, Fault
<1>5. RoutesKnown'
  BY DEF IInv, TypeOK, CandidateKnown, MemoryKnown, RoutesKnown, Published,
         PublishFails, Abandon, Fault
<1> QED
  BY <1>1, <1>2, <1>3, <1>4, <1>5 DEF IInv

\* RollbackPublish routes to the retired worker alone.
LEMMA RollbackPublishStep ==
    ASSUME IInv, RollbackPublish
    PROVE  IInv'
<1>1. TypeOK'
  BY DEF IInv, TypeOK, RollbackPublish, Published, RetiredAlive, Dead
<1>2. CandidateKnown' /\ MemoryKnown' /\ DiskIsBootable'
  BY DEF IInv, TypeOK, CandidateKnown, MemoryKnown, DiskIsBootable,
         MadeFrom, RollbackPublish, Published, RetiredAlive, Dead
<1>3. FloorKept' /\ CounterCovers'
  BY DEF IInv, TypeOK, CandidateKnown, MemoryKnown, DiskIsBootable,
         MadeFrom, FloorKept, CounterCovers, Used, Android, RollbackPublish,
         Published, RetiredAlive, Dead
<1>4. Owned' /\ NoneEarly'
  BY DEF IInv, TypeOK, CandidateKnown, MemoryKnown, MadeFrom, Owned,
         NoneEarly, RollbackPublish, Published, RetiredAlive, Dead
<1>5. RoutesKnown'
  BY DEF IInv, TypeOK, CandidateKnown, MemoryKnown, RoutesKnown, Published,
         RollbackPublish, RetiredAlive, Dead
<1> QED
  BY <1>1, <1>2, <1>3, <1>4, <1>5 DEF IInv

\* RollbackPersist makes the retired worker active; the dead one is disowned.
LEMMA RollbackPersistStep ==
    ASSUME IInv, RollbackPersist
    PROVE  IInv'
<1>1. TypeOK'
  <2>1. retired.rev \in Gen /\ retired.pair \in AnyPair
    BY DEF IInv, TypeOK, CandidateKnown, MemoryKnown, MadeFrom, RollbackPersist
  <2>2. mem' \in Stored /\ disk' \in Stored
    BY <2>1 DEF IInv, TypeOK, RollbackPersist
  <2> QED
    BY <2>2 DEF IInv, TypeOK, RollbackPersist
<1>2. CandidateKnown' /\ MemoryKnown' /\ DiskIsBootable'
  BY DEF IInv, TypeOK, CandidateKnown, MemoryKnown, DiskIsBootable,
         MadeFrom, RollbackPersist
<1>3. FloorKept' /\ CounterCovers'
  BY DEF IInv, TypeOK, CandidateKnown, MemoryKnown, DiskIsBootable,
         MadeFrom, FloorKept, CounterCovers, Used, Android, RollbackPersist
<1>4. Owned' /\ NoneEarly'
  BY DEF IInv, TypeOK, CandidateKnown, MemoryKnown, MadeFrom, Owned,
         NoneEarly, RollbackPersist
<1>5. RoutesKnown'
  BY DEF IInv, TypeOK, CandidateKnown, MemoryKnown, RoutesKnown, Published,
         RollbackPersist
<1> QED
  BY <1>1, <1>2, <1>3, <1>4, <1>5 DEF IInv

\* RetirePublish takes the retired worker off the routes.
LEMMA RetirePublishStep ==
    ASSUME IInv, RetirePublish
    PROVE  IInv'
<1>1. TypeOK'
  BY DEF IInv, TypeOK, RetirePublish, Published, Dead
<1>2. CandidateKnown' /\ MemoryKnown' /\ DiskIsBootable'
  BY DEF IInv, TypeOK, CandidateKnown, MemoryKnown, DiskIsBootable,
         MadeFrom, RetirePublish, Published, Dead
<1>3. FloorKept' /\ CounterCovers'
  BY DEF IInv, TypeOK, CandidateKnown, MemoryKnown, DiskIsBootable,
         MadeFrom, FloorKept, CounterCovers, Used, Android, RetirePublish,
         Published, Dead
<1>4. Owned' /\ NoneEarly'
  BY DEF IInv, TypeOK, CandidateKnown, MemoryKnown, MadeFrom, Owned,
         NoneEarly, RetirePublish, Published, Dead
<1>5. RoutesKnown'
  BY DEF IInv, TypeOK, CandidateKnown, MemoryKnown, RoutesKnown, Published,
         RetirePublish, Dead
<1> QED
  BY <1>1, <1>2, <1>3, <1>4, <1>5 DEF IInv

\* RetireStop stops the retired worker.
LEMMA RetireStopStep ==
    ASSUME IInv, RetireStop
    PROVE  IInv'
<1>1. TypeOK'
  BY DEF IInv, TypeOK, RetireStop
<1>2. CandidateKnown' /\ MemoryKnown' /\ DiskIsBootable'
  BY DEF IInv, TypeOK, CandidateKnown, MemoryKnown, DiskIsBootable,
         MadeFrom, RetireStop
<1>3. FloorKept' /\ CounterCovers'
  BY DEF IInv, TypeOK, CandidateKnown, MemoryKnown, DiskIsBootable,
         MadeFrom, FloorKept, CounterCovers, Used, Android, RetireStop
<1>4. Owned' /\ NoneEarly'
  BY DEF IInv, TypeOK, CandidateKnown, MemoryKnown, MadeFrom, Owned,
         NoneEarly, RetireStop
<1>5. RoutesKnown'
  BY DEF IInv, TypeOK, CandidateKnown, MemoryKnown, RoutesKnown, Published,
         RetireStop
<1> QED
  BY <1>1, <1>2, <1>3, <1>4, <1>5 DEF IInv

\* RestartActive starts the active worker again.
LEMMA RestartActiveStep ==
    ASSUME IInv, RestartActive
    PROVE  IInv'
<1>1. TypeOK'
  BY SMTT(30) DEF IInv, TypeOK, CandidateKnown, MemoryKnown, MadeFrom, Android, RestartActive, Recovered, Fault
<1>2. CandidateKnown' /\ MemoryKnown' /\ DiskIsBootable'
  BY DEF IInv, TypeOK, CandidateKnown, MemoryKnown, DiskIsBootable,
         MadeFrom, RestartActive, Recovered, Fault, Dead
<1>3. FloorKept' /\ CounterCovers'
  BY DEF IInv, TypeOK, CandidateKnown, MemoryKnown, DiskIsBootable,
         MadeFrom, FloorKept, CounterCovers, Used, Android, RestartActive,
         Recovered, Fault, Dead
<1>4. Owned' /\ NoneEarly'
  BY DEF IInv, TypeOK, CandidateKnown, MemoryKnown, MadeFrom, Owned,
         NoneEarly, RestartActive, Recovered, Fault, Dead
<1>5. RoutesKnown'
  BY DEF IInv, TypeOK, CandidateKnown, MemoryKnown, RoutesKnown, Published,
         RestartActive, Recovered, Fault, Dead
<1> QED
  BY <1>1, <1>2, <1>3, <1>4, <1>5 DEF IInv

\* RestartReady finds it up.
LEMMA RestartReadyStep ==
    ASSUME IInv, RestartReady
    PROVE  IInv'
<1>1. TypeOK'
  BY DEF IInv, TypeOK, RestartReady
<1>2. CandidateKnown' /\ MemoryKnown' /\ DiskIsBootable'
  BY DEF IInv, TypeOK, CandidateKnown, MemoryKnown, DiskIsBootable,
         MadeFrom, RestartReady
<1>3. FloorKept' /\ CounterCovers'
  BY DEF IInv, TypeOK, CandidateKnown, MemoryKnown, DiskIsBootable,
         MadeFrom, FloorKept, CounterCovers, Used, Android, RestartReady
<1>4. Owned' /\ NoneEarly'
  BY DEF IInv, TypeOK, CandidateKnown, MemoryKnown, MadeFrom, Owned,
         NoneEarly, RestartReady
<1>5. RoutesKnown'
  BY DEF IInv, TypeOK, CandidateKnown, MemoryKnown, RoutesKnown, Published,
         RestartReady
<1> QED
  BY <1>1, <1>2, <1>3, <1>4, <1>5 DEF IInv

\* GatewayDies touches the gateway only.
LEMMA GatewayDiesStep ==
    ASSUME IInv, GatewayDies
    PROVE  IInv'
<1>1. TypeOK'
  <2>1. gateway' \in BOOLEAN
    BY DEF GatewayDies
  <2> QED
    BY <2>1 DEF IInv, TypeOK, GatewayDies, Fault
<1>2. CandidateKnown' /\ MemoryKnown' /\ DiskIsBootable'
  BY DEF IInv, TypeOK, CandidateKnown, MemoryKnown, DiskIsBootable,
         MadeFrom, GatewayDies, Fault
<1>3. FloorKept' /\ CounterCovers'
  BY DEF IInv, TypeOK, CandidateKnown, MemoryKnown, DiskIsBootable,
         MadeFrom, FloorKept, CounterCovers, Used, Android, GatewayDies,
         Fault
<1>4. Owned' /\ NoneEarly'
  BY DEF IInv, TypeOK, CandidateKnown, MemoryKnown, MadeFrom, Owned,
         NoneEarly, GatewayDies, Fault
<1>5. RoutesKnown'
  BY DEF IInv, TypeOK, CandidateKnown, MemoryKnown, RoutesKnown, Published,
         GatewayDies, Fault
<1> QED
  BY <1>1, <1>2, <1>3, <1>4, <1>5 DEF IInv

\* Stage picks a revision above the counter, hence above all in use, that
\* has neither file nor process.
LEMMA StageStep ==
    ASSUME NEW p \in Pair, NEW c \in Compiled,
           IInv, Stage(p, c)
    PROVE  IInv'
<1>1. TypeOK'
  BY DEF IInv, TypeOK, Stage, NextRevision, MaxOf, Dead
<1>2. CandidateKnown' /\ MemoryKnown' /\ DiskIsBootable'
  BY DEF IInv, TypeOK, CandidateKnown, MemoryKnown, DiskIsBootable,
         MadeFrom, Stage, NextRevision, MaxOf, Dead
<1>3. FloorKept' /\ CounterCovers'
  BY DEF IInv, TypeOK, CandidateKnown, MemoryKnown, DiskIsBootable,
         MadeFrom, FloorKept, CounterCovers, Used, Android, Stage,
         NextRevision, MaxOf, Dead
<1>4. Owned' /\ NoneEarly'
  BY DEF IInv, TypeOK, CandidateKnown, MemoryKnown, MadeFrom, Owned,
         NoneEarly, Stage, NextRevision, MaxOf, Dead
<1>5. RoutesKnown'
  BY DEF IInv, TypeOK, CandidateKnown, MemoryKnown, RoutesKnown, Published,
         Stage, NextRevision, MaxOf, Dead
<1> QED
  BY <1>1, <1>2, <1>3, <1>4, <1>5 DEF IInv

\* WorkerDies only takes a process away.
LEMMA WorkerDiesStep ==
    ASSUME NEW g \in Gen,
           IInv, WorkerDies(g)
    PROVE  IInv'
<1>1. TypeOK'
  BY DEF IInv, TypeOK, WorkerDies, Dead, Fault
<1>2. CandidateKnown' /\ MemoryKnown' /\ DiskIsBootable'
  BY DEF IInv, TypeOK, CandidateKnown, MemoryKnown, DiskIsBootable,
         MadeFrom, WorkerDies, Dead, Fault
<1>3. FloorKept' /\ CounterCovers'
  BY DEF IInv, TypeOK, CandidateKnown, MemoryKnown, DiskIsBootable,
         MadeFrom, FloorKept, CounterCovers, Used, Android, WorkerDies,
         Dead, Fault
<1>4. Owned' /\ NoneEarly'
  BY DEF IInv, TypeOK, CandidateKnown, MemoryKnown, MadeFrom, Owned,
         NoneEarly, WorkerDies, Dead, Fault
<1>5. RoutesKnown'
  BY DEF IInv, TypeOK, CandidateKnown, MemoryKnown, RoutesKnown, Published,
         WorkerDies, Dead, Fault
<1> QED
  BY <1>1, <1>2, <1>3, <1>4, <1>5 DEF IInv

\* The invariant holds before the first start.
LEMMA InitIInv == Init => IInv
<1> SUFFICES ASSUME Init PROVE IInv
  OBVIOUS
<1>1. TypeOK
  <2>1. gateway \in BOOLEAN
    BY DEF Init
  <2> QED
    BY <2>1 DEF Init, TypeOK, Published
<1>2. CandidateKnown /\ MemoryKnown /\ DiskIsBootable
  BY DEF Init, CandidateKnown, MemoryKnown, DiskIsBootable, MadeFrom
<1>3. FloorKept /\ CounterCovers
  BY DEF Init, FloorKept, CounterCovers
<1>4. Owned /\ NoneEarly /\ RoutesKnown
  BY DEF Init, Owned, NoneEarly, RoutesKnown
<1> QED
  BY <1>1, <1>2, <1>3, <1>4 DEF IInv

\* Every step preserves the invariant.
LEMMA NextIInv == IInv /\ [Next]_vars => IInv'
<1> SUFFICES ASSUME IInv, [Next]_vars PROVE IInv'
  OBVIOUS
<1>1. CASE Boot \/ BootReady \/ BootGateway
  BY <1>1, BootStep, BootReadyStep, BootGatewayStep
<1>6. CASE ServiceManager
  BY <1>6, ServiceManagerStep
<1>2. CASE Update
  <2>1. CASE \E p \in Pair, c \in Compiled : Stage(p, c)
    BY <2>1, StageStep
  <2> QED
    BY <1>2, <2>1, ReserveStep, IncapableStep, StartCandidateStep, CandidateSettlesStep,
       CandidateRejectedStep, PersistCutoverStep, PublishCutoverStep DEF Update
<1>3. CASE Maintain
  <2>1. CASE GiveUp
    BY <2>1, HaltStep DEF GiveUp, IInv, TypeOK
  <2> QED
    BY <1>3, <2>1, RollbackPublishStep, RollbackPersistStep, RetirePublishStep,
       RetireStopStep, RestartReadyStep DEF Maintain
<1>4. CASE Environment
  <2>1. CASE Shutdown \/ NeverReady \/ Crash \/ MaintainFails \/ RetireTimeout
    <3>1. Halt("stopped") \/ Halt("down")
      BY <2>1 DEF Shutdown, NeverReady, Crash, MaintainFails, RetireTimeout
    <3>2. faults' \in Nat
      BY <2>1 DEF Shutdown, NeverReady, Crash, MaintainFails, RetireTimeout, Fault, IInv, TypeOK
    <3> QED
      BY <3>1, <3>2, HaltStep
  <2>2. CASE \E g \in Gen : WorkerDies(g)
    BY <2>2, WorkerDiesStep
  <2> QED
    BY <1>4, <2>1, <2>2, ReserveFailsStep, CandidateStuckStep, PersistFailsStep,
       PublishFailsStep, RestartActiveStep, GatewayDiesStep DEF Environment
<1>5. CASE UNCHANGED vars
  <2>1. TypeOK'
    BY <1>5 DEF vars, IInv, TypeOK
  <2>2. CandidateKnown' /\ MemoryKnown' /\ DiskIsBootable'
    BY <1>5 DEF vars, IInv, CandidateKnown, MemoryKnown, DiskIsBootable, MadeFrom
  <2>3. FloorKept' /\ CounterCovers'
    BY <1>5 DEF vars, IInv, FloorKept, CounterCovers, Used, Android
  <2>4. Owned' /\ NoneEarly' /\ RoutesKnown'
    BY <1>5 DEF vars, IInv, Owned, NoneEarly, RoutesKnown, Published
  <2> QED
    BY <2>1, <2>2, <2>3, <2>4 DEF IInv
<1> QED
  BY <1>1, <1>2, <1>3, <1>4, <1>5, <1>6 DEF Next

\* The inductive invariant.
LEMMA Inductive == Spec => []IInv
BY InitIInv, NextIInv, PTL DEF Spec

-----------------------------------------------------------------------------
\* The supervisor's variables keep their types.
THEOREM SupervisorType == Spec => []TypeOK
<1>1. IInv => TypeOK
  BY DEF IInv
<1> QED
  BY <1>1, Inductive, PTL

\* The counter in memory covers every revision in use whenever an update may
\* start, so a file left by a crash never blocks the next one.
THEOREM CounterAlwaysCovers == Spec => []CounterCovers
<1>1. IInv => CounterCovers
  BY DEF IInv
<1> QED
  BY <1>1, Inductive, PTL

\* Whatever the faults, state.json names a generation that was ready once and
\* the pair it was made from.
THEOREM AlwaysBootable == Spec => []DiskIsBootable
<1>1. IInv => DiskIsBootable
  BY DEF IInv
<1> QED
  BY <1>1, Inductive, PTL

\* Between two steps of the loop the gateway routes to the active and the
\* retired worker only.
THEOREM RoutesAlwaysMatch == Spec => []RoutesMatch
<1>1. IInv => RoutesMatch
  BY DEF IInv, RoutesKnown, RoutesMatch
<1> QED
  BY <1>1, Inductive, PTL

\* A running worker is the active one, or the only retired or tried one: no
\* update starts before the old worker is drained, and none is forgotten.
THEOREM NoThirdGeneration == Spec => []OldDrainsFirst
<1>1. ASSUME IInv PROVE OldDrainsFirst
  <2>1. retired # None => candidate = None
    BY <1>1 DEF IInv, CandidateKnown
  <2>2. NoGen \notin Gen
    OBVIOUS
  <2> QED
    BY <1>1, <2>1, <2>2 DEF IInv, TypeOK, Owned, OldDrainsFirst, OwnedWorkers
<1> QED
  BY <1>1, Inductive, PTL

\* A revision that is handed out exceeds every revision in use before, across
\* any crashes, restarts and failed writes.
THEOREM VersionsNeverReused == Spec => VersionNeverReused
<1>1. ASSUME IInv, [Next]_vars
      PROVE  [\A g \in Allocated' \ Allocated, u \in Used : g > u]_vars
  <2>1. CASE UNCHANGED generations
    BY <2>1
  <2>2. CASE \E p \in Pair, c \in Compiled : Stage(p, c)
    <3>1. PICK p \in Pair, c \in Compiled : Stage(p, c)
      BY <2>2
    <3> DEFINE rev == NextRevision(mem.counter, c)
    <3>2. rev > mem.counter /\ rev \in Nat
      BY <1>1 DEF IInv, TypeOK, NextRevision, MaxOf
    <3>3. Allocated' \ Allocated \subseteq {rev}
      BY <1>1, <3>1 DEF IInv, TypeOK, Stage
    <3>4. \A u \in Used : u <= mem.counter /\ u \in Nat
      BY <1>1, <3>1, UsedType DEF IInv, CounterCovers, Stage
    <3> HIDE DEF rev
    <3>5. \A g \in Allocated' \ Allocated, u \in Used : g > u
      <4> SUFFICES ASSUME NEW g \in Allocated' \ Allocated, NEW u \in Used
                   PROVE  g > u
        OBVIOUS
      <4>1. g = rev
        BY <3>3
      <4> QED
        BY <4>1, <1>1, <3>2, <3>4 DEF IInv, TypeOK
    <3> QED
      BY <3>5
  <2>3. CASE Next /\ ~\E p \in Pair, c \in Compiled : Stage(p, c)
    BY <2>1, <2>3 DEF Next, Boot, BootReady, BootGateway, Update, Reserve, Incapable,
       StartCandidate, CandidateSettles, CandidateRejected, PersistCutover, PublishCutover,
       Maintain, RollbackPublish, RollbackPersist, RetirePublish, RetireStop,
       RestartReady, GiveUp, Halt, ServiceManager, Refused, IntervalPasses, OperatorStarts,
       Environment, Shutdown, NeverReady, Crash, ReserveFails,
       CandidateStuck, PersistFails, PublishFails, MaintainFails, RetireTimeout,
       RestartActive, WorkerDies, GatewayDies
  <2> QED
    BY <1>1, <2>1, <2>2, <2>3 DEF vars
<1> QED
  BY <1>1, Inductive, PTL DEF Spec, VersionNeverReused

\* The worker that visitors are sent to is stopped by no step of an update, of
\* a failed update or of maintain: what they stop is the candidate or the
\* retired worker, which the routes never name as active.
THEOREM NoOutageByUpdates == Spec => NoSelfInflictedOutage
<1> DEFINE Outage == /\ gateway /\ gateway' /\ proc[routes.active] = "up"
                     /\ ~WorkerDies(routes.active) /\ proc'[routes.active] # "up"
<1>1. ASSUME IInv, [Next]_vars, Outage PROVE FALSE
  <2>1. routes.active \in Gen /\ proc \in [Gen -> {"dead", "starting", "up", "stuck"}]
    BY <1>1 DEF IInv, TypeOK
  <2>2. proc' # proc /\ gateway'
    BY <1>1
  <2>3. pc \notin Idle
    BY <1>1, <2>1 DEF IInv, Owned
  <2>4. CASE BootReady \/ RestartReady \/ CandidateSettles
    BY <1>1, <2>1, <2>4 DEF BootReady, RestartReady, CandidateSettles
  <2>5. CASE StartCandidate \/ CandidateRejected \/ PersistFails \/ PublishFails
    <3>1. routes.active # candidate.rev
      BY <1>1, <2>5 DEF IInv, CandidateKnown, RoutesKnown, Published, StartCandidate,
         CandidateRejected, PersistFails, PublishFails
    <3> QED
      BY <1>1, <2>1, <2>5, <3>1 DEF StartCandidate, CandidateRejected, PersistFails,
         PublishFails, Abandon
  <2>6. CASE ReserveFails \/ RestartActive
    BY <1>1, <2>1, <2>6 DEF ReserveFails, RestartActive, Recovered
  <2>7. CASE CandidateStuck
    <3>1. routes.active # candidate.rev
      BY <1>1, <2>7 DEF IInv, CandidateKnown, RoutesKnown, Published, CandidateStuck
    <3> QED
      BY <1>1, <2>1, <2>7, <3>1 DEF CandidateStuck, Recovered
  <2>8. CASE RetireStop
    <3>1. routes.active # retired.rev
      BY <1>1, <2>8 DEF IInv, CandidateKnown, MemoryKnown, RoutesKnown, Published,
         RetireStop
    <3> QED
      BY <1>1, <2>1, <2>8, <3>1 DEF RetireStop
  <2>9. CASE \E g \in Gen : WorkerDies(g)
    BY <1>1, <2>1, <2>9 DEF WorkerDies
  <2>10. CASE UNCHANGED vars
    BY <2>2, <2>10 DEF vars
  <2> QED
    BY <1>1, <2>2, <2>3, <2>4, <2>5, <2>6, <2>7, <2>8, <2>9, <2>10
    DEF Next, Boot, BootGateway, Update, Stage, Reserve, Incapable,
        PersistCutover, PublishCutover, Maintain, RollbackPublish, RollbackPersist,
        RetirePublish, GiveUp, Halt, ServiceManager, Refused, IntervalPasses,
        OperatorStarts, Environment, Shutdown, NeverReady, Crash, MaintainFails,
        RetireTimeout, GatewayDies
<1>2. IInv /\ [Next]_vars =>
        [gateway /\ gateway' /\ proc[routes.active] = "up"
           /\ ~WorkerDies(routes.active) => proc'[routes.active] = "up"]_vars
  BY <1>1
<1> QED
  BY <1>2, Inductive, PTL DEF Spec, NoSelfInflictedOutage
=============================================================================
