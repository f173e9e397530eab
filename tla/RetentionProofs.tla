--------------------------- MODULE RetentionProofs ---------------------------
(***************************************************************************)
(* Theorems about the retention of a replaced worker, for any number of    *)
(* visitors and any durations in the order of WindowAssumption.            *)
(***************************************************************************)
EXTENDS Retention, FiniteSetTheorems, TLAPS

\* The last instant a request that is no upload, or an upload before it is
\* counted, can still be under way when it was routed before the cutover.
Departed == since + HandlerSeconds

\* The clocks agree: nothing is from the future, and the supervisor's last
\* turn is recent.
ClockSound ==
    /\ stats.mtime <= now
    /\ stage # "alone" => since <= now /\ turn <= now /\ lastBusy <= now
    /\ stage = "both" => now <= turn + MaxGap

\* A request is routed in time; new work was routed before the cutover, and an
\* answer to a challenge is under way only while the challenge stands.
FlightSound(v) ==
    /\ flight[v].phase = "none" => flight[v].kind = "none"
    /\ flight[v].kind = "prove" /\ flight[v].phase # "answered"
         => ticket[v].kind = "challenge"
    /\ flight[v].start <= now
    /\ flight[v].phase = "routed"
         \/ (flight[v].phase = "flying" /\ flight[v].kind # "upload")
            => now <= flight[v].start + HandlerSeconds
    /\ flight[v].kind \in {"ask", "upload"} /\ stage # "alone"
         => flight[v].start <= since

\* An upload under way is in the statistics, unless they are older than its
\* departure; and a turn that missed it came early.
UploadSound(v) ==
    flight[v].kind = "upload" /\ flight[v].phase = "flying" /\ stage = "both" =>
        /\ stats.count # 0 \/ stats.mtime <= Departed
        /\ turn = lastBusy \/ turn <= Departed + FreshFor

\* A challenge comes from before the cutover, or a request routed then; a grant
\* comes from such a challenge, or from an upload that a turn saw shortly
\* before, or from one too early to be seen.
TicketSound(v) ==
    /\ ticket[v].kind = "challenge" =>
        ticket[v].until <= ChallengeTtl + (IF stage = "alone" THEN now ELSE Departed)
    /\ ticket[v].kind = "grant" =>
        \/ stage = "alone" /\ ticket[v].until <= now + GrantTtl
        \/ /\ stage # "alone"
           /\ \/ ticket[v].until <= Departed + ChallengeTtl + GrantTtl
              \/ ticket[v].until <= Departed + FreshFor + MaxGap + GrantTtl
              \/ ticket[v].until <= lastBusy + MaxGap + GrantTtl

IInv ==
    /\ TypeOK
    /\ ClockSound
    /\ \A v \in Visitor : FlightSound(v) /\ UploadSound(v) /\ TicketSound(v)
    /\ UploadsFinish
    /\ RemainderBounded

LEMMA Initial == Init => IInv
  <1> USE RetentionAssumption
  <1> SUFFICES ASSUME Init PROVE IInv
    OBVIOUS
  <1>1. TypeOK /\ ClockSound /\ UploadsFinish /\ RemainderBounded
    BY DEF Init, TypeOK, ClockSound, UploadsFinish, RemainderBounded, NoFlight, NoTicket
  <1>2. \A v \in Visitor : FlightSound(v) /\ UploadSound(v) /\ TicketSound(v)
    BY DEF Init, FlightSound, UploadSound, TicketSound, NoFlight, NoTicket
  <1> QED BY <1>1, <1>2 DEF IInv

\* A step of one request leaves the clocks, the supervisor and the requests of
\* the others alone, so only its own flight and ticket matter.
LEMMA Alone ==
  ASSUME IInv, TypeOK', NEW v \in Visitor,
         UNCHANGED <<now, stage, since, lastBusy, turn, stats, stopped>>,
         \A w \in Visitor \ {v} : flight'[w] = flight[w] /\ ticket'[w] = ticket[w],
         FlightSound(v)', UploadSound(v)', TicketSound(v)',
         stage = "stopped" =>
            /\ ticket'[v] = ticket[v]
            /\ flight'[v].kind = "upload" => flight'[v] = flight[v]
  PROVE  IInv'
  <1>1. ClockSound'
    BY DEF IInv, ClockSound
  <1>2. ASSUME NEW w \in Visitor PROVE (FlightSound(w) /\ UploadSound(w) /\ TicketSound(w))'
    <2>1. CASE w = v
      BY <2>1
    <2>2. CASE w # v
      BY <2>2 DEF IInv, FlightSound, UploadSound, TicketSound, Departed
    <2> QED BY <2>1, <2>2
  <1>3. UploadsFinish'
    BY DEF IInv, UploadsFinish
  <1>4. RemainderBounded'
    BY DEF IInv, RemainderBounded, Larger
  <1> QED BY <1>1, <1>2, <1>3, <1>4 DEF IInv

LEMMA RouteKeeps ==
  ASSUME IInv, NEW v \in Visitor, NEW kind \in {"ask", "prove", "upload", "download"},
         Route(v, kind)
  PROVE  IInv'
  <1> USE RetentionAssumption
  <1>1. TypeOK
    BY DEF IInv
  <1>2. UNCHANGED <<now, stage, since, lastBusy, turn, stats, ticket, stopped>>
    BY DEF Route
  <1>3. /\ flight'[v] = [kind |-> kind, phase |-> "routed", start |-> now]
        /\ \A w \in Visitor \ {v} : flight'[w] = flight[w]
    BY <1>1 DEF Route, TypeOK
  <1>4. TypeOK'
    BY <1>1 DEF Route, TypeOK
  <1>5. kind \in {"ask", "upload"} => stage = "alone"
    BY DEF Route
  <1>6. FlightSound(v)'
    BY <1>1, <1>2, <1>3, <1>5 DEF Route, FlightSound, TypeOK
  <1>7. UploadSound(v)'
    BY <1>3 DEF UploadSound
  <1>8. TicketSound(v)'
    BY <1>2 DEF IInv, TicketSound, Departed
  <1> QED BY <1>2, <1>3, <1>4, <1>5, <1>6, <1>7, <1>8, Alone

LEMMA DepartKeeps ==
  ASSUME IInv, NEW v \in Visitor, Depart(v)
  PROVE  IInv'
  <1> USE RetentionAssumption
  <1>1. TypeOK /\ ClockSound /\ FlightSound(v)
    BY DEF IInv
  <1>2. UNCHANGED <<now, stage, since, lastBusy, turn, stats, ticket, stopped>>
    BY DEF Depart
  <1>3. /\ flight[v].phase = "routed" /\ flight'[v].phase = "flying"
        /\ flight'[v].kind = flight[v].kind /\ flight'[v].start = flight[v].start
        /\ \A w \in Visitor \ {v} : flight'[w] = flight[w]
    BY <1>1 DEF Depart, TypeOK
  <1>4. TypeOK'
    BY <1>1 DEF Depart, TypeOK
  <1>5. FlightSound(v)'
    BY <1>1, <1>2, <1>3 DEF FlightSound
  <1>6. UploadSound(v)'
    BY <1>1, <1>2, <1>3 DEF UploadSound, FlightSound, ClockSound, Departed, TypeOK
  <1>7. TicketSound(v)'
    BY <1>2 DEF IInv, TicketSound, Departed
  <1>8. stage = "stopped" => flight[v].kind # "upload"
    BY <1>3 DEF IInv, UploadsFinish
  <1> QED BY <1>2, <1>3, <1>4, <1>5, <1>6, <1>7, <1>8, Alone

LEMMA AnswerKeeps ==
  ASSUME IInv, NEW v \in Visitor, Answer(v)
  PROVE  IInv'
  <1> USE RetentionAssumption
  <1>1. TypeOK /\ ClockSound /\ FlightSound(v) /\ UploadSound(v) /\ TicketSound(v)
    BY DEF IInv
  <1>2. UNCHANGED <<now, stage, since, lastBusy, turn, stats, stopped>> /\ stage # "stopped"
    BY DEF Answer
  <1>3. /\ flight[v].phase = "flying" /\ flight'[v].phase = "answered"
        /\ flight'[v].kind = flight[v].kind /\ flight'[v].start = flight[v].start
        /\ \A w \in Visitor \ {v} : flight'[w] = flight[w] /\ ticket'[w] = ticket[w]
        /\ ticket'[v] = Outcome(v)
    BY <1>1 DEF Answer, TypeOK
  <1>4. Outcome(v) \in [kind : {"none", "challenge", "grant"}, until : Nat]
    BY <1>1 DEF Outcome, NoTicket, TypeOK
  <1>5. TypeOK'
    BY <1>1, <1>4 DEF Answer, TypeOK
  <1>6. FlightSound(v)' /\ UploadSound(v)'
    BY <1>1, <1>2, <1>3 DEF FlightSound, UploadSound
  <1>7. TicketSound(v)'
    <2>1. CASE flight[v].kind = "ask"
      <3>1. ticket'[v] = [kind |-> "challenge", until |-> now + ChallengeTtl]
        BY <1>3, <2>1 DEF Outcome
      <3> QED BY <1>1, <1>2, <1>3, <2>1, <3>1 DEF TicketSound, FlightSound, Departed, TypeOK
    <2>2. CASE flight[v].kind = "upload"
      <3>1. ticket'[v] = [kind |-> "grant", until |-> now + GrantTtl]
        BY <1>3, <2>2 DEF Outcome
      <3> QED BY <1>1, <1>2, <1>3, <2>2, <3>1
              DEF TicketSound, UploadSound, ClockSound, Departed, TypeOK
    <2>3. CASE flight[v].kind \notin {"ask", "upload"}
      <3>1. \/ ticket'[v] = NoTicket
            \/ Valid(v) /\ ticket'[v] = [kind |-> "grant", until |-> now + GrantTtl]
        BY <1>3, <2>3 DEF Outcome
      <3>2. Valid(v) /\ ticket'[v] # NoTicket => ticket[v].kind = "challenge"
        BY <1>1, <1>3, <2>3 DEF Outcome, FlightSound
      <3> QED BY <1>1, <1>2, <3>1, <3>2
              DEF TicketSound, Valid, NoTicket, Departed, TypeOK
    <2> QED BY <2>1, <2>2, <2>3
  <1> QED BY <1>2, <1>3, <1>5, <1>6, <1>7, Alone

LEMMA LandKeeps ==
  ASSUME IInv, NEW v \in Visitor, Land(v)
  PROVE  IInv'
  <1> USE RetentionAssumption
  <1>1. TypeOK
    BY DEF IInv
  <1>2. UNCHANGED <<now, stage, since, lastBusy, turn, stats, ticket, stopped>>
    BY DEF Land
  <1>3. flight'[v] = NoFlight /\ \A w \in Visitor \ {v} : flight'[w] = flight[w]
    BY <1>1 DEF Land, TypeOK
  <1>4. TypeOK'
    BY <1>1 DEF Land, TypeOK, NoFlight
  <1>5. FlightSound(v)' /\ UploadSound(v)'
    BY <1>1, <1>2, <1>3 DEF FlightSound, UploadSound, NoFlight, TypeOK
  <1>6. TicketSound(v)'
    BY <1>2 DEF IInv, TicketSound, Departed
  <1> QED BY <1>2, <1>3, <1>4, <1>5, <1>6, Alone DEF NoFlight

\* The statistics count every upload under way.
LEMMA SnapshotKeeps ==
  ASSUME IInv, Snapshot
  PROVE  IInv'
  <1> USE RetentionAssumption
  <1>1. TypeOK /\ ClockSound
    BY DEF IInv
  <1>2. UNCHANGED <<now, stage, since, lastBusy, turn, flight, ticket, stopped>>
    BY DEF Snapshot
  <1>3. IsFiniteSet(Counted) /\ Cardinality(Counted) \in Nat
    BY FS_Subset, FS_CardinalityType DEF Counted
  <1>4. TypeOK' /\ ClockSound'
    BY <1>1, <1>3 DEF Snapshot, TypeOK, ClockSound
  <1>5. ASSUME NEW v \in Visitor PROVE (FlightSound(v) /\ UploadSound(v) /\ TicketSound(v))'
    <2>1. FlightSound(v) /\ UploadSound(v) /\ TicketSound(v)
      BY DEF IInv
    <2>2. flight[v].phase = "flying" => Cardinality(Counted) # 0
      BY <1>3, FS_EmptySet DEF Counted
    <2> QED BY <1>2, <2>1, <2>2 DEF Snapshot, FlightSound, UploadSound, TicketSound, Departed
  <1>6. UploadsFinish' /\ RemainderBounded'
    BY <1>2 DEF IInv, UploadsFinish, RemainderBounded
  <1> QED BY <1>4, <1>5, <1>6 DEF IInv

LEMMA CutoverKeeps ==
  ASSUME IInv, Cutover
  PROVE  IInv'
  <1> USE RetentionAssumption
  <1>1. TypeOK /\ ClockSound
    BY DEF IInv
  <1>2. /\ UNCHANGED <<now, stats, flight, ticket, stopped>>
        /\ stage = "alone" /\ stage' = "both"
        /\ since' = now /\ lastBusy' = now /\ turn' = now
    BY DEF Cutover
  <1>3. TypeOK' /\ ClockSound'
    BY <1>1, <1>2 DEF TypeOK, ClockSound
  <1>4. ASSUME NEW v \in Visitor PROVE (FlightSound(v) /\ UploadSound(v) /\ TicketSound(v))'
    <2>1. FlightSound(v) /\ UploadSound(v) /\ TicketSound(v)
      BY DEF IInv
    <2>2. FlightSound(v)' /\ UploadSound(v)'
      BY <1>1, <1>2, <2>1 DEF FlightSound, UploadSound, ClockSound, Departed, TypeOK
    <2>3. TicketSound(v)'
      BY <1>1, <1>2, <2>1 DEF TicketSound, Departed, TypeOK
    <2> QED BY <2>2, <2>3
  <1>5. UploadsFinish' /\ RemainderBounded'
    BY <1>2 DEF UploadsFinish, RemainderBounded
  <1> QED BY <1>3, <1>4, <1>5 DEF IInv

\* When the retired worker is due, no upload is under way and every ticket is
\* about to end.
LEMMA DueIsSafe ==
  ASSUME IInv, stage = "both", Due, NEW v \in Visitor
  PROVE  /\ flight[v].kind = "upload" => flight[v].phase \notin {"routed", "flying"}
         /\ ticket[v].kind # "none" => ticket[v].until <= now + Larger(HandlerSeconds, MaxGap)
  <1> USE RetentionAssumption, WindowAssumption
  <1>1. TypeOK /\ ClockSound /\ FlightSound(v) /\ UploadSound(v) /\ TicketSound(v)
    BY DEF IInv
  <1>2. /\ now - stats.mtime < FreshFor /\ stats.count = 0
        /\ now - since >= Retain /\ now - lastBusy >= Quiet
    BY DEF Due, Fresh, Busy
  <1>3. /\ Larger(HandlerSeconds, MaxGap) \in Nat
        /\ Larger(HandlerSeconds, MaxGap) >= HandlerSeconds
        /\ Larger(HandlerSeconds, MaxGap) >= MaxGap
    BY DEF Larger
  <1>4. ASSUME flight[v].kind = "upload" PROVE flight[v].phase \notin {"routed", "flying"}
    BY <1>1, <1>2, <1>4 DEF FlightSound, UploadSound, ClockSound, Departed, TypeOK
  <1>5. ASSUME ticket[v].kind # "none"
        PROVE  ticket[v].until <= now + Larger(HandlerSeconds, MaxGap)
    BY <1>1, <1>2, <1>3, <1>5 DEF TicketSound, Departed, TypeOK
  <1> QED BY <1>4, <1>5

LEMMA MaintainKeeps ==
  ASSUME IInv, Maintain
  PROVE  IInv'
  <1> USE RetentionAssumption
  <1>1. TypeOK /\ ClockSound
    BY DEF IInv
  <1>2. /\ UNCHANGED <<now, since, stats, flight, ticket>> /\ turn' = now
        /\ stage = "both" /\ lastBusy' \in {lastBusy, now}
        /\ stage' \in {"both", "stopped"}
    BY DEF Maintain
  <1>3. lastBusy' = now \/ (stats.count = 0 /\ now - stats.mtime < FreshFor)
    BY DEF Maintain, Busy, Fresh
  <1>4. TypeOK'
    BY <1>1, <1>2 DEF Maintain, TypeOK
  <1>5. ClockSound'
    BY <1>1, <1>2 DEF ClockSound, TypeOK
  <1>6. ASSUME NEW v \in Visitor PROVE (FlightSound(v) /\ UploadSound(v) /\ TicketSound(v))'
    <2>1. FlightSound(v) /\ UploadSound(v) /\ TicketSound(v)
      BY DEF IInv
    <2>2. FlightSound(v)'
      BY <1>2, <2>1 DEF FlightSound
    <2>3. UploadSound(v)'
      BY <1>1, <1>2, <1>3, <2>1 DEF UploadSound, Departed, TypeOK
    <2>4. TicketSound(v)'
      BY <1>1, <1>2, <2>1 DEF TicketSound, ClockSound, Departed, TypeOK
    <2> QED BY <2>2, <2>3, <2>4
  <1>7. UploadsFinish' /\ RemainderBounded'
    <2>1. CASE stage' = "both"
      BY <2>1 DEF UploadsFinish, RemainderBounded
    <2>2. CASE stage' = "stopped"
      <3>1. Due /\ stopped' = now
        BY <1>2, <2>2 DEF Maintain
      <3>2. UploadsFinish'
        BY <1>1, <1>2, <3>1, DueIsSafe DEF UploadsFinish, TypeOK, IInv, FlightSound
      <3>3. RemainderBounded'
        BY <1>2, <3>1, DueIsSafe DEF RemainderBounded, Larger
      <3> QED BY <3>2, <3>3
    <2> QED BY <1>2, <2>1, <2>2
  <1> QED BY <1>4, <1>5, <1>6, <1>7 DEF IInv

LEMMA TickKeeps ==
  ASSUME IInv, Tick
  PROVE  IInv'
  <1> USE RetentionAssumption
  <1>1. TypeOK /\ ClockSound
    BY DEF IInv
  <1>2. /\ UNCHANGED <<stage, since, lastBusy, turn, stats, flight, ticket, stopped>>
        /\ now' = now + 1 /\ stage # "stopped"
        /\ stage = "both" => now - turn < MaxGap
    BY DEF Tick
  <1>3. TypeOK' /\ ClockSound'
    BY <1>1, <1>2 DEF TypeOK, ClockSound
  <1>4. ASSUME NEW v \in Visitor PROVE (FlightSound(v) /\ UploadSound(v) /\ TicketSound(v))'
    <2>1. FlightSound(v) /\ UploadSound(v) /\ TicketSound(v)
      BY DEF IInv
    <2>2. \/ flight[v].phase \notin {"routed", "flying"}
          \/ flight[v].kind = "upload" /\ flight[v].phase = "flying"
          \/ now - flight[v].start < HandlerSeconds
      BY DEF Tick
    <2>3. FlightSound(v)'
      BY <1>1, <1>2, <2>1, <2>2 DEF FlightSound, TypeOK
    <2>4. UploadSound(v)' /\ TicketSound(v)'
      BY <1>1, <1>2, <2>1 DEF UploadSound, TicketSound, Departed, TypeOK
    <2> QED BY <2>3, <2>4
  <1>5. UploadsFinish' /\ RemainderBounded'
    BY <1>2 DEF UploadsFinish, RemainderBounded
  <1> QED BY <1>3, <1>4, <1>5 DEF IInv

LEMMA Inductive == Spec => []IInv
  <1>1. IInv /\ [Next]_vars => IInv'
    <2> SUFFICES ASSUME IInv, [Next]_vars PROVE IInv'
      OBVIOUS
    <2>1. CASE UNCHANGED vars
      BY <2>1 DEF vars, IInv, TypeOK, ClockSound, FlightSound, UploadSound, TicketSound,
                  UploadsFinish, RemainderBounded, Departed
    <2>2. CASE Next
      BY <2>2, RouteKeeps, DepartKeeps, AnswerKeeps, LandKeeps, SnapshotKeeps,
         CutoverKeeps, MaintainKeeps, TickKeeps DEF Next
    <2> QED BY <2>1, <2>2
  <1> QED BY <1>1, Initial, PTL DEF Spec

\* The supervisor's and the gateway's records are well formed in every state.
THEOREM RetentionType == Spec => []TypeOK
  <1>1. IInv => TypeOK
    BY DEF IInv
  <1> QED BY <1>1, Inductive, PTL

\* maintain never stops a worker that has not answered an upload it was sent,
\* however long the upload takes and whatever else goes on.
THEOREM UploadsAlwaysFinish == Spec => []UploadsFinish
  <1>1. IInv => UploadsFinish
    BY DEF IInv
  <1> QED BY <1>1, Inductive, PTL

\* A ticket that outlives its worker does so by no more than a handler's time
\* or one turn of the supervisor's loop (maintain, forward).
THEOREM RemainderAlwaysBounded == Spec => []RemainderBounded
  <1>1. IInv => RemainderBounded
    BY DEF IInv
  <1> QED BY <1>1, Inductive, PTL
=============================================================================
