---------------------------- MODULE WorkerProofs ----------------------------
(***************************************************************************)
(* Theorems about the prepared-package worker (PrebuiltWorker), for any    *)
(* sets of nonces, tokens and requests, any lifetimes and table limits:    *)
(* promises are kept, and the handlers implement one-time tickets.         *)
(***************************************************************************)
EXTENDS PrebuiltWorker, TLAPS

Slot == [phase : {"idle", "asking", "granting"}, nonce : Nonce \cup {None},
         token : Token \cup {None}, expires : Nat \cup {Never}]

\* Only a request that waits to store its grant carries a nonce and a token;
\* both are spent, and nobody else has them.
SlotSound(r) ==
    IF req[r].phase = "granting"
    THEN /\ req[r].nonce \in Nonce /\ req[r].token \in Token /\ req[r].expires \in Nat
         /\ origin[req[r].token] = req[r].nonce
         /\ promised[req[r].token] = Never
         /\ req[r].token \notin used \cup lost
    ELSE req[r].nonce = None /\ req[r].token = None

OwnSlots ==
    \A r, q \in Request :
        req[r].phase = "granting" /\ req[q].phase = "granting" /\ r # q =>
            req[r].nonce # req[q].nonce /\ req[r].token # req[q].token

\* A challenge in the table is open: it was issued, has its full lifetime, and
\* nobody has answered it.  An answered one was issued.
ChallengeSound(n) ==
    /\ challenges[n] # Never =>
        /\ issuedAt[n] # Never /\ challenges[n] = issuedAt[n] + ChallengeTtl
        /\ n \notin lost
        /\ \A t \in Token : origin[t] # n
    /\ issuedAt[n] = Never => n \notin lost /\ \A t \in Token : origin[t] # n

\* A grant in the table is what was promised, and has not been used.
GrantSound(t) ==
    /\ downloads[t] # Never => promised[t] = downloads[t] /\ t \notin used \cup lost
    /\ promised[t] # Never => origin[t] # None
    /\ t \in used => promised[t] # Never
    /\ t \in lost => origin[t] # None

IInv ==
    /\ TypeOK
    /\ \A r \in Request : SlotSound(r)
    /\ OwnSlots
    /\ \A n \in Nonce : ChallengeSound(n)
    /\ \A t \in Token : GrantSound(t)
    /\ PromisesKept

\* Pruning keeps every entry up to its last second, and adds none.
LEMMA RetainedFacts ==
  ASSUME TypeOK
  PROVE  /\ Retained(challenges) \in [Nonce -> Nat \cup {Never}]
         /\ Retained(downloads) \in [Token -> Nat \cup {Never}]
         /\ \A n \in Nonce :
                /\ Retained(challenges)[n] \in {challenges[n], Never}
                /\ challenges[n] >= now => Retained(challenges)[n] = challenges[n]
         /\ \A t \in Token :
                /\ Retained(downloads)[t] \in {downloads[t], Never}
                /\ downloads[t] >= now => Retained(downloads)[t] = downloads[t]
  BY DEF TypeOK, Retained

LEMMA AskKeeps ==
  ASSUME IInv, NEW r \in Request, Ask(r)
  PROVE  IInv'
  <1> USE WorkerAssumption
  <1>1. TypeOK /\ OwnSlots /\ PromisesKept
    BY DEF IInv
  <1>2. TypeOK'
    BY <1>1 DEF Ask, TypeOK
  <1>3. ASSUME NEW q \in Request PROVE SlotSound(q)'
    <2>1. SlotSound(q)
      BY DEF IInv
    <2> QED BY <2>1 DEF Ask, SlotSound, Idle
  <1>4. OwnSlots'
    BY <1>1 DEF Ask, OwnSlots
  <1>5. ASSUME NEW m \in Nonce PROVE ChallengeSound(m)'
    <2>1. ChallengeSound(m)
      BY DEF IInv
    <2> QED BY <2>1 DEF Ask, ChallengeSound
  <1>6. ASSUME NEW u \in Token PROVE GrantSound(u)'
    <2>1. GrantSound(u)
      BY DEF IInv
    <2> QED BY <2>1 DEF Ask, GrantSound
  <1>7. PromisesKept'
    BY <1>1 DEF Ask, PromisesKept
  <1> QED BY <1>2, <1>3, <1>4, <1>5, <1>6, <1>7 DEF IInv

LEMMA IssueKeeps ==
  ASSUME IInv, NEW r \in Request, NEW n \in Nonce, Issue(r, n)
  PROVE  IInv'
  <1> USE WorkerAssumption
  <1>1. TypeOK /\ OwnSlots /\ PromisesKept
    BY DEF IInv
  <1>2. TypeOK'
    BY <1>1, RetainedFacts DEF Issue, TypeOK, Idle
  <1>3. ASSUME NEW q \in Request PROVE SlotSound(q)'
    <2>1. SlotSound(q)
      BY DEF IInv
    <2> QED BY <2>1 DEF Issue, SlotSound, Idle
  <1>4. OwnSlots'
    BY <1>1 DEF Issue, OwnSlots, Idle
  <1>8. /\ challenges'[n] = now + ChallengeTtl /\ issuedAt'[n] = now
        /\ \A m \in Nonce \ {n} : /\ issuedAt'[m] = issuedAt[m]
                                  /\ challenges'[m] \in {challenges[m], Never}
                                  /\ challenges[m] >= now => challenges'[m] = challenges[m]
        /\ UNCHANGED <<now, downloads, promised, origin, used, lost>>
        /\ issuedAt[n] = Never
    BY <1>1, RetainedFacts DEF Issue, FreshNonce, TypeOK
  <1>5. ASSUME NEW m \in Nonce PROVE ChallengeSound(m)'
    <2>1. ChallengeSound(m)
      BY DEF IInv
    <2>2. now # Never
      BY <1>1 DEF TypeOK, Never
    <2>3. CASE m = n
      BY <1>8, <2>1, <2>2 DEF ChallengeSound
    <2>4. CASE m # n
      BY <1>8, <2>1, <2>4 DEF ChallengeSound
    <2> QED BY <2>3, <2>4
  <1>6. ASSUME NEW u \in Token PROVE GrantSound(u)'
    <2>1. GrantSound(u)
      BY DEF IInv
    <2> QED BY <2>1 DEF Issue, GrantSound
  <1>7. PromisesKept'
    <2>1. \A m \in Nonce :
            challenges[m] # Never => challenges[m] = issuedAt[m] + ChallengeTtl
      BY DEF IInv, ChallengeSound
    <2>2. \A m \in Nonce : m \in Present(challenges)' <=> challenges'[m] # Never
      BY <1>2 DEF Present, TypeOK
    <2>3. \A m \in Nonce : m \in Present(challenges) <=> challenges[m] # Never
      BY <1>1 DEF Present, TypeOK
    <2>4. now + ChallengeTtl # Never
      BY <1>1 DEF TypeOK, Never
    <2> QED BY <1>1, <1>8, <2>1, <2>2, <2>3, <2>4 DEF PromisesKept
  <1> QED BY <1>2, <1>3, <1>4, <1>5, <1>6, <1>7 DEF IInv

LEMMA IssueRefusedKeeps ==
  ASSUME IInv, NEW r \in Request, IssueRefused(r)
  PROVE  IInv'
  <1> USE WorkerAssumption
  <1>1. TypeOK /\ OwnSlots /\ PromisesKept
    BY DEF IInv
  <1>2. TypeOK'
    BY <1>1, RetainedFacts DEF IssueRefused, TypeOK, Idle
  <1>3. ASSUME NEW q \in Request PROVE SlotSound(q)'
    <2>1. SlotSound(q)
      BY DEF IInv
    <2> QED BY <2>1 DEF IssueRefused, SlotSound, Idle
  <1>4. OwnSlots'
    BY <1>1 DEF IssueRefused, OwnSlots, Idle
  <1>5. ASSUME NEW m \in Nonce PROVE ChallengeSound(m)'
    <2>1. ChallengeSound(m)
      BY DEF IInv
    <2> QED BY <1>1, <2>1, RetainedFacts DEF IssueRefused, ChallengeSound
  <1>6. ASSUME NEW u \in Token PROVE GrantSound(u)'
    <2>1. GrantSound(u)
      BY DEF IInv
    <2> QED BY <2>1 DEF IssueRefused, GrantSound
  <1>7. PromisesKept'
    BY RetainedFacts DEF IssueRefused, IInv, ChallengeSound, PromisesKept, Present
  <1> QED BY <1>2, <1>3, <1>4, <1>5, <1>6, <1>7 DEF IInv

LEMMA ProveKeeps ==
  ASSUME IInv, NEW r \in Request, NEW n \in Nonce, NEW t \in Token, Prove(r, n, t)
  PROVE  IInv'
  <1> USE WorkerAssumption
  <1>1. TypeOK /\ OwnSlots /\ PromisesKept
    BY DEF IInv
  <1>2. TypeOK'
    BY <1>1 DEF Prove, Taken, TypeOK
  <1>3. ASSUME NEW q \in Request PROVE SlotSound(q)'
    <2>1. SlotSound(q)
      BY DEF IInv
    <2> QED BY DEF Prove, FreshToken, SlotSound, TypeOK, IInv, GrantSound
  <1>4. OwnSlots'
    BY DEF Prove, FreshToken, Present, IInv, SlotSound, OwnSlots, ChallengeSound
  <1>5. ASSUME NEW m \in Nonce PROVE ChallengeSound(m)'
    <2>1. ChallengeSound(m)
      BY DEF IInv
    <2> QED BY <2>1 DEF Prove, Taken, Present, ChallengeSound
  <1>6. ASSUME NEW u \in Token PROVE GrantSound(u)'
    <2>1. GrantSound(u)
      BY DEF IInv
    <2> QED BY <2>1 DEF Prove, GrantSound
  <1>7. PromisesKept'
    BY <1>1 DEF Prove, Taken, FreshToken, PromisesKept, Present, TypeOK
  <1> QED BY <1>2, <1>3, <1>4, <1>5, <1>6, <1>7 DEF IInv

LEMMA ProveRefusedKeeps ==
  ASSUME IInv, NEW n \in Nonce, ProveRefused(n)
  PROVE  IInv'
  <1> USE WorkerAssumption
  <1>1. TypeOK /\ OwnSlots /\ PromisesKept
    BY DEF IInv
  <1>2. TypeOK'
    BY <1>1 DEF ProveRefused, Taken, TypeOK
  <1>3. ASSUME NEW q \in Request PROVE SlotSound(q)'
    <2>1. SlotSound(q)
      BY DEF IInv
    <2> QED BY <2>1 DEF ProveRefused, SlotSound
  <1>4. OwnSlots'
    BY <1>1 DEF ProveRefused, OwnSlots
  <1>5. ASSUME NEW m \in Nonce PROVE ChallengeSound(m)'
    <2>1. ChallengeSound(m)
      BY DEF IInv
    <2> QED BY <2>1 DEF ProveRefused, Taken, Present, ChallengeSound
  <1>6. ASSUME NEW u \in Token PROVE GrantSound(u)'
    <2>1. GrantSound(u)
      BY DEF IInv
    <2> QED BY <2>1 DEF ProveRefused, GrantSound
  <1>7. PromisesKept'
    BY <1>1 DEF ProveRefused, Taken, PromisesKept, Present
  <1> QED BY <1>2, <1>3, <1>4, <1>5, <1>6, <1>7 DEF IInv

LEMMA GrantKeeps ==
  ASSUME IInv, NEW r \in Request, Grant(r)
  PROVE  IInv'
  <1> USE WorkerAssumption
  <1>1. TypeOK /\ OwnSlots /\ PromisesKept
    BY DEF IInv
  <1>2. TypeOK'
    BY <1>1, RetainedFacts DEF Grant, TypeOK, Idle
  <1>3. ASSUME NEW q \in Request PROVE SlotSound(q)'
    <2>1. SlotSound(q)
      BY DEF IInv
    <2> QED BY <1>1, <2>1 DEF Grant, SlotSound, OwnSlots, TypeOK, Idle
  <1>4. OwnSlots'
    BY <1>1 DEF Grant, OwnSlots, Idle
  <1>5. ASSUME NEW m \in Nonce PROVE ChallengeSound(m)'
    <2>1. ChallengeSound(m)
      BY DEF IInv
    <2> QED BY <2>1 DEF Grant, ChallengeSound
  <1>6. ASSUME NEW u \in Token PROVE GrantSound(u)'
    <2>1. GrantSound(u)
      BY DEF IInv
    <2> QED BY RetainedFacts DEF Grant, IInv, SlotSound, GrantSound, TypeOK
  <1>7. PromisesKept'
    BY RetainedFacts DEF Grant, IInv, GrantSound, PromisesKept, Present, TypeOK
  <1> QED BY <1>2, <1>3, <1>4, <1>5, <1>6, <1>7 DEF IInv

LEMMA GrantRefusedKeeps ==
  ASSUME IInv, NEW r \in Request, GrantRefused(r)
  PROVE  IInv'
  <1> USE WorkerAssumption
  <1>1. TypeOK /\ OwnSlots /\ PromisesKept
    BY DEF IInv
  <1>2. TypeOK'
    BY RetainedFacts DEF GrantRefused, IInv, SlotSound, TypeOK, Idle
  <1>3. ASSUME NEW q \in Request PROVE SlotSound(q)'
    <2>1. SlotSound(q)
      BY DEF IInv
    <2> QED BY <1>1, <2>1 DEF GrantRefused, SlotSound, OwnSlots, TypeOK, Idle
  <1>4. OwnSlots'
    BY <1>1 DEF GrantRefused, OwnSlots, Idle
  <1>5. ASSUME NEW m \in Nonce PROVE ChallengeSound(m)'
    <2>1. ChallengeSound(m)
      BY DEF IInv
    <2> QED BY <1>1, <2>1 DEF GrantRefused, ChallengeSound, TypeOK
  <1>6. ASSUME NEW u \in Token PROVE GrantSound(u)'
    <2>1. GrantSound(u)
      BY DEF IInv
    <2> QED BY RetainedFacts DEF GrantRefused, IInv, SlotSound, GrantSound
  <1>7. PromisesKept'
    BY RetainedFacts DEF GrantRefused, IInv, GrantSound, PromisesKept, Present
  <1> QED BY <1>2, <1>3, <1>4, <1>5, <1>6, <1>7 DEF IInv

LEMMA CancelKeeps ==
  ASSUME IInv, NEW r \in Request, Cancel(r)
  PROVE  IInv'
  <1> USE WorkerAssumption
  <1>1. TypeOK /\ OwnSlots /\ PromisesKept
    BY DEF IInv
  <1>2. TypeOK'
    BY <1>1 DEF Cancel, TypeOK, Idle
  <1>3. ASSUME NEW q \in Request PROVE SlotSound(q)'
    <2>1. SlotSound(q)
      BY DEF IInv
    <2> QED BY DEF Cancel, SlotSound, OwnSlots, TypeOK, Idle, IInv
  <1>4. OwnSlots'
    BY <1>1 DEF Cancel, OwnSlots, Idle
  <1>5. ASSUME NEW m \in Nonce PROVE ChallengeSound(m)'
    <2>1. ChallengeSound(m)
      BY DEF IInv
    <2> QED BY <1>1, <2>1 DEF Cancel, ChallengeSound, TypeOK
  <1>6. ASSUME NEW u \in Token PROVE GrantSound(u)'
    <2>1. GrantSound(u)
      BY DEF IInv
    <2> QED BY DEF Cancel, IInv, SlotSound, GrantSound
  <1>7. PromisesKept'
    BY <1>1 DEF Cancel, PromisesKept
  <1> QED BY <1>2, <1>3, <1>4, <1>5, <1>6, <1>7 DEF IInv

LEMMA DownloadKeeps ==
  ASSUME IInv, NEW t \in Token, Download(t)
  PROVE  IInv'
  <1> USE WorkerAssumption
  <1>1. TypeOK /\ OwnSlots /\ PromisesKept
    BY DEF IInv
  <1>2. TypeOK'
    BY <1>1 DEF Download, TypeOK
  <1>3. ASSUME NEW q \in Request PROVE SlotSound(q)'
    <2>1. SlotSound(q)
      BY DEF IInv
    <2> QED BY DEF Download, Present, SlotSound, IInv, GrantSound
  <1>4. OwnSlots'
    BY <1>1 DEF Download, OwnSlots
  <1>5. ASSUME NEW m \in Nonce PROVE ChallengeSound(m)'
    <2>1. ChallengeSound(m)
      BY DEF IInv
    <2> QED BY <2>1 DEF Download, ChallengeSound
  <1>6. ASSUME NEW u \in Token PROVE GrantSound(u)'
    <2>1. GrantSound(u)
      BY DEF IInv
    <2> QED BY <2>1 DEF Download, Present, GrantSound
  <1>7. PromisesKept'
    BY <1>1 DEF Download, PromisesKept, Present
  <1> QED BY <1>2, <1>3, <1>4, <1>5, <1>6, <1>7 DEF IInv

LEMMA FilesChangeKeeps ==
  ASSUME IInv, FilesChange
  PROVE  IInv'
  <1> USE WorkerAssumption
  <1>1. TypeOK /\ OwnSlots /\ PromisesKept
    BY DEF IInv
  <1>2. TypeOK'
    BY <1>1 DEF FilesChange, TypeOK
  <1>3. ASSUME NEW q \in Request PROVE SlotSound(q)'
    <2>1. SlotSound(q)
      BY DEF IInv
    <2> QED BY <2>1 DEF FilesChange, SlotSound
  <1>4. OwnSlots'
    BY <1>1 DEF FilesChange, OwnSlots
  <1>5. ASSUME NEW m \in Nonce PROVE ChallengeSound(m)'
    <2>1. ChallengeSound(m)
      BY DEF IInv
    <2> QED BY <2>1 DEF FilesChange, ChallengeSound
  <1>6. ASSUME NEW u \in Token PROVE GrantSound(u)'
    <2>1. GrantSound(u)
      BY DEF IInv
    <2> QED BY <2>1 DEF FilesChange, GrantSound
  <1>7. PromisesKept'
    BY <1>1 DEF FilesChange, PromisesKept
  <1> QED BY <1>2, <1>3, <1>4, <1>5, <1>6, <1>7 DEF IInv

LEMMA RestartKeeps ==
  ASSUME IInv, Restart
  PROVE  IInv'
  <1> USE WorkerAssumption
  <1>1. TypeOK /\ OwnSlots /\ PromisesKept
    BY DEF IInv
  <1>2. TypeOK'
    BY <1>1 DEF Restart, TypeOK, Idle
  <1>3. ASSUME NEW q \in Request PROVE SlotSound(q)'
    <2>1. SlotSound(q)
      BY DEF IInv
    <2> QED BY DEF Restart, SlotSound, Idle
  <1>4. OwnSlots'
    BY DEF Restart, OwnSlots, Idle
  <1>5. ASSUME NEW m \in Nonce PROVE ChallengeSound(m)'
    <2>1. ChallengeSound(m)
      BY DEF IInv
    <2> QED BY <2>1 DEF Restart, ChallengeSound
  <1>6. ASSUME NEW u \in Token PROVE GrantSound(u)'
    <2>1. GrantSound(u)
      BY DEF IInv
    <2> QED BY <2>1 DEF Restart, GrantSound
  <1>7. PromisesKept'
    BY DEF Restart, IInv, GrantSound, PromisesKept
  <1> QED BY <1>2, <1>3, <1>4, <1>5, <1>6, <1>7 DEF IInv

LEMMA TickKeeps ==
  ASSUME IInv, Tick
  PROVE  IInv'
  <1> USE WorkerAssumption
  <1>1. TypeOK /\ OwnSlots /\ PromisesKept
    BY DEF IInv
  <1>2. TypeOK'
    BY <1>1 DEF Tick, TypeOK
  <1>3. ASSUME NEW q \in Request PROVE SlotSound(q)'
    <2>1. SlotSound(q)
      BY DEF IInv
    <2> QED BY <2>1 DEF Tick, SlotSound
  <1>4. OwnSlots'
    BY <1>1 DEF Tick, OwnSlots
  <1>5. ASSUME NEW m \in Nonce PROVE ChallengeSound(m)'
    <2>1. ChallengeSound(m)
      BY DEF IInv
    <2> QED BY <2>1 DEF Tick, ChallengeSound
  <1>6. ASSUME NEW u \in Token PROVE GrantSound(u)'
    <2>1. GrantSound(u)
      BY DEF IInv
    <2> QED BY <2>1 DEF Tick, GrantSound
  <1>7. PromisesKept'
    BY <1>1 DEF Tick, PromisesKept, TypeOK
  <1> QED BY <1>2, <1>3, <1>4, <1>5, <1>6, <1>7 DEF IInv

LEMMA InitEstablishes == Init => IInv
  BY WorkerAssumption DEF Init, IInv, TypeOK, SlotSound, OwnSlots, ChallengeSound,
     GrantSound, PromisesKept, Idle, Never

LEMMA StepKeeps == IInv /\ [Next]_vars => IInv'
  <1> SUFFICES ASSUME IInv, [Next]_vars PROVE IInv'
    OBVIOUS
  <1>1. CASE UNCHANGED vars
    BY <1>1 DEF vars, IInv, TypeOK, SlotSound, OwnSlots, ChallengeSound, GrantSound,
       PromisesKept, Present
  <1> QED BY <1>1, AskKeeps, IssueKeeps, IssueRefusedKeeps, ProveKeeps, ProveRefusedKeeps,
             GrantKeeps, GrantRefusedKeeps, CancelKeeps, DownloadKeeps,
             FilesChangeKeeps, RestartKeeps, TickKeeps DEF Next

LEMMA Inductive == Spec => []IInv
  BY InitEstablishes, StepKeeps, PTL DEF Spec

\* The maps, the requests and the histories of a worker keep their types.
THEOREM WorkerType == Spec => []TypeOK
  <1>1. IInv => TypeOK
    BY DEF IInv
  <1> QED BY <1>1, Inductive, PTL

\* No pruning, refusal or race makes a worker forget a challenge or a grant
\* before the last second it promised (issue_challenge, grant_download).
THEOREM PromisesAlwaysKept == Spec => []PromisesKept
  <1>1. IInv => PromisesKept
    BY DEF IInv
  <1> QED BY <1>1, Inductive, PTL

-----------------------------------------------------------------------------
(* The handlers implement one-time tickets.                                *)

\* The views in terms of the tables: under the invariant no two cases overlap.
ChallengesSeen ==
    \A n \in Nonce :
        /\ ChallengeView(n) = "unissued" <=> issuedAt[n] = Never
        /\ ChallengeView(n) = "open" <=> challenges[n] # Never /\ now <= challenges[n]
        /\ ChallengeView(n) = "proven" <=> \E r \in Request : req[r].nonce = n
        /\ ChallengeView(n) \in {"unissued", "open", "proven", "closed"}

GrantsSeen ==
    \A t \in Token :
        /\ GrantView(t) = "used" <=> t \in used
        /\ GrantView(t) = "open" <=> downloads[t] # Never /\ now <= downloads[t]
        /\ GrantView(t) = "unissued" <=> promised[t] = Never /\ t \notin lost
        /\ GrantView(t) \in {"unissued", "open", "used", "void"}

LEMMA Views == IInv => ChallengesSeen /\ GrantsSeen
  <1> SUFFICES ASSUME IInv PROVE ChallengesSeen /\ GrantsSeen
    OBVIOUS
  <1>1. ASSUME NEW n \in Nonce, NEW r \in Request, req[r].nonce = n
        PROVE  challenges[n] = Never /\ issuedAt[n] # Never
    <2>1. req[r].phase = "granting"
      BY <1>1, WorkerAssumption DEF IInv, SlotSound
    <2>2. origin[req[r].token] = n /\ req[r].token \in Token
      BY <1>1, <2>1 DEF IInv, SlotSound
    <2> QED BY <2>2 DEF IInv, ChallengeSound
  <1>2. \A n \in Nonce : challenges[n] # Never => issuedAt[n] # Never
    BY DEF IInv, ChallengeSound
  <1>3. \A t \in Token : /\ downloads[t] # Never => promised[t] # Never /\ t \notin used
                         /\ t \in used => promised[t] # Never
    BY DEF IInv, GrantSound
  <1>4. ChallengesSeen
    BY <1>1, <1>2 DEF ChallengesSeen, ChallengeView
  <1>5. GrantsSeen
    BY <1>3 DEF GrantsSeen, GrantView
  <1> QED BY <1>4, <1>5

\* Whatever only closes challenges and voids grants is a lapse.
LEMMA Lapsing ==
  ASSUME \A n \in Nonce : \/ ChallengeView(n)' = ChallengeView(n)
                          \/ /\ ChallengeView(n) \in {"open", "proven"}
                             /\ ChallengeView(n)' = "closed",
         \A t \in Token : \/ GrantView(t)' = GrantView(t)
                          \/ /\ GrantView(t) \in {"unissued", "open"}
                             /\ GrantView(t)' = "void"
  PROVE  T!TicketsNext
  <1> DEFINE N == {n \in Nonce : ChallengeView(n)' # ChallengeView(n)}
             U == {t \in Token : GrantView(t)' # GrantView(t)}
  <1>1. T!Lapse(N, U)
    BY DEF T!Lapse
  <1>2. N \in SUBSET Nonce /\ U \in SUBSET Token
    OBVIOUS
  <1> HIDE DEF N, U
  <1> QED BY <1>1, <1>2 DEF T!TicketsNext

\* The challenges alone take a step, or the grants alone.
LEMMA Singly ==
  ASSUME \A t \in Token : GrantView(t)' = GrantView(t),
         NEW n \in Nonce, \A m \in Nonce \ {n} : ChallengeView(m)' = ChallengeView(m),
         \/ ChallengeView(n) = "unissued" /\ ChallengeView(n)' = "open"
         \/ ChallengeView(n) = "open" /\ ChallengeView(n)' = "proven"
  PROVE  T!TicketsNext
  <1>1. T!Issue(n) \/ T!Prove(n)
    BY DEF T!Issue, T!Prove
  <1> QED BY <1>1 DEF T!TicketsNext

LEMMA Using ==
  ASSUME \A n \in Nonce : ChallengeView(n)' = ChallengeView(n),
         NEW t \in Token, \A u \in Token \ {t} : GrantView(u)' = GrantView(u),
         GrantView(t) = "open" /\ GrantView(t)' = "used"
  PROVE  T!TicketsNext
  <1>1. T!Use(t)
    BY DEF T!Use
  <1> QED BY <1>1 DEF T!TicketsNext

LEMMA Granting ==
  ASSUME NEW n \in Nonce, \A m \in Nonce \ {n} : ChallengeView(m)' = ChallengeView(m),
         NEW t \in Token, \A u \in Token \ {t} : GrantView(u)' = GrantView(u),
         ChallengeView(n) = "proven" /\ ChallengeView(n)' = "closed",
         GrantView(t) = "unissued" /\ GrantView(t)' = "open"
  PROVE  T!TicketsNext
  <1>1. T!Grant(n, t)
    BY DEF T!Grant
  <1> QED BY <1>1 DEF T!TicketsNext

\* The same views, when nothing they show has changed.
LEMMA SameChallenges ==
  ASSUME ChallengesSeen, ChallengesSeen', NEW n \in Nonce,
         issuedAt'[n] = issuedAt[n] \/ (issuedAt[n] # Never /\ issuedAt'[n] # Never),
         challenges'[n] # Never /\ now' <= challenges'[n] <=>
            challenges[n] # Never /\ now <= challenges[n],
         (\E r \in Request : req'[r].nonce = n) <=> (\E r \in Request : req[r].nonce = n)
  PROVE  ChallengeView(n)' = ChallengeView(n)
  BY DEF ChallengesSeen

LEMMA SameGrants ==
  ASSUME GrantsSeen, GrantsSeen', NEW t \in Token,
         t \in used' <=> t \in used,
         downloads'[t] # Never /\ now' <= downloads'[t] <=>
            downloads[t] # Never /\ now <= downloads[t],
         promised'[t] = Never /\ t \notin lost' <=> promised[t] = Never /\ t \notin lost
  PROVE  GrantView(t)' = GrantView(t)
  BY DEF GrantsSeen

\* An entry of a table is pruned only after its last second.
LEMMA PrunedAlike ==
  ASSUME TypeOK
  PROVE  /\ \A n \in Nonce :
                LET c == Retained(challenges)[n]
                IN  c # Never /\ now <= c <=> challenges[n] # Never /\ now <= challenges[n]
         /\ \A t \in Token :
                LET d == Retained(downloads)[t]
                IN  d # Never /\ now <= d <=> downloads[t] # Never /\ now <= downloads[t]
  BY DEF TypeOK, Retained, Never

\* Requests that come and go before they have spent a challenge, refusals, and
\* changed files are not seen.
LEMMA UnseenSteps ==
  ASSUME IInv, ChallengesSeen, GrantsSeen, ChallengesSeen', GrantsSeen',
         (\E r \in Request : Ask(r) \/ IssueRefused(r)) \/ FilesChange
  PROVE  T!TicketsNext
  <1>1. TypeOK
    BY DEF IInv
  <1>2. UNCHANGED <<now, downloads, issuedAt, promised, used, lost>>
    BY DEF Ask, IssueRefused, FilesChange
  <1>3. challenges' \in {challenges, Retained(challenges)}
    BY DEF Ask, IssueRefused, FilesChange
  <1>4. ASSUME NEW q \in Request PROVE req'[q].nonce = req[q].nonce
    <2>1. ASSUME NEW r \in Request, Ask(r) PROVE req'[q].nonce = req[q].nonce
      BY <1>1, <2>1 DEF Ask, TypeOK
    <2>2. ASSUME NEW r \in Request, IssueRefused(r) PROVE req'[q].nonce = req[q].nonce
      BY <1>1, <2>2 DEF IssueRefused, TypeOK, Idle, IInv, SlotSound
    <2> QED BY <2>1, <2>2 DEF FilesChange
  <1>5. \A n \in Nonce : ChallengeView(n)' = ChallengeView(n)
    BY <1>1, <1>2, <1>3, <1>4, PrunedAlike, SameChallenges
  <1>6. \A t \in Token : GrantView(t)' = GrantView(t)
    BY <1>2, SameGrants
  <1> QED BY <1>5, <1>6, Lapsing

LEMMA IssueRefines ==
  ASSUME IInv, ChallengesSeen, GrantsSeen, ChallengesSeen', GrantsSeen',
         NEW r \in Request, NEW n \in Nonce, Issue(r, n)
  PROVE  T!TicketsNext
  <1>1. TypeOK
    BY DEF IInv
  <1>2. UNCHANGED <<now, downloads, promised, used, lost>>
    BY DEF Issue
  <1>3. issuedAt[n] = Never /\ challenges'[n] = now + ChallengeTtl
    BY <1>1, RetainedFacts DEF Issue, FreshNonce, TypeOK
  <1>4. \A m \in Nonce \ {n} : /\ issuedAt'[m] = issuedAt[m]
                               /\ challenges'[m] = Retained(challenges)[m]
    BY <1>1, RetainedFacts DEF Issue, TypeOK
  <1>5. \A q \in Request : req'[q].nonce = req[q].nonce
    BY <1>1 DEF Issue, TypeOK, Idle, IInv, SlotSound
  <1>6. \A m \in Nonce \ {n} : ChallengeView(m)' = ChallengeView(m)
    BY <1>1, <1>2, <1>4, <1>5, PrunedAlike, SameChallenges
  <1>7. ChallengeView(n) = "unissued" /\ ChallengeView(n)' = "open"
    BY <1>1, <1>2, <1>3, WorkerAssumption DEF ChallengesSeen, TypeOK, Never
  <1>8. \A t \in Token : GrantView(t)' = GrantView(t)
    BY <1>2, SameGrants
  <1> QED BY <1>6, <1>7, <1>8, Singly

LEMMA ProveRefines ==
  ASSUME IInv, ChallengesSeen, GrantsSeen, ChallengesSeen', GrantsSeen',
         NEW r \in Request, NEW n \in Nonce, NEW t \in Token, Prove(r, n, t)
  PROVE  T!TicketsNext
  <1>1. TypeOK
    BY DEF IInv
  <1>2. UNCHANGED <<now, downloads, issuedAt, promised, used, lost>>
    BY DEF Prove
  <1>3. challenges[n] # Never /\ now <= challenges[n]
    BY DEF Prove, Present
  <1>4. \A m \in Nonce \ {n} : challenges'[m] = challenges[m]
    BY <1>1 DEF Prove, Taken, TypeOK
  <1>5. req'[r].nonce = n /\ req[r].nonce = None /\ \A q \in Request \ {r} : req'[q] = req[q]
    BY <1>1 DEF Prove, TypeOK, Idle
  <1>6. \A m \in Nonce \ {n} : ChallengeView(m)' = ChallengeView(m)
    BY <1>2, <1>4, <1>5, SameChallenges, WorkerAssumption
  <1>7. ChallengeView(n) = "open" /\ ChallengeView(n)' = "proven"
    BY <1>3, <1>5 DEF ChallengesSeen
  <1>8. \A u \in Token : GrantView(u)' = GrantView(u)
    BY <1>2, SameGrants
  <1> QED BY <1>6, <1>7, <1>8, Singly

LEMMA ProveRefusedRefines ==
  ASSUME IInv, ChallengesSeen, GrantsSeen, ChallengesSeen', GrantsSeen',
         NEW n \in Nonce, ProveRefused(n)
  PROVE  T!TicketsNext
  <1>1. TypeOK
    BY DEF IInv
  <1>2. UNCHANGED <<now, downloads, req, issuedAt, promised, used>>
    BY DEF ProveRefused
  <1>3. challenges[n] # Never /\ challenges'[n] = Never
            /\ \A m \in Nonce \ {n} : challenges'[m] = challenges[m]
    BY <1>1 DEF ProveRefused, Taken, Present, TypeOK
  <1>4. \A m \in Nonce \ {n} : ChallengeView(m)' = ChallengeView(m)
    BY <1>2, <1>3, SameChallenges
  <1>5. \/ ChallengeView(n)' = ChallengeView(n)
        \/ ChallengeView(n) = "open" /\ ChallengeView(n)' = "closed"
    <2>1. CASE now <= challenges[n]
      <3>1. ChallengeView(n) = "open"
        BY <1>3, <2>1 DEF ChallengesSeen
      <3>2. issuedAt[n] # Never /\ ~\E r \in Request : req[r].nonce = n
        BY <3>1 DEF ChallengesSeen
      <3>3. ChallengeView(n)' \notin {"unissued", "open", "proven"}
        BY <1>2, <1>3, <3>2 DEF ChallengesSeen
      <3> QED BY <3>1, <3>3 DEF ChallengesSeen
    <2>2. CASE ~(now <= challenges[n])
      <3>1. issuedAt'[n] = issuedAt[n] /\ req' = req /\ now' = now
        BY <1>2
      <3>2. ~(challenges'[n] # Never /\ now' <= challenges'[n])
        BY <1>3
      <3>3. ~(challenges[n] # Never /\ now <= challenges[n])
        BY <2>2
      <3>4. (\E r \in Request : req'[r].nonce = n) <=> (\E r \in Request : req[r].nonce = n)
        BY <3>1
      <3>5. ChallengeView(n)' = ChallengeView(n)
        BY <3>1, <3>2, <3>3, <3>4, SameChallenges
      <3> QED BY <3>5
    <2> QED BY <2>1, <2>2
  <1>6. \A t \in Token : t \in lost' <=> t \in lost
    BY WorkerAssumption DEF ProveRefused
  <1>7. \A t \in Token : GrantView(t)' = GrantView(t)
    BY <1>2, <1>6, SameGrants
  <1> QED BY <1>4, <1>5, <1>7, Lapsing

\* A request that stores its grant, or fails to, gives up nonce and token.
LEMMA Released ==
  ASSUME IInv, ChallengesSeen, ChallengesSeen',
         NEW r \in Request, NEW n \in Nonce, req[r].nonce = n,
         req[r].phase = "granting", req' = [req EXCEPT ![r] = Idle],
         UNCHANGED <<now, challenges, issuedAt>>
  PROVE  /\ ChallengeView(n) = "proven" /\ ChallengeView(n)' = "closed"
         /\ \A m \in Nonce \ {n} : ChallengeView(m)' = ChallengeView(m)
  <1>1. TypeOK
    BY DEF IInv
  <1>2. req'[r].nonce = None /\ \A q \in Request \ {r} : req'[q] = req[q]
    BY <1>1 DEF TypeOK, Idle
  <1>3. ChallengeView(n) = "proven"
    BY <1>1 DEF ChallengesSeen
  <1>4. issuedAt[n] # Never /\ ~(challenges[n] # Never /\ now <= challenges[n])
    BY <1>1, <1>3 DEF ChallengesSeen
  <1>5. ~ \E q \in Request : req'[q].nonce = n
    BY <1>1, <1>2, WorkerAssumption DEF IInv, OwnSlots, SlotSound
  <1>6. ChallengeView(n)' \notin {"unissued", "open", "proven"}
    BY <1>4, <1>5 DEF ChallengesSeen
  <1>7. \A m \in Nonce \ {n} : ChallengeView(m)' = ChallengeView(m)
    BY <1>1, <1>2, SameChallenges, WorkerAssumption
  <1> QED BY <1>3, <1>6, <1>7 DEF ChallengesSeen

LEMMA GrantRefines ==
  ASSUME IInv, ChallengesSeen, GrantsSeen, ChallengesSeen', GrantsSeen',
         NEW r \in Request, Grant(r)
  PROVE  T!TicketsNext
  <1>1. TypeOK
    BY DEF IInv
  <1>2. PICK n \in Nonce, t \in Token :
            /\ n = req[r].nonce /\ t = req[r].token
            /\ req[r].expires \in Nat /\ promised[t] = Never /\ t \notin used \cup lost
    BY DEF Grant, IInv, SlotSound
  <1>3. UNCHANGED <<now, challenges, issuedAt, used, lost>>
            /\ req[r].phase = "granting" /\ req' = [req EXCEPT ![r] = Idle]
    BY DEF Grant
  <1>4. /\ downloads'[t] = req[r].expires /\ promised'[t] = req[r].expires
        /\ \A u \in Token \ {t} : /\ downloads'[u] = Retained(downloads)[u]
                                  /\ promised'[u] = promised[u]
    BY <1>1, <1>2, RetainedFacts DEF Grant, TypeOK
  <1>5. \A u \in Token \ {t} : GrantView(u)' = GrantView(u)
    BY <1>1, <1>3, <1>4, PrunedAlike, SameGrants
  <1>6. GrantView(t) = "unissued"
    BY <1>2 DEF GrantsSeen
  <1>7. GrantView(t)' \in {"open", "void"}
    BY <1>2, <1>3, <1>4 DEF GrantsSeen, Never
  <1>8. CASE GrantView(t)' = "open"
    BY <1>2, <1>3, <1>5, <1>6, <1>8, Released, Granting
  <1>9. CASE GrantView(t)' = "void"
    BY <1>2, <1>3, <1>5, <1>6, <1>9, Released, Lapsing
  <1> QED BY <1>7, <1>8, <1>9

LEMMA AbandonRefines ==
  ASSUME IInv, ChallengesSeen, GrantsSeen, ChallengesSeen', GrantsSeen',
         NEW r \in Request, GrantRefused(r) \/ Cancel(r)
  PROVE  T!TicketsNext
  <1>1. TypeOK
    BY DEF IInv
  <1>2. /\ UNCHANGED <<now, challenges, issuedAt, promised, used>>
        /\ req' = [req EXCEPT ![r] = Idle]
        /\ lost' = lost \cup ({req[r].token} \ {None})
        /\ downloads' \in {downloads, Retained(downloads)}
    BY WorkerAssumption DEF GrantRefused, Cancel, IInv, SlotSound
  <1>3. \A u \in Token : u # req[r].token => GrantView(u)' = GrantView(u)
    BY <1>1, <1>2, PrunedAlike, SameGrants
  <1>4. CASE req[r].phase = "granting"
    <2>1. PICK n \in Nonce, t \in Token :
            /\ n = req[r].nonce /\ t = req[r].token
            /\ promised[t] = Never /\ t \notin lost \cup used
      BY <1>4 DEF IInv, SlotSound
    <2>2. t \in lost'
      BY <1>2, <2>1, WorkerAssumption
    <2>3. downloads'[t] = Never
      <3>1. downloads[t] = Never
        BY <2>1 DEF IInv, GrantSound
      <3> QED BY <1>1, <1>2, <2>1, <3>1, RetainedFacts
    <2>4. GrantView(t) = "unissued" /\ GrantView(t)' = "void"
      BY <1>2, <2>1, <2>2, <2>3 DEF GrantsSeen
    <2>5. /\ ChallengeView(n) = "proven" /\ ChallengeView(n)' = "closed"
          /\ \A m \in Nonce \ {n} : ChallengeView(m)' = ChallengeView(m)
      BY <1>2, <1>4, <2>1, Released
    <2>6. \A u \in Token \ {t} : GrantView(u)' = GrantView(u)
      BY <1>3, <2>1
    <2> QED BY <2>4, <2>5, <2>6, Lapsing
  <1>5. CASE req[r].phase # "granting"
    <2>1. req[r].nonce = None /\ req[r].token = None
      BY <1>5 DEF IInv, SlotSound
    <2>2. \A q \in Request : req'[q].nonce = req[q].nonce
      BY <1>1, <1>2, <2>1 DEF TypeOK, Idle
    <2>3. \A n \in Nonce : ChallengeView(n)' = ChallengeView(n)
      BY <1>2, <2>2, SameChallenges
    <2>4. \A u \in Token : GrantView(u)' = GrantView(u)
      BY <1>3, <2>1, WorkerAssumption
    <2> QED BY <2>3, <2>4, Lapsing
  <1> QED BY <1>4, <1>5

LEMMA DownloadRefines ==
  ASSUME IInv, ChallengesSeen, GrantsSeen, ChallengesSeen', GrantsSeen',
         NEW t \in Token, Download(t)
  PROVE  T!TicketsNext
  <1>1. TypeOK
    BY DEF IInv
  <1>2. UNCHANGED <<now, challenges, req, issuedAt, promised>>
    BY DEF Download
  <1>3. /\ downloads[t] # Never /\ downloads'[t] = Never
        /\ \A u \in Token \ {t} : /\ downloads'[u] = downloads[u]
                                  /\ u \in used' <=> u \in used
                                  /\ u \in lost' <=> u \in lost
    BY <1>1 DEF Download, Present, TypeOK
  <1>4. promised[t] # Never /\ t \notin used
    BY <1>3 DEF IInv, GrantSound
  <1>5. \A n \in Nonce : ChallengeView(n)' = ChallengeView(n)
    BY <1>2, SameChallenges
  <1>6. \A u \in Token \ {t} : GrantView(u)' = GrantView(u)
    BY <1>2, <1>3, SameGrants
  <1>7. CASE t \in used'
    <2>1. now <= downloads[t]
      BY <1>4, <1>7 DEF Download
    <2>2. GrantView(t) = "open" /\ GrantView(t)' = "used"
      BY <1>3, <1>7, <2>1 DEF GrantsSeen
    <2> QED BY <1>5, <1>6, <2>2, Using
  <1>8. CASE t \notin used'
    <2>1. GrantView(t) \in {"open", "void"}
      BY <1>4 DEF GrantsSeen
    <2>2. GrantView(t)' = "void"
      BY <1>2, <1>3, <1>4, <1>8 DEF GrantsSeen
    <2> QED BY <1>5, <1>6, <2>1, <2>2, Lapsing
  <1> QED BY <1>7, <1>8

\* A restart forgets every challenge, grant and request that was open.
LEMMA RestartRefines ==
  ASSUME IInv, ChallengesSeen, GrantsSeen, ChallengesSeen', GrantsSeen', Restart
  PROVE  T!TicketsNext
  <1>1. UNCHANGED <<issuedAt, promised, used>>
    BY DEF Restart
  <1>2. /\ \A n \in Nonce : challenges'[n] = Never
        /\ \A t \in Token : downloads'[t] = Never
        /\ \A r \in Request : req'[r].nonce = None
    BY DEF Restart, Idle
  <1>3. ASSUME NEW n \in Nonce
        PROVE  \/ ChallengeView(n)' = ChallengeView(n)
               \/ /\ ChallengeView(n) \in {"open", "proven"}
                  /\ ChallengeView(n)' = "closed"
    <2>1. ChallengeView(n)' \notin {"open", "proven"}
      BY <1>2, WorkerAssumption DEF ChallengesSeen
    <2>2. ChallengeView(n)' = "unissued" <=> ChallengeView(n) = "unissued"
      BY <1>1 DEF ChallengesSeen
    <2> QED BY <2>1, <2>2 DEF ChallengesSeen
  <1>4. ASSUME NEW t \in Token
        PROVE  \/ GrantView(t)' = GrantView(t)
               \/ /\ GrantView(t) \in {"unissued", "open"}
                  /\ GrantView(t)' = "void"
    <2>1. GrantView(t)' # "open"
      BY <1>2 DEF GrantsSeen
    <2>2. GrantView(t)' = "used" <=> GrantView(t) = "used"
      BY <1>1 DEF GrantsSeen
    <2>3. GrantView(t)' = "unissued" => GrantView(t) = "unissued"
      BY <1>1 DEF GrantsSeen, Restart
    <2> QED BY <2>1, <2>2, <2>3 DEF GrantsSeen
  <1> QED BY <1>3, <1>4, Lapsing

LEMMA TickRefines ==
  ASSUME IInv, ChallengesSeen, GrantsSeen, ChallengesSeen', GrantsSeen', Tick
  PROVE  T!TicketsNext
  <1>1. /\ UNCHANGED <<challenges, downloads, req, issuedAt, promised, used, lost>>
        /\ now' = now + 1
    BY DEF Tick
  <1>2. TypeOK
    BY DEF IInv
  <1>3. ASSUME NEW n \in Nonce
        PROVE  \/ ChallengeView(n)' = ChallengeView(n)
               \/ /\ ChallengeView(n) \in {"open", "proven"}
                  /\ ChallengeView(n)' = "closed"
    <2>1. ChallengeView(n)' = "open" => ChallengeView(n) = "open"
      BY <1>1, <1>2 DEF ChallengesSeen, TypeOK, Never
    <2>2. /\ ChallengeView(n)' = "unissued" <=> ChallengeView(n) = "unissued"
          /\ ChallengeView(n)' = "proven" <=> ChallengeView(n) = "proven"
      BY <1>1 DEF ChallengesSeen
    <2> QED BY <2>1, <2>2 DEF ChallengesSeen
  <1>4. ASSUME NEW t \in Token
        PROVE  \/ GrantView(t)' = GrantView(t)
               \/ /\ GrantView(t) \in {"unissued", "open"}
                  /\ GrantView(t)' = "void"
    <2>1. GrantView(t)' = "open" => GrantView(t) = "open"
      BY <1>1, <1>2 DEF GrantsSeen, TypeOK, Never
    <2>2. /\ GrantView(t)' = "used" <=> GrantView(t) = "used"
          /\ GrantView(t)' = "unissued" <=> GrantView(t) = "unissued"
      BY <1>1 DEF GrantsSeen
    <2> QED BY <2>1, <2>2 DEF GrantsSeen
  <1> QED BY <1>3, <1>4, Lapsing

LEMMA InitRefines == Init => T!TicketsInit
  <1> SUFFICES ASSUME Init PROVE T!TicketsInit
    OBVIOUS
  <1>1. \A n \in Nonce : ChallengeView(n) = "unissued"
    BY WorkerAssumption DEF Init, ChallengeView, Never, Idle
  <1>2. \A t \in Token : GrantView(t) = "unissued"
    BY DEF Init, GrantView
  <1> QED BY <1>1, <1>2 DEF T!TicketsInit

LEMMA Refines ==
  ASSUME IInv, IInv', [Next]_vars
  PROVE  [T!TicketsNext]_(T!ticketVars)
  <1>1. ChallengesSeen /\ GrantsSeen
    BY Views
  <1>2. ChallengesSeen' /\ GrantsSeen'
    BY Views, PTL
  <1>3. CASE UNCHANGED vars
    <2>1. (\A n \in Nonce : ChallengeView(n)' = ChallengeView(n))
            /\ \A t \in Token : GrantView(t)' = GrantView(t)
      BY <1>3 DEF vars, ChallengeView, GrantView
    <2> QED BY <2>1 DEF T!ticketVars
  <1>4. CASE Next
    BY <1>1, <1>2, <1>4, UnseenSteps, IssueRefines, ProveRefines, ProveRefusedRefines,
       GrantRefines, AbandonRefines, DownloadRefines, RestartRefines, TickRefines
       DEF Next
  <1> QED BY <1>3, <1>4

\* issue_challenge, prove_challenge, grant_download and download implement
\* one-time tickets: each challenge is answered at most once, each accepted
\* answer yields at most one grant, and each grant is used at most once, for
\* any number of concurrent requests, nonces and tokens.
THEOREM TicketsImplemented == Spec => OneTimeTickets
  BY Inductive, InitRefines, Refines, PTL DEF Spec, OneTimeTickets, T!TicketsSpec
=============================================================================
