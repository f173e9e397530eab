--------------------------- MODULE PrebuiltWorker ---------------------------
(***************************************************************************)
(* A worker that distributes the operator's prepared package: the handlers *)
(* issue_challenge, prove_challenge, grant_download and download of        *)
(* patcher-web/src/main.rs, with ChallengeState of challenge.rs.           *)
(*                                                                         *)
(* A handler runs without interruption from one await of a mutex to the    *)
(* next; what it read before the await may be stale after it, and the      *)
(* request may be dropped there.  Nonces and tokens are random and never   *)
(* drawn twice.                                                            *)
(***************************************************************************)
EXTENDS Integers, FiniteSets

CONSTANTS
    Nonce,          \* nonces a worker may draw
    Token,          \* download tokens it may draw
    None,           \* no nonce and no token
    Request,        \* slots for concurrent requests
    ChallengeTtl,   \* the 180 seconds of a challenge
    GrantTtl,       \* the 600 seconds of a grant
    MaxChallenges,  \* 128
    MaxDownloads,   \* 256
    MaxTime         \* bound: the last second

ASSUME WorkerAssumption ==
    /\ None \notin Nonce \cup Token /\ Nonce \cap Token = {}
    /\ IsFiniteSet(Nonce) /\ IsFiniteSet(Token)
    /\ ChallengeTtl \in Nat
    /\ GrantTtl \in Nat
    /\ MaxChallenges \in Nat
    /\ MaxDownloads \in Nat
    /\ MaxTime \in Nat

Never == -1

VARIABLES
    now,         \* unix_now()
    challenges,  \* AppState::challenges: expires_at by nonce, Never if absent
    downloads,   \* AppState::downloads: expires_at by token, Never if absent
    req,         \* req[r]: where the request in slot r is
    intact,      \* source and output are as prepare_operator_source saw them
    issuedAt,    \* history: when nonce n was issued, Never if it was not
    promised,    \* history: expires_at that the client of token t was told
    origin,      \* history: the nonce behind token t
    used,        \* history: tokens whose download was started
    lost         \* history: nonces and tokens that came to nothing

vars == <<now, challenges, downloads, req, intact, issuedAt, promised, origin,
          used, lost>>

Idle == [phase |-> "idle", nonce |-> None, token |-> None, expires |-> Never]

\* Mutant: entries are pruned in their last second.
RetainedStrictly(map) == [k \in DOMAIN map |-> IF map[k] > now THEN map[k] ELSE Never]

\* BTreeMap::retain with expires_at >= unix_now().
Retained(map) == [k \in DOMAIN map |-> IF map[k] >= now THEN map[k] ELSE Never]

Present(map) == {k \in DOMAIN map : map[k] # Never}

\* Random values not drawn so far.
FreshNonce == {n \in Nonce : issuedAt[n] = Never}
FreshToken == {t \in Token : origin[t] = None}

-----------------------------------------------------------------------------
Init ==
    /\ now = 0
    /\ challenges = [n \in Nonce |-> Never]
    /\ downloads = [t \in Token |-> Never]
    /\ req = [r \in Request |-> Idle]
    /\ intact = TRUE
    /\ issuedAt = [n \in Nonce |-> Never]
    /\ promised = [t \in Token |-> Never]
    /\ origin = [t \in Token |-> None]
    /\ used = {}
    /\ lost = {}

\* issue_challenge up to its await: the source hash is the supported one and
\* verify_prepared_metadata finds the files as they were.
Ask(r) ==
    /\ req[r] = Idle
    /\ intact
    /\ req' = [req EXCEPT ![r].phase = "asking"]
    /\ UNCHANGED <<now, challenges, downloads, intact, issuedAt, promised, origin, used, lost>>

\* issue_challenge under the lock.
Issue(r, n) ==
    /\ req[r].phase = "asking"
    /\ Cardinality(Present(Retained(challenges))) < MaxChallenges
    /\ n \in FreshNonce
    /\ challenges' = [Retained(challenges) EXCEPT ![n] = now + ChallengeTtl]
    /\ issuedAt' = [issuedAt EXCEPT ![n] = now]
    /\ req' = [req EXCEPT ![r] = Idle]
    /\ UNCHANGED <<now, downloads, intact, promised, origin, used, lost>>

\* 429, or ChallengeState::issue cannot read the source (500).
IssueRefused(r) ==
    /\ req[r].phase = "asking"
    /\ \/ Cardinality(Present(Retained(challenges))) >= MaxChallenges
       \/ ~intact
    /\ challenges' = Retained(challenges)
    /\ req' = [req EXCEPT ![r] = Idle]
    /\ UNCHANGED <<now, downloads, intact, issuedAt, promised, origin, used, lost>>

Taken(n) == [challenges EXCEPT ![n] = Never]

\* Mutant: the challenge is looked up, not removed.
ProveAgain(r, n, t) ==
    /\ req[r] = Idle
    /\ n \in Present(challenges)
    /\ now <= challenges[n]
    /\ intact
    /\ t \in FreshToken
    /\ challenges' = challenges
    /\ origin' = [origin EXCEPT ![t] = n]
    /\ req' = [req EXCEPT ![r] = [phase |-> "granting", nonce |-> n, token |-> t,
                                  expires |-> now + GrantTtl]]
    /\ UNCHANGED <<now, downloads, intact, issuedAt, promised, used, lost>>

\* prove_challenge with a correct answer in time: the challenge is removed
\* before anything is looked at; grant_download draws the token and fixes
\* expires_at before it waits for the lock.
Prove(r, n, t) ==
    /\ req[r] = Idle
    /\ n \in Present(challenges)
    /\ now <= challenges[n]
    /\ intact
    /\ t \in FreshToken
    /\ challenges' = Taken(n)
    /\ origin' = [origin EXCEPT ![t] = n]
    /\ req' = [req EXCEPT ![r] = [phase |-> "granting", nonce |-> n, token |-> t,
                                  expires |-> now + GrantTtl]]
    /\ UNCHANGED <<now, downloads, intact, issuedAt, promised, used, lost>>

\* 410, 401 or 503: too late, a wrong answer, or the files have changed; the
\* challenge is gone all the same.
ProveRefused(n) ==
    /\ n \in Present(challenges)
    /\ challenges' = Taken(n)
    /\ lost' = lost \cup {n}
    /\ UNCHANGED <<now, downloads, req, intact, issuedAt, promised, origin, used>>

\* grant_download under the lock.
Grant(r) ==
    LET q == req[r]
    IN  /\ q.phase = "granting"
        /\ Cardinality(Present(Retained(downloads))) < MaxDownloads
        /\ downloads' = [Retained(downloads) EXCEPT ![q.token] = q.expires]
        /\ promised' = [promised EXCEPT ![q.token] = q.expires]
        /\ req' = [req EXCEPT ![r] = Idle]
        /\ UNCHANGED <<now, challenges, intact, issuedAt, origin, used, lost>>

\* 429: the challenge was spent for nothing.
GrantRefused(r) ==
    /\ req[r].phase = "granting"
    /\ Cardinality(Present(Retained(downloads))) >= MaxDownloads
    /\ downloads' = Retained(downloads)
    /\ lost' = lost \cup {req[r].token}
    /\ req' = [req EXCEPT ![r] = Idle]
    /\ UNCHANGED <<now, challenges, intact, issuedAt, promised, origin, used>>

\* The client goes away, or the handler's time is up, while it waits.
Cancel(r) ==
    /\ req[r] # Idle
    /\ lost' = lost \cup ({req[r].token} \ {None})
    /\ req' = [req EXCEPT ![r] = Idle]
    /\ UNCHANGED <<now, challenges, downloads, intact, issuedAt, promised, origin, used>>

\* download: the grant is removed before anything is looked at.
Download(t) ==
    /\ t \in Present(downloads)
    /\ downloads' = [downloads EXCEPT ![t] = Never]
    /\ \/ /\ now <= downloads[t] /\ intact
          /\ used' = used \cup {t}
          /\ UNCHANGED lost
       \/ /\ now > downloads[t] \/ ~intact
          /\ lost' = lost \cup {t}
          /\ UNCHANGED used
    /\ UNCHANGED <<now, challenges, req, intact, issuedAt, promised, origin>>

\* Somebody touches the source or the output package.
FilesChange ==
    /\ intact
    /\ intact' = FALSE
    /\ UNCHANGED <<now, challenges, downloads, req, issuedAt, promised, origin, used, lost>>

\* The worker exits; a new one starts with empty maps and checks the files.
Restart ==
    /\ challenges' = [n \in Nonce |-> Never]
    /\ downloads' = [t \in Token |-> Never]
    /\ req' = [r \in Request |-> Idle]
    /\ intact' = TRUE
    /\ lost' = lost \cup {n \in Nonce : issuedAt[n] # Never}
                    \cup {t \in Token : origin[t] # None}
    /\ UNCHANGED <<now, issuedAt, promised, origin, used>>

Tick ==
    /\ now < MaxTime
    /\ now' = now + 1
    /\ UNCHANGED <<challenges, downloads, req, intact, issuedAt, promised, origin, used, lost>>

Next ==
    \/ \E r \in Request :
         \/ Ask(r)
         \/ \E n \in Nonce : Issue(r, n)
         \/ IssueRefused(r)
         \/ \E n \in Nonce, t \in Token : Prove(r, n, t)
         \/ Grant(r)
         \/ GrantRefused(r)
         \/ Cancel(r)
    \/ \E n \in Nonce : ProveRefused(n)
    \/ \E t \in Token : Download(t)
    \/ FilesChange
    \/ Restart
    \/ Tick

Spec == Init /\ [][Next]_vars

-----------------------------------------------------------------------------
(* Properties.                                                             *)

\* The maps hold instants, and a request that waits for the lock of the
\* downloads carries the token and expiry it will store.
TypeOK ==
    /\ now \in Nat
    /\ challenges \in [Nonce -> Nat \cup {Never}]
    /\ downloads \in [Token -> Nat \cup {Never}]
    /\ req \in [Request -> [phase : {"idle", "asking", "granting"},
                            nonce : Nonce \cup {None}, token : Token \cup {None},
                            expires : Nat \cup {Never}]]
    /\ intact \in BOOLEAN
    /\ issuedAt \in [Nonce -> Nat \cup {Never}]
    /\ promised \in [Token -> Nat \cup {Never}]
    /\ origin \in [Token -> Nonce \cup {None}]
    /\ used \subseteq Token
    /\ lost \subseteq Nonce \cup Token

\* The state of a challenge and of a grant as a client may see it.
ChallengeView(n) ==
    CASE issuedAt[n] = Never                             -> "unissued"
      [] challenges[n] # Never /\ now <= challenges[n]   -> "open"
      [] \E r \in Request : req[r].nonce = n             -> "proven"
      [] OTHER                                           -> "closed"

GrantView(t) ==
    CASE t \in used                                    -> "used"
      [] downloads[t] # Never /\ now <= downloads[t]   -> "open"
      [] promised[t] = Never /\ t \notin lost          -> "unissued"
      [] OTHER                                         -> "void"

T == INSTANCE Tickets WITH
       challenge <- [n \in Nonce |-> ChallengeView(n)],
       grant     <- [t \in Token |-> GrantView(t)]

\* The handlers implement one-time tickets, whatever requests race for the
\* same nonce or token, are dropped while they wait, find the tables full, or
\* come too late.
OneTimeTickets == T!TicketsSpec

\* What a client was promised is kept: pruning for other clients, at either
\* table's limit, never drops a challenge or a grant before the last second
\* that verify and download would still accept.
PromisesKept ==
    /\ \A n \in Nonce :
         issuedAt[n] # Never /\ now <= issuedAt[n] + ChallengeTtl
         /\ n \notin lost /\ (\A t \in Token : origin[t] # n)
            => n \in Present(challenges)
    /\ \A t \in Token :
         promised[t] # Never /\ now <= promised[t] /\ t \notin used \cup lost
            => t \in Present(downloads)
=============================================================================
