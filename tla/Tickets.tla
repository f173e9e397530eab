------------------------------- MODULE Tickets -------------------------------
(***************************************************************************)
(* What the prepared-package service promises, without clocks, locks or    *)
(* requests: a possession challenge is answered at most once, an accepted  *)
(* answer yields at most one download grant, and a grant is used at most   *)
(* once.                                                                   *)
(***************************************************************************)
CONSTANTS Nonce, Token

VARIABLES
    challenge,  \* challenge[n]: the state of the challenge with nonce n
    grant       \* grant[t]: the state of the grant with token t

ticketVars == <<challenge, grant>>

TicketsInit ==
    /\ challenge = [n \in Nonce |-> "unissued"]
    /\ grant = [t \in Token |-> "unissued"]

Issue(n) ==
    /\ challenge[n] = "unissued"
    /\ challenge' = [challenge EXCEPT ![n] = "open"]
    /\ UNCHANGED grant

\* An answer is accepted; it is owed one grant.
Prove(n) ==
    /\ challenge[n] = "open"
    /\ challenge' = [challenge EXCEPT ![n] = "proven"]
    /\ UNCHANGED grant

Grant(n, t) ==
    /\ challenge[n] = "proven"
    /\ challenge' = [challenge EXCEPT ![n] = "closed"]
    /\ grant[t] = "unissued"
    /\ grant' = [grant EXCEPT ![t] = "open"]

Use(t) ==
    /\ grant[t] = "open"
    /\ grant' = [grant EXCEPT ![t] = "used"]
    /\ UNCHANGED challenge

\* Challenges and grants come to nothing: they expire, are refused, or are
\* lost with the request or the process that holds them.
Lapse(N, T) ==
    /\ \A n \in N : challenge[n] \in {"open", "proven"}
    /\ \A t \in T : grant[t] \in {"unissued", "open"}
    /\ challenge' = [n \in Nonce |-> IF n \in N THEN "closed" ELSE challenge[n]]
    /\ grant' = [t \in Token |-> IF t \in T THEN "void" ELSE grant[t]]

TicketsNext ==
    \/ \E n \in Nonce : Issue(n) \/ Prove(n)
    \/ \E n \in Nonce, t \in Token : Grant(n, t)
    \/ \E t \in Token : Use(t)
    \/ \E N \in SUBSET Nonce, T \in SUBSET Token : Lapse(N, T)

TicketsSpec == TicketsInit /\ [][TicketsNext]_ticketVars
=============================================================================
