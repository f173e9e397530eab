\* Three challenges and grants for tables of two and one, in six seconds.
SPECIFICATION Spec
CONSTANTS
    Nonce = {n1, n2, n3}
    Token = {t1, t2}
    None = None
    Request = {r1, r2}
    ChallengeTtl = 1
    GrantTtl = 2
    MaxChallenges = 2
    MaxDownloads = 1
    MaxTime = 5
SYMMETRY Symmetry
INVARIANTS PromisesKept
PROPERTIES OneTimeTickets
