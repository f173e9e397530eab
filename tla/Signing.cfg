\* Two runs, one of them with a second ABI split, for two output paths.
SPECIFICATION Spec
CONSTANTS
    Run = {r1, r2}
    Target = {t1, t2}
    Universal = {r2}
    Signer = {k1, k2}
    None = None
    Partial = Partial
    MaxFaults = 2
INVARIANTS PublishedIsValid PublishedIsVerified SuccessIsOwn OnlyCrashesLitter OneSigner RefusedOnlyUnborn
PROPERTIES RunsEnd
