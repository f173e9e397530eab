\* File offsets below 8, note sizes below 64, archives of three entries, outputs of four splits.
SPECIFICATION Spec
CONSTANTS
    Wide = 8
    Usize = 64
    MinEntry = 2
    MaxPrograms = 2
    NoteHeader = 12
    MaxNote = 40
    Expected = {"base", "native"}
    ApkFile = {"base", "native", "stray"}
    MaxEntries = 3
    MaxEntryBytes = 3
    MaxExpandedBytes = 7
    Dexes = 6
    SplitName = {"game", "assets", "arm64", "armv7", "en", "other"}
    Config = {"arm64", "armv7", "en"}
    Abi = "arm64"
    BaseCode = 2
    MaxRevision = 5
    NoIp = NoIp
    Inputs <- MCInputs
INVARIANTS ElfReadsInside BuildIdFound UnpacksAsVerified
    InjectionKeepsCode OneBase UpdatesInstall OnlyProxiesSpeak SameVisitor RoutedToIssuer WaitSuffices
CHECK_DEADLOCK FALSE
