SPECIFICATION FairSpec
CONSTANTS
    f1 = f1
    b1 = b1
    None = None
    ForkIds = {f1}
    OtherIds = {b1}
    ForkName <- Plain
    Fingerprint = {f1}
    Tokens = {1}
    Statuses = {"completed"}
    Readers = {1, 2}
    MaxLines = 3
    MaxTime = 1
INVARIANTS
    TranscriptInv
    NothingSkipped
    OwnForksRecognised
PROPERTIES
    FirstEndWins
    LinesAreRead
CHECK_DEADLOCK FALSE
