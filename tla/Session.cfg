SPECIFICATION FairSpec
CONSTANTS
    NumQuestions = 2
    NumFollowups = 1
    MaxHistory = 9
    GptFaults = {"noSession", "failed", "nullContent"}
    PeerLines = {"high", "ready", "junk"}
    PeerParts = {"low", "junk"}
    MaxPieces = 5
    MaxQueued = 2
INVARIANTS
    TypeOK
    IInv
    RecordedWereSent
    TranscriptInOrder
    ResultIsComplete
    FollowUpIsConfirmed
    HistoryPerRead
PROPERTIES
    ThreadEnds
\* The client may stop for good while the server waits for its next line.
CHECK_DEADLOCK FALSE
