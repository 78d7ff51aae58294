\* The sizes of the code, and a client that answers with junk only.
SPECIFICATION Spec
CONSTANTS
    NumQuestions = 10
    NumFollowups = 3
    MaxHistory = 50
    GptFaults = {}
    PeerLines = {"junk"}
    PeerParts = {}
    MaxPieces = 25
    MaxQueued = 1
INVARIANT HistoryFits
CHECK_DEADLOCK FALSE
