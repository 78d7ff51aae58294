\* One line longer than the server's read, and short ones.
SPECIFICATION Spec
CONSTANTS
    NumQuestions = 2
    NumFollowups = 1
    MaxHistory = 9
    GptFaults = {}
    PeerLines = {"high"}
    PeerParts = {"low"}
    MaxPieces = 3
    MaxQueued = 2
INVARIANT OneAnswerPerLine
CHECK_DEADLOCK FALSE
