\* A rating, then a reply that is none: what the next prompt quotes.
SPECIFICATION Spec
CONSTANTS
    NumQuestions = 2
    NumFollowups = 1
    MaxHistory = 9
    GptFaults = {}
    PeerLines = {"high", "junk"}
    PeerParts = {}
    MaxPieces = 3
    MaxQueued = 1
INVARIANT PromptQuotesAcceptedAnswer
CHECK_DEADLOCK FALSE
