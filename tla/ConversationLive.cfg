\* The sizes of the code, a person who stays, and a GPT service that may be
\* missing or fail at any call: every conversation ends well.
SPECIFICATION FairSpec
CONSTANTS
    NumQuestions = 10
    NumFollowups = 3
    MaxHistory = 50
    GptFaults = {"noSession", "failed"}
    PeerFaults = {}
    UserRatings = {1, 7}
INVARIANTS
    PromptQuotesLastAnswer
    NoMutualWait
PROPERTIES
    ConversationEnds
