\* Every fault of the environment and of GPT, four questions, three follow-ups:
\* what stays true however the conversation is disturbed.
SPECIFICATION FairSpec
CONSTANTS
    NumQuestions = 4
    NumFollowups = 3
    MaxHistory = 17
    GptFaults = {"noSession", "noHandle", "failed", "longReply", "nullContent"}
    PeerFaults = {"leave", "crash", "longAnswer", "refused"}
    UserRatings = {1, 7}
INVARIANTS
    TypeOK
    IInv
    AnswersAreTheUsers
    ProfileIsTheUsers
    GoodbyeFitsPersonality
    HistoryFits
PROPERTIES
    ThreadEnds
    ImplementsInterview
