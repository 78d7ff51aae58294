\* GPT may answer without a content; nothing else goes wrong.
SPECIFICATION Spec
CONSTANTS
    NumQuestions = 2
    NumFollowups = 1
    MaxHistory = 9
    GptFaults = {"nullContent"}
    PeerFaults = {}
    UserRatings = {1, 7}
INVARIANT ServerSurvives
