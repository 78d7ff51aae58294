\* The robot application dies, GPT works.
SPECIFICATION Spec
CONSTANTS
    NumQuestions = 2
    NumFollowups = 1
    MaxHistory = 9
    GptFaults = {}
    PeerFaults = {"crash"}
    UserRatings = {1, 7}
INVARIANT ServerSurvives
