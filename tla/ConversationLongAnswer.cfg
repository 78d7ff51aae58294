\* A person whose spoken answers may exceed one read.
SPECIFICATION Spec
CONSTANTS
    NumQuestions = 2
    NumFollowups = 2
    MaxHistory = 11
    GptFaults = {}
    PeerFaults = {"longAnswer"}
    UserRatings = {1, 7}
INVARIANT FollowupAnswersMatch
