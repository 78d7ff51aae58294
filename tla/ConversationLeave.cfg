\* The person walks away during a question and comes back.
SPECIFICATION Spec
CONSTANTS
    NumQuestions = 2
    NumFollowups = 1
    MaxHistory = 9
    GptFaults = {}
    PeerFaults = {"leave"}
    UserRatings = {1, 7}
INVARIANT NoMutualWait
