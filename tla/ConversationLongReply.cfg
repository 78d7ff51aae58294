\* GPT words a question that does not fit the message buffer.
SPECIFICATION Spec
CONSTANTS
    NumQuestions = 2
    NumFollowups = 1
    MaxHistory = 9
    GptFaults = {"longReply"}
    PeerFaults = {}
    UserRatings = {1, 7}
INVARIANT NoMutualWait
