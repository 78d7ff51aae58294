\* GPT may fail at any call; a patient person and a robot that stays.
SPECIFICATION Spec
CONSTANTS
    NumQuestions = 2
    NumFollowups = 1
    MaxHistory = 9
    GptFaults = {"failed"}
    PeerFaults = {}
    UserRatings = {1, 7}
INVARIANT ClosingQuotesTheUser
