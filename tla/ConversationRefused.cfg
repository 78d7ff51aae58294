\* The server may be down when the robot starts, and nobody dials again.
SPECIFICATION FairSpec
CONSTANTS
    NumQuestions = 2
    NumFollowups = 1
    MaxHistory = 9
    GptFaults = {}
    PeerFaults = {"refused"}
    UserRatings = {1, 7}
PROPERTY ConversationEnds
\* A robot that stays unconnected stops.
CHECK_DEADLOCK FALSE
