\* A person who agrees or disagrees entirely: the tone that follows.
SPECIFICATION Spec
CONSTANTS
    NumQuestions = 10
    PersonReplies = {1, 7}
INVARIANT EmpathyForShyness
CHECK_DEADLOCK FALSE
