\* Every questionnaire over three ratings with which both thresholds are met,
\* and before every answer replies the server rejects.
SPECIFICATION Spec
CONSTANTS
    NumQuestions = 10
    PersonReplies = {0, 1, 4, 6, 8}
INVARIANTS
    TypeOK
    MirrorImage
    SameAnswersAreNeutral
    ExtroversionIsMonotone
    MirrorTone
\* A questionnaire ends with its last answer.
CHECK_DEADLOCK FALSE
