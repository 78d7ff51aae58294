\* Every reply of up to six bytes and a buffer for five and the zero: replies
\* that fit, replies that are cut at any byte, and escapes at the very end.
SPECIFICATION Spec
CONSTANTS
    OutputSize = 6
    MaxInput = 6
INVARIANTS
    TypeOK
    FitsBuffer
    WellFormed
    TextSurvives
\* The function returns.
CHECK_DEADLOCK FALSE
