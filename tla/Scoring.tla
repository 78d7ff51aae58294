------------------------------ MODULE Scoring ------------------------------
(***************************************************************************)
(* The arithmetic of the personality assessment: how server/connection.c   *)
(* turns the Likert answers 1..7 into an extroversion score, a style and   *)
(* the tone of the next question.  The averages are doubles in the code,   *)
(* compared with 3.0 and 5.0.  An average of k integers compared with an   *)
(* integer is the sum compared with k times that integer, so the model     *)
(* stays in the integers.                                                  *)
(***************************************************************************)
EXTENDS Integers

CONSTANT NumQuestions      \* totalQuestions, 10 in the code

ASSUME NumQuestionsAssumption == NumQuestions \in 1 .. 10

Questions == 0 .. NumQuestions - 1
Ratings   == 1 .. 7
Unanswered == 0            \* the initial value of responses[i]

\* Items worded the introverted way: the code's test on the index.
ReverseCodedOneBased(i) == i \in {2, 4, 6, 8, 10}   \* mutant: question numbers as indices
ReverseCodedNever(i) == FALSE                       \* mutant: no reversal
ReverseCoded(i) == i \in {1, 3, 5, 7, 9}

Scored(responses, i) ==
    IF ReverseCoded(i) THEN 8 - responses[i] ELSE responses[i]

\* The loop over the first n questions: the sum after k of them.
Score(responses, n) ==
    LET sum[k \in 0 .. n] == IF k = 0 THEN 0 ELSE sum[k - 1] + Scored(responses, k - 1)
    IN  sum[n]

Styles == {"riservato", "neutro", "aperto"}

\* The style of a whole questionnaire: extroversion is Score / NumQuestions.
StyleOfClosedReserve(responses) ==   \* mutant: <= for <
    LET score == Score(responses, NumQuestions)
    IN  IF score <= 3 * NumQuestions THEN "riservato"
        ELSE IF score < 5 * NumQuestions THEN "neutro"
        ELSE "aperto"
StyleOf(responses) ==
    LET score == Score(responses, NumQuestions)
    IN  IF score < 3 * NumQuestions THEN "riservato"
        ELSE IF score < 5 * NumQuestions THEN "neutro"
        ELSE "aperto"

BehaviorStyleShyMiddle(responses, questionIndex, value) ==  \* mutant: 4 counts as low
    LET score == Score(responses, questionIndex)
    IN  IF questionIndex = 0 THEN "neutrale"
        ELSE IF score < 3 * questionIndex
             THEN IF value <= 4 THEN "empatico" ELSE "curioso"
        ELSE IF score >= 5 * questionIndex
             THEN IF value >= 5 THEN "entusiasta" ELSE "empatico"
        ELSE <<"curioso", "empatico", "neutrale">>[(questionIndex % 3) + 1]
\* determine_behavior_style: the tone asked of GPT for question questionIndex,
\* from the partial average over the answers so far and the last raw reply.
BehaviorStyle(responses, questionIndex, value) ==
    LET score == Score(responses, questionIndex)
    IN  IF questionIndex = 0 THEN "neutrale"
        ELSE IF score < 3 * questionIndex
             THEN IF value <= 3 THEN "empatico" ELSE "curioso"
        ELSE IF score >= 5 * questionIndex
             THEN IF value >= 5 THEN "entusiasta" ELSE "empatico"
        ELSE <<"curioso", "empatico", "neutrale">>[(questionIndex % 3) + 1]
=============================================================================
