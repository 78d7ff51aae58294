--------------------------- MODULE Questionnaire ---------------------------
(***************************************************************************)
(* The question loop of handleClient (server/connection.c) without its     *)
(* reads and sends: replies are accepted or rejected one by one, the tone  *)
(* of each question is chosen from the average so far and the last reply,  *)
(* and at the end the style from all the answers.                          *)
(***************************************************************************)
EXTENDS Scoring

CONSTANT PersonReplies   \* what atoi makes of the replies of this instance

ASSUME PersonAssumption == PersonReplies \subseteq Int

VARIABLES answers, questionIndex,
          buffer,          \* what atoi makes of the last reply, accepted or not
          tone             \* behavior_style of the question being asked

vars == <<answers, questionIndex, buffer, tone>>

Init ==
    /\ answers = [i \in Questions |-> Unanswered]
    /\ questionIndex = 0
    /\ buffer = 0
    /\ tone = BehaviorStyle(answers, 0, 0)

AcceptShifted(value) ==   \* mutant: the index is moved before its use
    /\ value \in Ratings
    /\ questionIndex' = questionIndex + 1
    /\ answers' = [answers EXCEPT ![questionIndex'] = value]
Accept(value) ==
    /\ value \in Ratings
    /\ answers' = [answers EXCEPT ![questionIndex] = value]
    /\ questionIndex' = questionIndex + 1

Reject(value) == value \notin Ratings /\ UNCHANGED <<answers, questionIndex>>

\* One turn of the loop, from its read to the tone of the question asked next:
\* the next one, or after a rejected reply the same one again.
Reply(value) ==
    /\ questionIndex < NumQuestions
    /\ Accept(value) \/ Reject(value)
    /\ buffer' = value
    /\ tone' = IF questionIndex' < NumQuestions
               THEN BehaviorStyle(answers', questionIndex', value) ELSE tone

Next == \E value \in PersonReplies : Reply(value)

Spec == Init /\ [][Next]_vars

----------------------------------------------------------------------------
\* The variables have their types, and the answers given are those below the
\* index, whatever is rejected in between (connection.c:176-197).
TypeOK ==
    /\ questionIndex \in 0 .. NumQuestions
    /\ answers \in [Questions -> Ratings \cup {Unanswered}]
    /\ \A i \in Questions : answers[i] \in Ratings <=> i < questionIndex
    /\ buffer \in Int
    /\ tone \in {"neutrale", "empatico", "curioso", "entusiasta"}

Complete == questionIndex = NumQuestions

\* The statements an introvert agrees with, read from their wording and not
\* from the scoring code (personalityQuestions, connection.c:75-84).
IntrovertStatements == {1, 3, 5, 7, 9}

\* The answers this person would have given being the opposite in everything.
Mirror == [i \in Questions |-> 8 - answers[i]]

Rank(style) == CASE style = "riservato" -> 1 [] style = "neutro" -> 2 [] style = "aperto" -> 3

\* Opposite persons get opposite styles, and an average on a threshold counts
\* as above it: there the two styles are neighbours (connection.c:213-224).
MirrorImage ==
    Complete =>
        Rank(StyleOf(answers)) + Rank(StyleOf(Mirror)) =
            IF Score(answers, NumQuestions) \in {3 * NumQuestions, 5 * NumQuestions}
            THEN 5 ELSE 4

\* A person who gives every statement the same rating, whichever it is, has
\* said nothing about extroversion and gets the neutral style: the point of
\* wording half of the statements the other way (connection.c:201-208).
SameAnswersAreNeutral ==
    Complete /\ (\A i \in Questions : answers[i] = answers[0])
        => StyleOf(answers) = "neutro"

\* Agreeing more with one extroverted statement, or less with one introverted
\* one, never yields a more reserved style (connection.c:75-84, 201-224).
ExtroversionIsMonotone ==
    Complete =>
        \A i \in Questions :
            LET more == IF i \in IntrovertStatements THEN answers[i] - 1 ELSE answers[i] + 1
            IN  more \in Ratings =>
                    Rank(StyleOf([answers EXCEPT ![i] = more])) >= Rank(StyleOf(answers))

\* GPT is asked to treat opposite persons in opposite ways, at every question,
\* repeated ones included: of two persons whose answers so far mirror each other
\* and whose last replies do, numbers that were no ratings among them, one is met
\* with empathy where the other is met with enthusiasm, and with curiosity where
\* the other is met with empathy; between the thresholds the tone is the same for
\* both.  The reply is taken as given, not reversed as in the average
\* (connection.c:397-422), against the comment at 402; see EmpathyForShyness.
MirrorTone ==
    LET n        == questionIndex
        score    == Score(answers, n)
        opposite == BehaviorStyle(Mirror, n, 8 - buffer)
        Pairs    == {<<"empatico", "entusiasta">>, <<"curioso", "empatico">>}
    IN  n \in 1 .. NumQuestions - 1 =>
            /\ score < 3 * n => <<tone, opposite>> \in Pairs
            /\ score > 5 * n => <<opposite, tone>> \in Pairs
            /\ 3 * n < score /\ score < 5 * n => opposite = tone

\* A reserved person whose last answer is the shy one to its statement is met
\* with empathy (connection.c:402 "Mostra comprensione per risposte che indicano
\* timidezza"): false for the statements worded the introverted way.
ShyAnswer(i) == IF i \in IntrovertStatements THEN answers[i] >= 5 ELSE answers[i] <= 3
EmpathyForShyness ==
    LET n == questionIndex
    IN  n \in 1 .. NumQuestions - 1 =>
            (Score(answers, n) < 3 * n /\ buffer \in Ratings /\ ShyAnswer(n - 1)
                => tone = "empatico")
=============================================================================
