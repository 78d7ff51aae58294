----------------------------- MODULE Interview -----------------------------
(***************************************************************************)
(* What a conversation is for, whoever computes it and however it is       *)
(* disturbed: the questions are answered one after the other, each once;   *)
(* only a whole questionnaire yields a profile, once; and the goodbye, the *)
(* last thing said, is worded for that profile or for nobody.  There is no *)
(* server, robot, line or connection here.  Conversation implements it.    *)
(***************************************************************************)
EXTENDS Integers

CONSTANTS Questions, Ratings, Unanswered,
          Styles, StyleOf(_)   \* the style a whole questionnaire comes to

VARIABLES answers,     \* the person's rating of each question
          profile,     \* the style the robot speaks in, "" before it has one
          farewell     \* "none" until the goodbye

interview == <<answers, profile, farewell>>

Init ==
    /\ answers = [i \in Questions |-> Unanswered]
    /\ profile = "" /\ farewell = "none"

Answer(i, r) ==
    /\ profile = "" /\ farewell = "none"
    /\ answers[i] = Unanswered
    /\ \A j \in Questions : j < i => answers[j] # Unanswered
    /\ answers' = [answers EXCEPT ![i] = r]
    /\ UNCHANGED <<profile, farewell>>

Adopt ==
    /\ profile = "" /\ farewell = "none"
    /\ \A i \in Questions : answers[i] # Unanswered
    /\ profile' = StyleOf(answers)
    /\ UNCHANGED <<answers, farewell>>

Farewell(style) ==
    /\ farewell = "none"
    /\ style = "default" \/ (profile # "" /\ style = profile)
    /\ farewell' = style
    /\ UNCHANGED <<answers, profile>>

Next ==
    \/ \E i \in Questions, r \in Ratings : Answer(i, r)
    \/ Adopt
    \/ \E style \in Styles \cup {"default"} : Farewell(style)

Spec == Init /\ [][Next]_interview
=============================================================================
