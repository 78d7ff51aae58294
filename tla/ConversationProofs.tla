------------------------- MODULE ConversationProofs -------------------------
(***************************************************************************)
(* Proofs about Conversation, for every number of questions and of         *)
(* follow-ups and every set of faults.  The layers: the type invariant     *)
(* with the loop bounds, then what the two ends of the connection know of  *)
(* each other, then the position of the question being asked, on which the *)
(* safety theorems rest.                                                   *)
(***************************************************************************)
EXTENDS Conversation, HandleClientProofs

USE NumQuestionsAssumption, GptAssumption, NumFollowupsAssumption, PeerAssumption DEF EndsInv

(***************************************************************************)
(* Type correctness.                                                       *)
(***************************************************************************)

TypeInv == TypeOK /\ LoopInv

LEMMA InitTypeInv == Init => TypeInv
<1>. SUFFICES ASSUME Init PROVE TypeInv
  OBVIOUS
<1>1. LinkTypeOK
  BY EmptySeq DEF Init, LinkInit, LinkTypeOK
<1>2. ServerTypeOK
  <2>1. responses \in [Questions -> Ratings \cup {Unanswered}]
    BY DEF Init, ServerInit
  <2>2. gpt_session \in BOOLEAN
    BY Zenon DEF Init, ServerInit, GptInit
  <2>3. pc \in PCs /\ questionIndex = 0 /\ followup_index = 0 /\ message_count = 0
    BY DEF Init, ServerInit, GptInit, PCs
  <2>4. buffer \in Lines /\ quoted \in Lines
    BY LineTypes DEF Init, ServerInit
  <2>. QED
    BY <2>1, <2>2, <2>3, <2>4 DEF ServerTypeOK
<1>3. RobotTypeOK
  BY DEF Init, RobotInit, RobotTypeOK, Flows, NoQuestion, Message, Messages
<1>4. LoopInv
  BY DEF Init, ServerInit, GptInit, LoopInv, Assessing
<1>. QED
  BY <1>1, <1>2, <1>3, <1>4 DEF TypeInv, TypeOK

\* The robot's steps keep its own variables and the link well typed.
LEMMA RobotTypeStep ==
    ASSUME RobotTypeOK, LinkTypeOK, RobotNext
    PROVE  RobotTypeOK' /\ LinkTypeOK'
<1>. USE DEF RobotTypeOK, Flows
<1>1. CASE ConnectToServer
  BY <1>1, ClosesType DEF ConnectToServer
<1>2. CASE ConnectionRefused
  BY <1>2 DEF ConnectionRefused, linkVars, LinkTypeOK
<1>3. CASE Engage
  BY <1>3 DEF Engage, linkVars, LinkTypeOK
<1>4. CASE Decline
  BY <1>4 DEF Decline, linkVars, LinkTypeOK
<1>5. CASE Consent
  BY <1>5 DEF Consent, linkVars, LinkTypeOK
<1>6. CASE LastUserLeaves
  BY <1>6 DEF LastUserLeaves, linkVars, LinkTypeOK
<1>7. ASSUME NEW n, AssessmentReads(n) PROVE RobotTypeOK' /\ LinkTypeOK'
  <2>1. LinkTypeOK' /\ Head(toClient) \in Messages
    BY <1>7, ClientReadsType DEF AssessmentReads
  <2>2. CASE n = 1
    <3>. DEFINE m == Head(toClient)
    <3>1. m.type \in {"ask", "followup", "result", "state_change", "closing"}
          /\ m.style \in Styles \cup {""}
      BY <2>1 DEF Messages
    <3>2. HandleAssessmentMessage(m) /\ UNCHANGED <<isWaitingForResponse, given, goodbye>>
      BY <1>7, <2>2 DEF AssessmentReads
    <3>. HIDE DEF m
    <3>3. isWaitingForAnswer' \in BOOLEAN
      BY <3>2, Zenon DEF HandleAssessmentMessage
    <3>4. currentPersonality' \in Styles \cup {""}
      BY <3>1, <3>2 DEF HandleAssessmentMessage
    <3>5. currentQuestion' \in Messages
      BY <2>1, <3>2 DEF HandleAssessmentMessage, m
    <3>6. flow' \in Flows
      BY <3>2 DEF HandleAssessmentMessage
    <3>7. /\ UNCHANGED isWaitingForResponse
          /\ given' \in [Questions -> Ratings \cup {Unanswered}]
          /\ goodbye' \in Styles \cup {"none", "default"}
      BY <3>2
    <3>. QED
      BY <2>1, <3>3, <3>4, <3>5, <3>6, <3>7, Zenon
  <2>3. CASE n # 1
    BY <1>7, <2>1, <2>3 DEF AssessmentReads
  <2>. QED
    BY <2>2, <2>3
<1>8. ASSUME NEW style \in Styles \cup {"default"}, EndConversation(style)
      PROVE  RobotTypeOK' /\ LinkTypeOK'
  BY <1>8, ClosesType DEF EndConversation
<1>9. ASSUME NEW n, FollowUpReads(n) PROVE RobotTypeOK' /\ LinkTypeOK'
  <2>1. CASE n = 1 /\ Head(toClient).type \in {"ask", "followup"}
    <3>1. LinkTypeOK' /\ Head(toClient) \in Messages
      BY <1>9, <2>1, ClientReadsType DEF FollowUpReads
    <3>. QED
      BY <1>9, <2>1, <3>1 DEF FollowUpReads
  <2>2. CASE ~(n = 1 /\ Head(toClient).type \in {"ask", "followup"})
    <3>. DEFINE style == IF n = 1 /\ Head(toClient).type = "closing"
                         THEN Head(toClient).style ELSE "default"
    <3>1. EndConversation(style)
      BY <1>9, <2>2 DEF FollowUpReads
    <3>2. n \in 1 .. Len(toClient) /\ toClient \in Seq(Messages)
      BY <1>9 DEF FollowUpReads, LineEnds, LinkTypeOK
    <3>5. Head(toClient) \in Messages
      BY <3>2, HeadOfQueue
    <3>4. style \in Styles \cup {"default"}
      BY <3>5, MessageParts
    <3>. HIDE DEF style
    <3>. QED
      BY <1>8, <3>1, <3>4
  <2>. QED
    BY <2>1, <2>2
<1>10. CASE AssessmentReadEnds
  BY <1>10, ClosesType DEF AssessmentReadEnds
<1>11. CASE ConfirmTransition
  <2>1. <<Ready>> \in Seq(Lines)
    BY LineTypes, ShortSeqs
  <2>. QED
    BY <1>11, <2>1, ClientSendsType DEF ConfirmTransition, linkVars, LinkTypeOK
<1>12. CASE FollowUpReadEnds
  BY <1>8, <1>12 DEF FollowUpReadEnds
<1>13. ASSUME NEW r \in UserRatings, AnswerQuestion(r) PROVE RobotTypeOK' /\ LinkTypeOK'
  <2>1. r \in Ratings /\ currentQuestion.num \in Nat
    BY MessageParts
  <2>2. <<Rating(r, currentQuestion.num)>> \in Seq(Lines)
    BY <2>1, LineTypes, ShortSeqs
  <2>. QED
    BY <1>13, <2>1, <2>2, ClientSendsType DEF AnswerQuestion
<1>14. ASSUME NEW long \in BOOLEAN, AnswerFollowUp(long) PROVE RobotTypeOK' /\ LinkTypeOK'
  <2>1. currentQuestion.num \in Nat
    BY MessageParts
  <2>. DEFINE num == currentQuestion.num
              pieces == IF long THEN <<Text(num, TRUE), Text(num, FALSE)>>
                        ELSE <<Text(num, FALSE)>>
  <2>2. Text(num, TRUE) \in Lines /\ Text(num, FALSE) \in Lines
    BY <2>1, LineTypes, Zenon
  <2>. HIDE DEF num
  <2>3. pieces \in Seq(Lines)
    BY <2>2, ShortSeqs
  <2>4. ClientSends(pieces)
    BY <1>14, Zenon DEF AnswerFollowUp, num
  <2>. HIDE DEF pieces
  <2>5. LinkTypeOK'
    BY <2>3, <2>4, ClientSendsType
  <2>. QED
    BY <1>14, <2>5 DEF AnswerFollowUp
<1>15. CASE RobotCrash
  BY <1>15, ClosesType DEF RobotCrash
<1>. QED
  BY <1>1, <1>2, <1>3, <1>4, <1>5, <1>6, <1>7, <1>9, <1>10, <1>11, <1>12, <1>13,
     <1>14, <1>15 DEF RobotNext, RobotReads, UserAnswers

LEMMA NextTypeInv == TypeInv /\ [Next]_vars => TypeInv'
<1>. SUFFICES ASSUME TypeInv, [Next]_vars PROVE TypeInv'
  OBVIOUS
<1>. USE DEF TypeInv, TypeOK
<1>1. CASE ServerNext /\ UNCHANGED robotVars
  <2>1. RobotTypeOK'
    BY <1>1 DEF robotVars, RobotTypeOK
  <2>. QED
    BY <1>1, <2>1, ServerTypeStep
<1>2. CASE RobotNext /\ UNCHANGED serverVars
  <2>1. ServerTypeOK' /\ LoopInv'
    BY <1>2 DEF serverVars, sessionVars, gptVars, ServerTypeOK, LoopInv, Assessing
  <2>. QED
    BY <1>2, <2>1, RobotTypeStep
<1>3. CASE UNCHANGED vars
  <2>. USE <1>3 DEF vars
  <2>1. ServerTypeOK' /\ LoopInv'
    BY DEF serverVars, sessionVars, gptVars, ServerTypeOK, LoopInv, Assessing
  <2>2. LinkTypeOK'
    BY DEF linkVars, LinkTypeOK
  <2>3. RobotTypeOK'
    BY DEF robotVars, RobotTypeOK
  <2>. QED
    BY <2>1, <2>2, <2>3
<1>. QED
  BY <1>1, <1>2, <1>3 DEF Next, Terminated

\* Every variable of the two programs and of the connection stays in its set:
\* responses[] and followup_index within their bounds (connection.c:87, 275),
\* pc at a statement, the queues made of the lines and messages there are.
THEOREM TypeCorrect == Spec => []TypeOK
<1>1. TypeInv => TypeOK
  BY DEF TypeInv
<1>. QED
  BY <1>1, InitTypeInv, NextTypeInv, PTL DEF Spec

\* The loop bounds, which the later layers use.
LEMMA LoopsBounded == Spec => []TypeInv
BY InitTypeInv, NextTypeInv, PTL DEF Spec

(***************************************************************************)
(* What the ends of the connection know of each other.                     *)
(***************************************************************************)

LEMMA InitLinkInv == Init => LinkInv
BY DEF Init, ServerInit, LinkInit, RobotInit, LinkInv

LEMMA ServerLinkStep ==
    ASSUME LinkInv, LinkTypeOK, ServerNext, UNCHANGED flow
    PROVE  LinkInv'
<1>1. EndsInv'
  BY ServerEndsStep DEF LinkInv
<1>2. serverOpen
  BY DEF LinkInv, EndsInv, ServerNext, CreateSession, AskQuestion, ReadAnswer, LoseAnswer,
     SendResult, SendTransition, ReadReady, LoseReady, AskFollowup, ReadFollowup,
     LoseFollowup, GptClosing, StaticClosing, Cleanup
<1>. QED
  BY <1>1, <1>2 DEF LinkInv

LEMMA RobotLinkStep ==
    ASSUME LinkInv, LinkTypeOK, RobotNext, UNCHANGED pc
    PROVE  LinkInv'
<1>1. CASE ConnectToServer
  BY <1>1 DEF ConnectToServer, Connect, LinkInv
<1>2. CASE ConnectionRefused
  BY <1>2 DEF ConnectionRefused, linkVars, LinkInv
<1>3. CASE Engage
  BY <1>3 DEF Engage, linkVars, LinkInv
<1>4. CASE Decline
  BY <1>4 DEF Decline, linkVars, LinkInv
<1>5. CASE Consent
  BY <1>5 DEF Consent, linkVars, LinkInv
<1>6. CASE LastUserLeaves
  BY <1>6 DEF LastUserLeaves, linkVars, LinkInv
<1>7. ASSUME NEW n \in 1 .. Len(toClient), AssessmentReads(n) PROVE LinkInv'
  <2>1. clientOpen
    BY <1>7, EmptySeq DEF LinkInv, LinkTypeOK
  <2>2. flow' # "Init"
    BY <1>7 DEF AssessmentReads, HandleAssessmentMessage
  <2>. QED
    BY <1>7, <2>1, <2>2 DEF AssessmentReads, ClientReads, LinkInv
<1>8. ASSUME NEW style, flow # "Init", EndConversation(style) PROVE LinkInv'
  BY <1>8 DEF EndConversation, ClientCloses, LinkInv
<1>9. ASSUME NEW n \in 1 .. Len(toClient), FollowUpReads(n) PROVE LinkInv'
  <2>1. clientOpen
    BY <1>9, EmptySeq DEF LinkInv, LinkTypeOK
  <2>2. flow # "Init"
    BY <1>9 DEF FollowUpReads
  <2>3. CASE n = 1 /\ Head(toClient).type \in {"ask", "followup"}
    BY <1>9, <2>1, <2>3 DEF FollowUpReads, ClientReads, LinkInv
  <2>4. CASE ~(n = 1 /\ Head(toClient).type \in {"ask", "followup"})
    BY <1>8, <1>9, <2>2, <2>4 DEF FollowUpReads
  <2>. QED
    BY <2>3, <2>4
<1>10. CASE AssessmentReadEnds
  BY <1>10 DEF AssessmentReadEnds, ClientDrains, LinkInv
<1>11. CASE ConfirmTransition
  BY <1>11 DEF ConfirmTransition, ClientCanSend, ClientSends, linkVars, LinkInv
<1>12. CASE FollowUpReadEnds
  BY <1>8, <1>12 DEF FollowUpReadEnds
<1>13. ASSUME NEW r, AnswerQuestion(r) PROVE LinkInv'
  BY <1>13 DEF AnswerQuestion, ClientCanSend, ClientSends, LinkInv
<1>14. ASSUME NEW long, AnswerFollowUp(long) PROVE LinkInv'
  BY <1>14 DEF AnswerFollowUp, ClientCanSend, ClientSends, LinkInv
<1>15. CASE RobotCrash
  BY <1>15 DEF RobotCrash, ClientCloses, LinkInv
<1>. QED
  BY <1>1, <1>2, <1>3, <1>4, <1>5, <1>6, <1>7, <1>9, <1>10, <1>11, <1>12, <1>13,
     <1>14, <1>15 DEF RobotNext, RobotReads, UserAnswers

LEMMA NextLinkInv == TypeInv /\ LinkInv /\ [Next]_vars => LinkInv'
<1>. SUFFICES ASSUME TypeInv, LinkInv, [Next]_vars PROVE LinkInv'
  OBVIOUS
<1>0. LinkTypeOK
  BY DEF TypeInv, TypeOK
<1>1. CASE ServerNext /\ UNCHANGED robotVars
  BY <1>0, <1>1, ServerLinkStep DEF robotVars
<1>2. CASE RobotNext /\ UNCHANGED serverVars
  BY <1>0, <1>2, RobotLinkStep DEF serverVars
<1>3. CASE UNCHANGED vars
  BY <1>3 DEF vars, serverVars, linkVars, robotVars, LinkInv
<1>. QED
  BY <1>1, <1>2, <1>3 DEF Next, Terminated

(***************************************************************************)
(* Where the question being asked is, and what follows for the answers and *)
(* the style.                                                              *)
(***************************************************************************)

CoreInv == TokenInv /\ AnswersInv /\ StyleInv

LEMMA InitCoreInv == Init => CoreInv
<1>. SUFFICES ASSUME Init PROVE CoreInv
  OBVIOUS
<1>1. toClient = <<>> /\ toServer = <<>> /\ ~clientOpen
  BY DEF Init, LinkInit
<1>5. \A i \in 1 .. Len(toClient) : FALSE
  BY <1>1, EmptySeq
<1>2. TokenInv
  BY <1>1, <1>5 DEF Init, RobotInit, TokenInv, AskListening
<1>3. AnswersInv
  BY DEF Init, ServerInit, AnswersInv, Questions
<1>4. StyleInv
  BY <1>1, <1>5 DEF Init, ServerInit, RobotInit, StyleInv, Styles, Assessing
<1>. QED
  BY <1>2, <1>3, <1>4 DEF CoreInv

\* SendReaches, under the invariant of this module.
LEMMA SendEffect ==
    ASSUME LinkInv, LinkTypeOK, NEW m, NEW next, Send(m, next)
    PROVE  /\ UNCHANGED clientOpen
           /\ \/ pc' = "killed" /\ ~clientOpen /\ toClient' = <<>> /\ toServer' = <<>>
              \/ /\ pc' = next /\ UNCHANGED toServer
                 /\ \/ clientOpen /\ toClient' = Append(toClient, m)
                    \/ ~clientOpen /\ toClient' = <<>>
BY SendReaches DEF LinkInv

\* Once the assessment is over, the server's steps send only what agrees with
\* the recorded answers.
Harmless(m) ==
    m.type # "ask" /\ (m.type # "followup" => m.style = StyleOf(responses))

LEMMA LateStep ==
    ASSUME LinkTypeOK, CoreInv, ~Assessing, ~Assessing', pc # "killed",
           UNCHANGED <<questionIndex, responses, robotVars, clientOpen>>,
           NEW m \in Messages, Harmless(m),
           \/ toClient' \in {toClient, <<>>}
           \/ clientOpen /\ toClient' = Append(toClient, m)
    PROVE  CoreInv'
<1>1. \A i \in 1 .. Len(toClient) : toClient[i].type # "ask"
  BY DEF CoreInv, TokenInv, Assessing
<1>2. \A i \in 1 .. Len(toClient') :
        /\ toClient'[i].type # "ask"
        /\ toClient'[i].type # "followup" =>
               questionIndex = NumQuestions /\ toClient'[i].style = StyleOf(responses)
  <2>1. CASE toClient' = toClient
    BY <1>1, <2>1 DEF CoreInv, StyleInv
  <2>2. CASE toClient' = <<>>
    BY <2>2, EmptySeq
  <2>3. CASE clientOpen /\ toClient' = Append(toClient, m)
    <3>1. questionIndex = NumQuestions
      BY <2>3 DEF CoreInv, StyleInv
    <3>2. \A i \in 1 .. Len(toClient') :
            toClient'[i] = IF i = Len(toClient) + 1 THEN m ELSE toClient[i]
      BY <2>3, AppendProperties DEF LinkTypeOK
    <3>3. \A i \in 1 .. Len(toClient') : i = Len(toClient) + 1 \/ i \in 1 .. Len(toClient)
      BY <2>3, AppendProperties DEF LinkTypeOK
    <3>. QED
      BY <1>1, <3>1, <3>2, <3>3 DEF CoreInv, StyleInv, Harmless
  <2>. QED
    BY <2>1, <2>2, <2>3
<1>3. TokenInv'
  BY <1>2 DEF CoreInv, TokenInv, AskListening, Assessing, robotVars
<1>4. AnswersInv'
  BY DEF CoreInv, AnswersInv, robotVars
<1>5. StyleInv'
  BY <1>2 DEF CoreInv, StyleInv, robotVars
<1>. QED
  BY <1>3, <1>4, <1>5 DEF CoreInv

\* A robot in a conversation answers what it was asked: the line the server
\* reads is the rating the person gave for the question at hand.
LEMMA ReadsTheAnswer ==
    ASSUME TypeInv, CoreInv, ReadAnswer
    PROVE  /\ toClient = <<>> /\ toServer' = <<>>
           /\ given[questionIndex] \in Ratings
           /\ buffer' = Rating(given[questionIndex], questionIndex + 1)
           /\ responses' = [responses EXCEPT ![questionIndex] = given[questionIndex]]
           /\ questionIndex' = questionIndex + 1
           /\ pc' = IF questionIndex + 1 < NumQuestions THEN "ask" ELSE "sendResult"
<1>. DEFINE answer == Rating(given[questionIndex], questionIndex + 1)
<1>1. PICK n \in ReadSizes : ServerReads(n) /\ buffer' = Head(toServer)
  BY DEF ReadAnswer, ReadLine
<1>2. pc = "readAnswer" /\ n \in 1 .. Len(toServer) /\ toServer # <<>>
  BY <1>1, EmptySeq DEF ReadAnswer, ReadSizes
<1>3. /\ toClient = <<>> /\ Len(toServer) = 1 /\ given[questionIndex] \in Ratings
      /\ toServer[1] = answer
  BY <1>2 DEF CoreInv, TokenInv, Assessing
<1>4. toServer \in Seq(Lines)
  BY DEF TypeInv, TypeOK, LinkTypeOK
<1>5. toServer' = <<>>
  <2>1. toServer' = SubSeq(toServer, 2, 1)
    BY <1>1, <1>2, <1>3 DEF ServerReads
  <2>2. SubSeq(toServer, 2, 1) = <<>>
    BY SubSeqEmpty
  <2>. QED
    BY <2>1, <2>2
<1>6. buffer' = answer
  BY <1>1, <1>2, <1>3, <1>4, HeadOfQueue
<1>7. buffer'.value = given[questionIndex] /\ IsRating(buffer')
  BY <1>3, <1>6 DEF Rating, Line, IsRating
<1>8. RecordAnswer(given[questionIndex])
  BY <1>7 DEF ReadAnswer
<1>. QED
  BY <1>3, <1>5, <1>6, <1>8 DEF RecordAnswer

\* The server's steps.
LEMMA ServerCoreStep ==
    ASSUME TypeInv, LinkInv, CoreInv, ServerNext, UNCHANGED robotVars
    PROVE  CoreInv'
<1>0. /\ LinkTypeOK /\ StyleOf(responses) \in Styles
      /\ questionIndex \in 0 .. NumQuestions
      /\ Assessing => questionIndex < NumQuestions
  BY StyleOfIsStyle DEF TypeInv, TypeOK, LoopInv, ServerTypeOK
<1>r. Harmless(Result(StyleOf(responses))) /\ Result(StyleOf(responses)) \in Messages
  BY <1>0, MessageTypes DEF Harmless, Result, Message
<1>t. Harmless(StateChange(StyleOf(responses))) /\ StateChange(StyleOf(responses)) \in Messages
  BY <1>0, MessageTypes DEF Harmless, StateChange, Message
<1>c. \A whole \in BOOLEAN : /\ Closing(StyleOf(responses), whole) \in Messages
                             /\ Harmless(Closing(StyleOf(responses), whole))
  <2>1. \A whole : /\ Closing(StyleOf(responses), whole).type = "closing"
                   /\ Closing(StyleOf(responses), whole).style = StyleOf(responses)
    BY DEF Closing, Message
  <2>. QED
    BY <1>0, <2>1, MessageTypes, Zenon DEF Harmless
<1>1. CASE CreateSession
  <2>1. TokenInv'
    BY <1>1 DEF CreateSession, sessionVars, linkVars, robotVars, CoreInv, TokenInv,
                Assessing, AskListening
  <2>2. AnswersInv' /\ StyleInv'
    BY <1>1 DEF CreateSession, sessionVars, linkVars, robotVars, CoreInv, AnswersInv,
                StyleInv, Assessing
  <2>. QED
    BY <2>1, <2>2 DEF CoreInv
<1>2. CASE AskQuestion
  <2>. DEFINE m(whole) == Ask(questionIndex + 1, whole)
  <2>1. pc = "ask" /\ UNCHANGED <<questionIndex, responses>>
    BY <1>2 DEF AskQuestion
  <2>2. toClient = <<>> /\ toServer = <<>> /\ ~(AskListening /\ clientOpen)
    BY <2>1, EmptySeq DEF CoreInv, TokenInv, Assessing
  <2>3. /\ UNCHANGED clientOpen /\ toServer' = <<>>
        /\ \/ pc' = "killed" /\ toClient' = <<>>
           \/ pc' = "readAnswer" /\ toClient' = <<>>
           \/ /\ pc' = "readAnswer" /\ clientOpen
              /\ \E whole \in BOOLEAN : toClient' = <<m(whole)>>
    <3>1. PICK outcome \in GptOutcomes :
            IF outcome = "nullContent" THEN ProcessDies
            ELSE Send(m(outcome # "longReply"), "readAnswer")
      BY <1>2 DEF AskQuestion
    <3>2. CASE outcome = "nullContent"
      BY <2>2, <3>1, <3>2 DEF ProcessDies, ServerCloses
    <3>3. CASE outcome # "nullContent"
      <4>1. Send(m(outcome # "longReply"), "readAnswer")
        BY <3>1, <3>3
      <4>2. Append(<<>>, m(outcome # "longReply")) = <<m(outcome # "longReply")>>
        OBVIOUS
      <4>3. (outcome # "longReply") \in BOOLEAN
        OBVIOUS
      <4>. HIDE DEF m
      <4>. QED
        BY <1>0, <2>2, <4>1, <4>2, <4>3, SendEffect, Zenon
    <3>. QED
      BY <3>2, <3>3
  <2>4. /\ \A i \in 1 .. Len(toClient') :
              /\ pc' = "readAnswer"
              /\ toClient'[i].type = "ask" /\ toClient'[i].num = questionIndex + 1
        /\ toClient' # <<>> =>
              clientOpen /\ Len(toClient') = 1 /\ toClient'[1].type = "ask"
    <3>1. CASE toClient' = <<>>
      BY <3>1, EmptySeq
    <3>2. ASSUME NEW whole \in BOOLEAN, toClient' = <<m(whole)>>, pc' = "readAnswer"
          PROVE  /\ pc' = "readAnswer" /\ Len(toClient') = 1
                 /\ toClient'[1].type = "ask" /\ toClient'[1].num = questionIndex + 1
      <4>1. m(whole).type = "ask" /\ m(whole).num = questionIndex + 1
        BY DEF Ask, Message
      <4>. HIDE DEF m
      <4>. QED
        BY <3>2, <4>1, ShortSeqs
    <3>. QED
      BY <2>3, <3>1, <3>2
  <2>5. TokenInv'
    BY <2>1, <2>2, <2>3, <2>4 DEF TokenInv, AskListening, Assessing, robotVars, CoreInv
  <2>6. AnswersInv' /\ StyleInv'
    BY <2>1, <2>3, <2>4 DEF AnswersInv, StyleInv, Assessing, robotVars, CoreInv
  <2>. QED
    BY <2>5, <2>6 DEF CoreInv
<1>3. CASE ReadAnswer
  <2>1. UNCHANGED <<toClient, clientOpen>>
    BY <1>3 DEF ReadAnswer, ReadLine, ServerReads
  <2>2. pc = "readAnswer" /\ toServer # <<>>
    BY <1>3, EmptySeq DEF ReadAnswer, ReadLine, ReadSizes
  <2>3. toClient = <<>> /\ toServer' = <<>> /\ given[questionIndex] \in Ratings
    BY <1>3, ReadsTheAnswer
  <2>4. /\ responses' = [responses EXCEPT ![questionIndex] = given[questionIndex]]
        /\ questionIndex' = questionIndex + 1
        /\ pc' = IF questionIndex + 1 < NumQuestions THEN "ask" ELSE "sendResult"
    BY <1>3, ReadsTheAnswer
  <2>5. ~(AskListening /\ clientOpen)
    BY <2>2 DEF CoreInv, TokenInv
  <2>6. \A i \in 1 .. Len(toClient') : FALSE
    BY <2>1, <2>3, EmptySeq
  <2>7. questionIndex < NumQuestions /\ questionIndex \in Nat
    BY <1>0, <2>2 DEF Assessing
  <2>8. TokenInv'
    BY <2>2, <2>1, <2>3, <2>4, <2>5, <2>6
       DEF CoreInv, TokenInv, AskListening, Assessing, robotVars
  <2>9. AnswersInv'
    <3>1. responses \in [Questions -> Ratings \cup {Unanswered}]
      BY DEF TypeInv, TypeOK, ServerTypeOK
    <3>. QED
      BY <2>3, <2>4, <2>7, <3>1 DEF CoreInv, AnswersInv, Questions, robotVars
  <2>10. StyleInv'
    <3>1. questionIndex # NumQuestions
      BY <2>7
    <3>2. currentPersonality = "" /\ goodbye \notin Styles
      BY <3>1 DEF CoreInv, StyleInv
    <3>3. currentPersonality' = "" /\ goodbye' \notin Styles
      BY <3>2 DEF robotVars
    <3>4. pc' = "ask" \/ questionIndex' = NumQuestions
      BY <2>4, <2>7
    <3>. QED
      BY <2>6, <3>3, <3>4, Zenon DEF StyleInv, Assessing
  <2>. QED
    BY <2>8, <2>9, <2>10 DEF CoreInv
<1>4. CASE LoseAnswer
  <2>1. ~clientOpen /\ toClient = <<>> /\ toServer = <<>>
    BY <1>4 DEF LoseAnswer, ServerReadFails, LinkInv
  <2>2. /\ pc' = "sendResult"
        /\ UNCHANGED <<toClient, toServer, clientOpen, questionIndex, responses>>
    BY <1>4 DEF LoseAnswer, ServerReadFails, sessionVars
  <2>3. \A i \in 1 .. Len(toClient') : FALSE
    BY <2>1, <2>2, EmptySeq
  <2>4. TokenInv'
    BY <2>1, <2>2, <2>3 DEF CoreInv, TokenInv, AskListening, Assessing, robotVars
  <2>5. AnswersInv' /\ StyleInv'
    BY <2>1, <2>2, <2>3 DEF CoreInv, AnswersInv, StyleInv, Assessing, robotVars
  <2>. QED
    BY <2>4, <2>5 DEF CoreInv
<1>5. CASE SendResult
  <2>. DEFINE m == Result(StyleOf(responses))
  <2>1. Send(m, "sendTransition") /\ pc = "sendResult" /\ UNCHANGED <<questionIndex, responses>>
    BY <1>5 DEF SendResult, sessionVars
  <2>. QED
    BY <1>0, <1>r, <2>1, SendEffect, LateStep DEF Assessing
<1>6. CASE SendTransition
  <2>. DEFINE m == StateChange(StyleOf(responses))
  <2>1. Send(m, "readReady") /\ pc = "sendTransition" /\ UNCHANGED <<questionIndex, responses>>
    BY <1>6 DEF SendTransition, sessionVars
  <2>. QED
    BY <1>0, <1>t, <2>1, SendEffect, LateStep DEF Assessing
<1>7. CASE ReadReady
  <2>1. UNCHANGED <<toClient, clientOpen, questionIndex, responses>>
    BY <1>7 DEF ReadReady, ReadLine, ServerReads
  <2>2. pc = "readReady" /\ pc' \in {"cleanup", "followAsk", "staticClosing"}
    BY <1>7 DEF ReadReady
  <2>. QED
    BY <1>0, <1>r, <2>1, <2>2, LateStep DEF Assessing
<1>8. CASE LoseReady
  BY <1>0, <1>r, <1>8, LateStep DEF LoseReady, ServerReadFails, Assessing, sessionVars
<1>9. CASE AskFollowup
  <2>. DEFINE m(whole) == Followup(followup_index + 1, whole)
  <2>1. PICK outcome \in GptOutcomes :
          IF outcome = "nullContent" THEN ProcessDies
          ELSE IF Replied(outcome) THEN Send(m(outcome # "longReply"), "followRead")
          ELSE FollowupFails
    BY <1>9 DEF AskFollowup
  <2>2. pc = "followAsk" /\ UNCHANGED <<questionIndex, responses>>
    BY <1>9 DEF AskFollowup
  <2>3. \A whole \in BOOLEAN : m(whole) \in Messages /\ Harmless(m(whole))
    <3>1. followup_index + 1 \in Nat
      BY DEF TypeInv, TypeOK, ServerTypeOK
    <3>2. \A whole : m(whole).type = "followup"
      BY DEF Followup, Message
    <3>. HIDE DEF m
    <3>3. \A whole \in BOOLEAN : m(whole) \in Messages
      BY <3>1, MessageTypes, Zenon DEF m
    <3>. QED
      BY <3>2, <3>3 DEF Harmless
  <2>4. CASE outcome = "nullContent"
    <3>1. pc' = "killed" /\ UNCHANGED <<toClient, clientOpen>>
      BY <2>1, <2>4 DEF ProcessDies, ServerCloses
    <3>. QED
      BY <1>0, <1>r, <2>2, <3>1, LateStep DEF Assessing
  <2>5. CASE outcome # "nullContent" /\ Replied(outcome)
    <3>1. PICK whole \in BOOLEAN : Send(m(whole), "followRead")
      <4>1. (outcome # "longReply") \in BOOLEAN
        OBVIOUS
      <4>. QED
        BY <2>1, <2>5, <4>1, Zenon
    <3>2. m(whole) \in Messages /\ Harmless(m(whole))
      BY <2>3
    <3>. HIDE DEF m
    <3>. QED
      BY <1>0, <2>2, <3>1, <3>2, SendEffect, LateStep DEF Assessing
  <2>6. CASE outcome # "nullContent" /\ ~Replied(outcome)
    <3>1. pc' = "gptClosing" /\ UNCHANGED <<toClient, clientOpen>>
      BY <2>1, <2>6 DEF FollowupFails, linkVars
    <3>. QED
      BY <1>0, <1>r, <2>2, <3>1, LateStep DEF Assessing
  <2>. QED
    BY <2>4, <2>5, <2>6
<1>10. CASE ReadFollowup
  <2>1. UNCHANGED <<toClient, clientOpen, questionIndex, responses>>
    BY <1>10 DEF ReadFollowup, ReadLine, ServerReads
  <2>2. pc = "followRead" /\ pc' \in {"followAsk", "gptClosing"}
    BY <1>10 DEF ReadFollowup, CountFollowup
  <2>. QED
    BY <1>0, <1>r, <2>1, <2>2, LateStep DEF Assessing
<1>11. CASE LoseFollowup
  BY <1>0, <1>r, <1>11, LateStep DEF LoseFollowup, ServerReadFails, Assessing, sessionVars
<1>12. CASE GptClosing
  <2>. DEFINE m(whole) == Closing(StyleOf(responses), whole)
  <2>1. PICK outcome \in GptOutcomes :
          IF outcome = "nullContent" THEN ProcessDies
          ELSE IF Replied(outcome) THEN Send(m(outcome # "longReply"), "cleanup")
          ELSE pc' = "staticClosing" /\ UNCHANGED linkVars
    BY <1>12 DEF GptClosing
  <2>2. pc = "gptClosing" /\ UNCHANGED <<questionIndex, responses>>
    BY <1>12 DEF GptClosing
  <2>3. \A whole \in BOOLEAN : m(whole) \in Messages /\ Harmless(m(whole))
    BY <1>c
  <2>4. CASE outcome = "nullContent"
    <3>1. pc' = "killed" /\ UNCHANGED <<toClient, clientOpen>>
      BY <2>1, <2>4 DEF ProcessDies, ServerCloses
    <3>. QED
      BY <1>0, <1>r, <2>2, <3>1, LateStep DEF Assessing
  <2>5. CASE outcome # "nullContent" /\ Replied(outcome)
    <3>1. PICK whole \in BOOLEAN : Send(m(whole), "cleanup")
      <4>1. (outcome # "longReply") \in BOOLEAN
        OBVIOUS
      <4>. QED
        BY <2>1, <2>5, <4>1, Zenon
    <3>2. m(whole) \in Messages /\ Harmless(m(whole))
      BY <2>3
    <3>. HIDE DEF m
    <3>. QED
      BY <1>0, <2>2, <3>1, <3>2, SendEffect, LateStep DEF Assessing
  <2>6. CASE outcome # "nullContent" /\ ~Replied(outcome)
    <3>1. pc' = "staticClosing" /\ UNCHANGED <<toClient, clientOpen>>
      BY <2>1, <2>6 DEF linkVars
    <3>. QED
      BY <1>0, <1>r, <2>2, <3>1, LateStep DEF Assessing
  <2>. QED
    BY <2>4, <2>5, <2>6
<1>13. CASE StaticClosing
  <2>. DEFINE m == Closing(StyleOf(responses), TRUE)
  <2>1. Send(m, "cleanup") /\ pc = "staticClosing" /\ UNCHANGED <<questionIndex, responses>>
    BY <1>13 DEF StaticClosing, sessionVars
  <2>2. m \in Messages /\ Harmless(m)
    BY <1>c
  <2>. HIDE DEF m
  <2>. QED
    BY <1>0, <2>1, <2>2, SendEffect, LateStep DEF Assessing
<1>14. CASE Cleanup
  BY <1>0, <1>r, <1>14, LateStep DEF Cleanup, ServerCloses, Assessing, sessionVars
<1>. QED
  BY <1>1, <1>2, <1>3, <1>4, <1>5, <1>6, <1>7, <1>8, <1>9, <1>10, <1>11, <1>12,
     <1>13, <1>14 DEF ServerNext

\* Before the assessment and between its conversations nothing is asked.
LEMMA QuietStep ==
    ASSUME CoreInv,
           UNCHANGED <<serverVars, toClient, toServer, currentQuestion,
                       currentPersonality, given, goodbye>>,
           clientOpen' = clientOpen \/ pc = "start",
           \/ flow' \in {"Idle", "Greeting"}
           \/ flow' = "Assessment.read" /\ ~isWaitingForAnswer'
    PROVE  CoreInv'
<1>1. TokenInv'
  BY DEF CoreInv, TokenInv, AskListening, Assessing, serverVars, sessionVars
<1>2. AnswersInv'
  BY DEF CoreInv, AnswersInv, serverVars, sessionVars
<1>3. StyleInv'
  <2>1. UNCHANGED <<pc, questionIndex, responses, toClient, currentPersonality, goodbye>>
    BY DEF serverVars, sessionVars
  <2>2. clientOpen' /\ ~Assessing' => clientOpen /\ ~Assessing
    BY <2>1, Zenon DEF Assessing
  <2>. QED
    BY <2>1, <2>2 DEF CoreInv, StyleInv
<1>. QED
  BY <1>1, <1>2, <1>3 DEF CoreInv

\* Once the assessment is over for one of the two ends, the robot's steps take
\* messages off the queue and adopt what those messages say.
LEMMA LateRobotStep ==
    ASSUME CoreInv, UNCHANGED <<serverVars, given>>,
           ~Assessing \/ (~clientOpen' /\ toServer' = toServer),
           \/ toClient' = <<>>
           \/ ~Assessing /\ \A i \in 1 .. Len(toClient') :
                                \E j \in 1 .. Len(toClient) : toClient'[i] = toClient[j],
           clientOpen' => clientOpen,
           flow' \in {"Assessment.read", "Assessment.confirm"} => ~isWaitingForAnswer',
           ~(AskListening' /\ clientOpen'),
           \/ currentPersonality' = currentPersonality
           \/ questionIndex = NumQuestions /\ currentPersonality' = StyleOf(responses),
           \/ goodbye' = goodbye \/ goodbye' \notin Styles
           \/ questionIndex = NumQuestions /\ goodbye' = StyleOf(responses)
    PROVE  CoreInv'
<1>1. UNCHANGED <<pc, questionIndex, responses, given>>
  BY DEF serverVars, sessionVars
<1>2. Assessing' <=> Assessing
  BY <1>1 DEF Assessing
<1>3. \A i \in 1 .. Len(toClient') :
        ~Assessing /\ \E j \in 1 .. Len(toClient) : toClient'[i] = toClient[j]
  BY EmptySeq
<1>4. \A i \in 1 .. Len(toClient') : toClient'[i].type # "ask"
  BY <1>3 DEF CoreInv, TokenInv, Assessing
<1>5. TokenInv'
  BY <1>1, <1>2, <1>3, <1>4, EmptySeq DEF CoreInv, TokenInv
<1>6. AnswersInv'
  BY <1>1 DEF CoreInv, AnswersInv
<1>7. StyleInv'
  <2>1. clientOpen' /\ ~Assessing' => questionIndex' = NumQuestions \/ pc' = "killed"
    BY <1>1, <1>2 DEF CoreInv, StyleInv
  <2>2. ASSUME NEW i \in 1 .. Len(toClient'), toClient'[i].type \notin {"ask", "followup"}
        PROVE  questionIndex' = NumQuestions /\ toClient'[i].style = StyleOf(responses')
    BY <1>1, <1>3, <2>2 DEF CoreInv, StyleInv
  <2>3. currentPersonality' # "" =>
            questionIndex' = NumQuestions /\ currentPersonality' = StyleOf(responses')
    BY <1>1 DEF CoreInv, StyleInv
  <2>4. goodbye' \in Styles =>
            questionIndex' = NumQuestions /\ goodbye' = StyleOf(responses')
    BY <1>1 DEF CoreInv, StyleInv
  <2>. QED
    BY <2>1, <2>2, <2>3, <2>4 DEF StyleInv
<1>. QED
  BY <1>5, <1>6, <1>7 DEF CoreInv

\* The robot takes a message off the queue while the assessment lasts for both
\* ends: it is the question being asked.
LEMMA HearsQuestion ==
    ASSUME TypeInv, LinkInv, CoreInv, Assessing, UNCHANGED serverVars,
           NEW n \in 1 .. Len(toClient), AssessmentReads(n)
    PROVE  CoreInv'
<1>1. toClient \in Seq(Messages) /\ toClient # <<>>
  BY EmptySeq DEF TypeInv, TypeOK, LinkTypeOK
<1>2. Len(toClient) = 1 /\ toClient[1].type = "ask"
  BY <1>1 DEF CoreInv, TokenInv
<1>3. n = 1 /\ Head(toClient) = toClient[1]
  BY <1>1, <1>2, HeadTailProperties
<1>4. /\ pc = "readAnswer" /\ toServer = <<>>
      /\ toClient[1].num = questionIndex + 1
  BY <1>2 DEF CoreInv, TokenInv
<1>5. toClient' = <<>> /\ UNCHANGED <<toServer, clientOpen>>
  <2>1. toClient' = SubSeq(toClient, 2, 1)
    BY <1>2, <1>3 DEF AssessmentReads, ClientReads
  <2>2. SubSeq(toClient, 2, 1) = <<>>
    BY SubSeqEmpty
  <2>. QED
    BY <2>1, <2>2 DEF AssessmentReads, ClientReads
<1>6. /\ isWaitingForAnswer' /\ flow' = "Assessment.listen"
      /\ currentQuestion' = toClient[1]
      /\ UNCHANGED <<currentPersonality, given, goodbye>>
  <2>1. HandleAssessmentMessage(toClient[1]) /\ UNCHANGED <<given, goodbye>>
    BY <1>3 DEF AssessmentReads
  <2>2. toClient[1].type \in {"ask", "followup"}
    BY <1>2
  <2>3. isWaitingForAnswer' = TRUE
    BY <2>1, <2>2, Zenon DEF HandleAssessmentMessage
  <2>. QED
    BY <1>2, <2>1, <2>3 DEF HandleAssessmentMessage
<1>7. UNCHANGED <<pc, questionIndex, responses>>
  BY DEF serverVars, sessionVars
<1>8. \A i \in 1 .. Len(toClient') : FALSE
  BY <1>5, EmptySeq
<1>9. TokenInv'
  BY <1>2, <1>4, <1>5, <1>6, <1>7, <1>8 DEF CoreInv, TokenInv, AskListening, Assessing
<1>10. AnswersInv' /\ StyleInv'
  BY <1>5, <1>6, <1>7, <1>8 DEF CoreInv, AnswersInv, StyleInv, Assessing
<1>. QED
  BY <1>9, <1>10 DEF CoreInv

\* The person answers the question being asked.
LEMMA AnswersQuestion ==
    ASSUME TypeInv, LinkInv, CoreInv, UNCHANGED serverVars,
           NEW r \in Ratings, AnswerQuestion(r), currentQuestion.type = "ask"
    PROVE  CoreInv'
<1>1. AskListening /\ clientOpen
  BY DEF AnswerQuestion, ClientCanSend, AskListening
<1>2. /\ pc = "readAnswer" /\ toServer = <<>> /\ toClient = <<>> /\ serverOpen
      /\ currentQuestion.num = questionIndex + 1
  BY <1>1 DEF CoreInv, TokenInv, LinkInv
<1>3. questionIndex \in Questions
  BY <1>2 DEF TypeInv, TypeOK, ServerTypeOK, LoopInv, Assessing, Questions
<1>4. given' = [given EXCEPT ![questionIndex] = r]
  <2>1. given' = [given EXCEPT ![currentQuestion.num - 1] = r]
    BY DEF AnswerQuestion
  <2>2. currentQuestion.num - 1 = questionIndex
    BY <1>2, <1>3 DEF Questions
  <2>. QED
    BY <2>1, <2>2
<1>5. given'[questionIndex] = r /\ \A i \in Questions : i # questionIndex => given'[i] = given[i]
  BY <1>3, <1>4 DEF TypeInv, TypeOK, RobotTypeOK
<1>6. toServer' = <<Rating(r, questionIndex + 1)>>
  <2>1. toServer' = toServer \o <<Rating(r, questionIndex + 1)>>
    BY <1>2 DEF AnswerQuestion, ClientSends
  <2>2. <<>> \o <<Rating(r, questionIndex + 1)>> = <<Rating(r, questionIndex + 1)>>
    OBVIOUS
  <2>. QED
    BY <1>2, <2>1, <2>2
<1>7. /\ UNCHANGED <<pc, questionIndex, responses, toClient, clientOpen, currentQuestion,
                     currentPersonality, goodbye>>
      /\ flow' = "Assessment.read" /\ ~isWaitingForAnswer'
  BY DEF AnswerQuestion, ClientSends, serverVars, sessionVars
<1>8. toServer' # <<>> /\ Len(toServer') = 1 /\ toServer'[1] = Rating(r, questionIndex + 1)
  BY <1>6
<1>9. \A i \in 1 .. Len(toClient') : FALSE
  BY <1>2, <1>7, EmptySeq
<1>10. TokenInv'
  BY <1>2, <1>5, <1>7, <1>8, <1>9 DEF TokenInv, AskListening, Assessing
<1>11. AnswersInv'
  BY <1>5, <1>7, <1>3 DEF CoreInv, AnswersInv, Questions
<1>12. StyleInv'
  BY <1>7, <1>9 DEF CoreInv, StyleInv, Assessing
<1>. QED
  BY <1>10, <1>11, <1>12 DEF CoreInv

\* The robot's steps.
LEMMA RobotCoreStep ==
    ASSUME TypeInv, LinkInv, CoreInv, RobotNext, UNCHANGED serverVars
    PROVE  CoreInv'
<1>0. /\ LinkTypeOK /\ toClient \in Seq(Messages)
      /\ toClient = <<>> \/ clientOpen
      /\ flow \in {"Assessment.read", "Assessment.confirm"} => ~isWaitingForAnswer
  BY DEF TypeInv, TypeOK, LinkTypeOK, LinkInv, CoreInv, TokenInv
<1>1. CASE ConnectToServer
  <2>1. pc = "start"
    BY <1>1 DEF ConnectToServer, LinkInv
  <2>. QED
    BY <1>1, <2>1, QuietStep DEF ConnectToServer, Connect
<1>2. CASE ConnectionRefused
  BY <1>2, QuietStep DEF ConnectionRefused, linkVars
<1>3. CASE Engage
  BY <1>3, QuietStep DEF Engage, linkVars
<1>4. CASE Decline
  BY <1>4, QuietStep DEF Decline, linkVars
<1>5. CASE Consent
  BY <1>5, QuietStep DEF Consent, linkVars
<1>6. CASE LastUserLeaves
  BY <1>6, QuietStep DEF LastUserLeaves, linkVars
<1>7. ASSUME NEW n \in 1 .. Len(toClient), AssessmentReads(n) PROVE CoreInv'
  <2>1. CASE Assessing
    BY <1>7, <2>1, HearsQuestion
  <2>2. CASE ~Assessing
    <3>. DEFINE m == Head(toClient)
    <3>1. m = toClient[1] /\ 1 \in 1 .. Len(toClient) /\ toClient # <<>>
      BY <1>0, <1>7, HeadOfQueue
    <3>2. m.type # "ask"
      BY <2>2, <3>1 DEF CoreInv, TokenInv, Assessing
    <3>3. m.type \notin {"ask", "followup"} =>
              questionIndex = NumQuestions /\ m.style = StyleOf(responses)
      BY <3>1 DEF CoreInv, StyleInv
    <3>4. /\ \A i \in 1 .. Len(toClient') :
                \E j \in 1 .. Len(toClient) : toClient'[i] = toClient[j]
          /\ UNCHANGED clientOpen
      <4>1. n \in 0 .. Len(toClient) /\ toClient' = SubSeq(toClient, n + 1, Len(toClient))
        BY <1>7 DEF AssessmentReads, ClientReads
      <4>2. /\ Len(toClient') = Len(toClient) - n
            /\ \A i \in 1 .. Len(toClient') : toClient'[i] = toClient[i + n]
        BY <1>0, <4>1, DropProperties
      <4>3. \A i \in 1 .. Len(toClient') : i + n \in 1 .. Len(toClient)
        BY <1>7, <4>2
      <4>. QED
        BY <1>7, <4>2, <4>3 DEF AssessmentReads, ClientReads
    <3>5. flow = "Assessment.read" /\ UNCHANGED <<given, goodbye>>
      BY <1>7 DEF AssessmentReads
    <3>6. /\ flow' \in {"Assessment.read", "Assessment.confirm"} => ~isWaitingForAnswer'
          /\ ~AskListening'
          /\ \/ currentPersonality' = currentPersonality
             \/ questionIndex = NumQuestions /\ currentPersonality' = StyleOf(responses)
      <4>1. CASE n = 1
        <5>1. HandleAssessmentMessage(m)
          BY <1>7, <4>1 DEF AssessmentReads
        <5>. HIDE DEF m
        <5>2. CASE m.type \in {"ask", "followup"}
          BY <3>2, <5>1, <5>2 DEF HandleAssessmentMessage, AskListening
        <5>3. CASE m.type \notin {"ask", "followup"}
          <6>1. /\ isWaitingForAnswer' = isWaitingForAnswer
                /\ currentPersonality' = IF m.type \in {"result", "state_change"}
                                         THEN m.style ELSE currentPersonality
            BY <5>1, <5>3 DEF HandleAssessmentMessage
          <6>. QED
            BY <1>0, <3>3, <3>5, <5>3, <6>1 DEF AskListening
        <5>. QED
          BY <5>2, <5>3
      <4>2. CASE n # 1
        BY <1>0, <1>7, <3>5, <4>2 DEF AssessmentReads, AskListening
      <4>. QED
        BY <4>1, <4>2
    <3>. HIDE DEF m
    <3>. QED
      BY <2>2, <3>4, <3>5, <3>6, LateRobotStep
  <2>. QED
    BY <2>1, <2>2
<1>8. ASSUME NEW n \in 1 .. Len(toClient), FollowUpReads(n) PROVE CoreInv'
  <2>. DEFINE m == Head(toClient)
  <2>1. m = toClient[1] /\ 1 \in 1 .. Len(toClient) /\ toClient # <<>>
    BY <1>0, <1>8, HeadOfQueue
  <2>2. ~Assessing
    BY <1>0, <1>8, <2>1 DEF FollowUpReads, CoreInv, TokenInv
  <2>3. m.type # "ask"
    BY <2>1, <2>2 DEF CoreInv, TokenInv, Assessing
  <2>4. m.type = "closing" => questionIndex = NumQuestions /\ m.style = StyleOf(responses)
    BY <2>1 DEF CoreInv, StyleInv
  <2>5. CASE n = 1 /\ m.type \in {"ask", "followup"}
    <3>1. n \in 0 .. Len(toClient) /\ toClient' = SubSeq(toClient, n + 1, Len(toClient))
      BY <1>8, <2>5 DEF FollowUpReads, ClientReads
    <3>2. /\ Len(toClient') = Len(toClient) - n
          /\ \A i \in 1 .. Len(toClient') : toClient'[i] = toClient[i + n]
      BY <1>0, <3>1, DropProperties
    <3>3. \A i \in 1 .. Len(toClient') : i + n \in 1 .. Len(toClient)
      BY <1>8, <3>2
    <3>4. \A i \in 1 .. Len(toClient') :
            \E j \in 1 .. Len(toClient) : toClient'[i] = toClient[j]
      BY <3>2, <3>3
    <3>5. /\ flow' = "FollowUp.listen"
          /\ UNCHANGED <<clientOpen, currentPersonality, given, goodbye>>
      BY <1>8, <2>5 DEF FollowUpReads, ClientReads
    <3>. QED
      BY <2>2, <3>4, <3>5, LateRobotStep DEF AskListening
  <2>6. CASE ~(n = 1 /\ m.type \in {"ask", "followup"})
    <3>1. EndConversation(IF n = 1 /\ m.type = "closing" THEN m.style ELSE "default")
      BY <1>8, <2>6 DEF FollowUpReads
    <3>2. /\ flow' = "exited" /\ toClient' = <<>> /\ ~clientOpen'
          /\ UNCHANGED <<currentPersonality, given>>
          /\ goodbye' = IF n = 1 /\ m.type = "closing" THEN m.style ELSE "default"
      BY <3>1 DEF EndConversation, ClientCloses
    <3>3. "default" \notin Styles
      BY DEF Styles
    <3>. HIDE DEF m
    <3>. QED
      BY <2>2, <2>4, <3>2, <3>3, LateRobotStep
  <2>. QED
    BY <2>5, <2>6
<1>9. CASE AssessmentReadEnds
  <2>1. ~Assessing \/ ~clientOpen
    BY <1>9 DEF AssessmentReadEnds, ClientReadEnds, LinkInv, Assessing
  <2>2. /\ toClient' = <<>> /\ UNCHANGED <<toServer, clientOpen>>
        /\ flow' \in {"FollowUp.read", "Assessment.listen"}
        /\ UNCHANGED <<isWaitingForAnswer, currentPersonality, given, goodbye>>
        /\ flow = "Assessment.read"
    BY <1>9 DEF AssessmentReadEnds, ClientDrains
  <2>. QED
    BY <1>0, <2>1, <2>2, LateRobotStep DEF AskListening
<1>10. CASE ConfirmTransition
  <2>1. /\ flow = "Assessment.confirm" /\ flow' \in {"FollowUp.read", "Assessment.listen"}
        /\ UNCHANGED <<isWaitingForAnswer, currentPersonality, given, goodbye>>
        /\ UNCHANGED <<toClient, clientOpen>>
        /\ clientOpen \/ UNCHANGED toServer
    BY <1>10 DEF ConfirmTransition, ClientCanSend, ClientSends, linkVars
  <2>2. ~Assessing \/ ~clientOpen
    BY <2>1 DEF CoreInv, TokenInv
  <2>3. \A i \in 1 .. Len(toClient') :
          \E j \in 1 .. Len(toClient) : toClient'[i] = toClient[j]
    BY <2>1
  <2>. QED
    BY <1>0, <2>1, <2>2, <2>3, LateRobotStep DEF AskListening
<1>11. CASE FollowUpReadEnds
  <2>1. /\ toClient' = <<>> /\ ~clientOpen' /\ UNCHANGED toServer /\ flow' = "exited"
        /\ UNCHANGED <<currentPersonality, given>> /\ goodbye' = "default"
    BY <1>11 DEF FollowUpReadEnds, EndConversation, ClientCloses
  <2>2. "default" \notin Styles
    BY DEF Styles
  <2>. QED
    BY <2>1, <2>2, LateRobotStep
<1>12. ASSUME NEW r \in Ratings, AnswerQuestion(r) PROVE CoreInv'
  <2>1. CASE currentQuestion.type = "ask"
    BY <1>12, <2>1, AnswersQuestion
  <2>2. CASE currentQuestion.type # "ask"
    <3>1. ~Assessing
      BY <1>12, <2>2 DEF AnswerQuestion, ClientCanSend, CoreInv, TokenInv, AskListening
    <3>2. /\ UNCHANGED <<toClient, clientOpen, currentPersonality, given, goodbye>>
          /\ flow' = "Assessment.read" /\ ~isWaitingForAnswer'
      BY <1>12, <2>2 DEF AnswerQuestion, ClientSends
    <3>3. \A i \in 1 .. Len(toClient') :
            \E j \in 1 .. Len(toClient) : toClient'[i] = toClient[j]
      BY <3>2
    <3>. QED
      BY <3>1, <3>2, <3>3, LateRobotStep DEF AskListening
  <2>. QED
    BY <2>1, <2>2
<1>13. ASSUME NEW long, AnswerFollowUp(long) PROVE CoreInv'
  <2>1. ~Assessing
    BY <1>13 DEF AnswerFollowUp, ClientCanSend, CoreInv, TokenInv
  <2>2. /\ UNCHANGED <<toClient, clientOpen, currentPersonality, given, goodbye>>
        /\ flow' = "FollowUp.read"
    BY <1>13 DEF AnswerFollowUp, ClientSends
  <2>3. \A i \in 1 .. Len(toClient') :
          \E j \in 1 .. Len(toClient) : toClient'[i] = toClient[j]
    BY <2>2
  <2>. QED
    BY <2>1, <2>2, <2>3, LateRobotStep DEF AskListening
<1>14. CASE RobotCrash
  BY <1>14, LateRobotStep DEF RobotCrash, ClientCloses
<1>. QED
  BY <1>1, <1>2, <1>3, <1>4, <1>5, <1>6, <1>7, <1>8, <1>9, <1>10, <1>11, <1>12,
     <1>13, <1>14 DEF RobotNext, RobotReads, UserAnswers

LEMMA NextCoreInv == TypeInv /\ LinkInv /\ CoreInv /\ [Next]_vars => CoreInv'
<1>. SUFFICES ASSUME TypeInv, LinkInv, CoreInv, [Next]_vars PROVE CoreInv'
  OBVIOUS
<1>1. CASE ServerNext /\ UNCHANGED robotVars
  BY <1>1, ServerCoreStep
<1>2. CASE RobotNext /\ UNCHANGED serverVars
  BY <1>2, RobotCoreStep
<1>3. CASE UNCHANGED vars
  <2>1. /\ UNCHANGED <<pc, questionIndex, responses, toClient, toServer, clientOpen>>
        /\ UNCHANGED <<flow, isWaitingForAnswer, currentPersonality, currentQuestion,
                       given, goodbye>>
    BY <1>3 DEF vars, serverVars, sessionVars, linkVars, robotVars
  <2>2. TokenInv'
    BY <2>1 DEF CoreInv, TokenInv, AskListening, Assessing
  <2>3. AnswersInv' /\ StyleInv'
    BY <2>1 DEF CoreInv, AnswersInv, StyleInv, Assessing
  <2>. QED
    BY <2>2, <2>3 DEF CoreInv
<1>. QED
  BY <1>1, <1>2, <1>3 DEF Next, Terminated

(***************************************************************************)
(* The messages of the conversation with GPT.                              *)
(***************************************************************************)

\* A call of GPT appends two messages at most, and one when it gives no reply.
LEMMA CallAppends ==
    ASSUME TypeInv, NEW outcome \in GptOutcomes, gpt_send_message(outcome)
    PROVE  /\ message_count' <= message_count + 2
           /\ ~Replied(outcome) => message_count' <= message_count + 1
<1>1. message_count \in Nat
  BY DEF TypeInv, TypeOK, ServerTypeOK
<1>. QED
  BY <1>1, AppendedBound DEF gpt_send_message

LEMMA ServerHistoryStep ==
    ASSUME TypeInv, TypeInv', CoreInv, HistoryInv, ServerNext
    PROVE  HistoryInv'
<1>0. /\ message_count \in Nat /\ questionIndex \in 0 .. NumQuestions
      /\ message_count' \in Nat /\ questionIndex' \in 0 .. NumQuestions
      /\ followup_index \in 0 .. NumFollowups /\ followup_index' \in 0 .. NumFollowups
  BY DEF TypeInv, TypeOK, ServerTypeOK
<1>. USE DEF HistoryInv
<1>1. CASE CreateSession
  BY <1>0, <1>1 DEF CreateSession, gpt_create_session, sessionVars
<1>2. CASE AskQuestion
  <2>1. PICK outcome \in GptOutcomes :
          /\ gpt_send_message(outcome)
          /\ IF outcome = "nullContent" THEN ProcessDies
             ELSE Send(Ask(questionIndex + 1, outcome # "longReply"), "readAnswer")
    BY <1>2 DEF AskQuestion
  <2>2. pc' \in {"readAnswer", "killed"}
    BY <2>1 DEF ProcessDies, Send
  <2>3. message_count' <= message_count + 2
    BY <2>1, CallAppends
  <2>4. pc = "ask" /\ UNCHANGED questionIndex
    BY <1>2 DEF AskQuestion
  <2>5. message_count' <= 3 + 2 * questionIndex
    BY <1>0, <2>3, <2>4
  <2>6. message_count' <= 3 + 2 * (NumQuestions + NumFollowups)
    BY <1>0, <2>5
  <2>. QED
    BY <1>0, <2>2, <2>4, <2>5, <2>6
<1>3. CASE ReadAnswer
  <2>1. /\ pc = "readAnswer" /\ questionIndex' = questionIndex + 1
        /\ pc' = IF questionIndex + 1 < NumQuestions THEN "ask" ELSE "sendResult"
        /\ UNCHANGED message_count
    BY <1>3, ReadsTheAnswer DEF ReadAnswer, gptVars
  <2>. QED
    BY <1>0, <2>1
<1>4. CASE LoseAnswer
  <2>1. questionIndex < NumQuestions
    BY <1>4 DEF LoseAnswer, TypeInv, LoopInv, Assessing
  <2>. QED
    BY <1>0, <1>4, <2>1 DEF LoseAnswer, sessionVars, gptVars
<1>5. CASE SendResult
  BY <1>0, <1>5 DEF SendResult, Send, ProcessDies, sessionVars, gptVars
<1>6. CASE SendTransition
  BY <1>0, <1>6 DEF SendTransition, Send, ProcessDies, sessionVars, gptVars
<1>7. CASE ReadReady
  <2>1. /\ pc = "readReady" /\ pc' \in {"cleanup", "followAsk", "staticClosing"}
        /\ UNCHANGED <<followup_index, message_count>>
    BY <1>7 DEF ReadReady, gptVars
  <2>2. followup_index = 0
    BY <2>1 DEF TypeInv, LoopInv
  <2>3. /\ message_count' <= 1 + 2 * (NumQuestions + followup_index')
        /\ message_count' <= 3 + 2 * (NumQuestions + NumFollowups)
    BY <1>0, <2>1, <2>2
  <2>. QED
    BY <2>1, <2>3
<1>8. CASE LoseReady
  BY <1>0, <1>8 DEF LoseReady, sessionVars, gptVars
<1>9. CASE AskFollowup
  <2>1. PICK outcome \in GptOutcomes :
          /\ gpt_send_message(outcome)
          /\ IF outcome = "nullContent" THEN ProcessDies
             ELSE IF Replied(outcome)
             THEN Send(Followup(followup_index + 1, outcome # "longReply"), "followRead")
             ELSE FollowupFails
    BY <1>9 DEF AskFollowup
  <2>2. /\ pc = "followAsk" /\ UNCHANGED <<questionIndex, followup_index>>
        /\ followup_index < NumFollowups
    BY <1>9 DEF AskFollowup, TypeInv, LoopInv
  <2>3. /\ pc' \in {"followRead", "killed", "gptClosing"}
        /\ message_count' <= message_count + 2
    BY <2>1, CallAppends DEF ProcessDies, Send, FollowupFails
  <2>. QED
    BY <1>0, <2>2, <2>3
<1>10. CASE ReadFollowup
  <2>1. /\ pc = "followRead" /\ followup_index' = followup_index + 1
        /\ pc' = IF followup_index + 1 < NumFollowups THEN "followAsk" ELSE "gptClosing"
        /\ UNCHANGED message_count
    BY <1>10 DEF ReadFollowup, CountFollowup, gptVars
  <2>. QED
    BY <1>0, <2>1
<1>11. CASE LoseFollowup
  <2>1. followup_index < NumFollowups
    BY <1>11 DEF LoseFollowup, TypeInv, LoopInv
  <2>. QED
    BY <1>0, <1>11, <2>1 DEF LoseFollowup, sessionVars, gptVars
<1>12. CASE GptClosing
  <2>1. PICK outcome \in GptOutcomes :
          /\ gpt_send_message(outcome)
          /\ IF outcome = "nullContent" THEN ProcessDies
             ELSE IF Replied(outcome)
             THEN Send(Closing(StyleOf(responses), outcome # "longReply"), "cleanup")
             ELSE pc' = "staticClosing" /\ UNCHANGED linkVars
    BY <1>12 DEF GptClosing
  <2>2. pc' \in {"cleanup", "staticClosing", "killed"}
    BY <2>1 DEF ProcessDies, Send
  <2>3. pc = "gptClosing" /\ message_count' <= message_count + 2
    BY <1>12, <2>1, CallAppends DEF GptClosing
  <2>4. message_count' <= 3 + 2 * (NumQuestions + NumFollowups)
    BY <1>0, <2>3
  <2>. QED
    BY <2>2, <2>4
<1>13. CASE StaticClosing
  BY <1>0, <1>13 DEF StaticClosing, Send, ProcessDies, sessionVars, gptVars
<1>14. CASE Cleanup
  BY <1>0, <1>14 DEF Cleanup, gpt_destroy_session
<1>. QED
  BY <1>1, <1>2, <1>3, <1>4, <1>5, <1>6, <1>7, <1>8, <1>9, <1>10, <1>11, <1>12,
     <1>13, <1>14 DEF ServerNext

LEMMA NextHistoryInv ==
    TypeInv /\ TypeInv' /\ CoreInv /\ HistoryInv /\ [Next]_vars => HistoryInv'
<1>. SUFFICES ASSUME TypeInv, TypeInv', CoreInv, HistoryInv, [Next]_vars
              PROVE  HistoryInv'
  OBVIOUS
<1>1. CASE ServerNext
  BY <1>1, ServerHistoryStep
<1>2. CASE UNCHANGED serverVars
  BY <1>2 DEF serverVars, sessionVars, gptVars, HistoryInv
<1>. QED
  BY <1>1, <1>2 DEF Next, Terminated, vars

(***************************************************************************)
(* The theorems.                                                           *)
(***************************************************************************)

\* The inductive invariant holds throughout: the loop bounds, what each end of
\* the connection implies of the other, where the question being asked is, and
\* the bookkeeping of answers, style and history (connection.c:68-382 with the
\* robot's flow/*.kt).
THEOREM InvariantHolds == Spec => [](TypeOK /\ IInv)
<1>. DEFINE Inv == TypeInv /\ LinkInv /\ CoreInv /\ HistoryInv
<1>1. Init => Inv
  <2>1. Init => HistoryInv
    BY DEF Init, ServerInit, GptInit, HistoryInv
  <2>. QED
    BY <2>1, InitTypeInv, InitLinkInv, InitCoreInv
<1>2. Inv /\ [Next]_vars => Inv'
  BY NextTypeInv, NextLinkInv, NextCoreInv, NextHistoryInv
<1>3. Inv => TypeOK /\ IInv
  BY DEF TypeInv, CoreInv, IInv
<1>. QED
  BY <1>1, <1>2, <1>3, PTL DEF Spec

\* The ratings the server has recorded are the person's, each under the
\* question it was given for (connection.c:176-178).
THEOREM AnswersRecorded == Spec => []AnswersAreTheUsers
<1>1. IInv => AnswersAreTheUsers
  BY DEF IInv, AnswersInv, AnswersAreTheUsers
<1>. QED
  BY <1>1, InvariantHolds, PTL

\* A finished questionnaire is recorded as the person answered it.
LEMMA FinishedMeansSame ==
    ASSUME TypeOK, AnswersInv, questionIndex = NumQuestions
    PROVE  responses = given /\ \A i \in Questions : given[i] \in Ratings
<1>1. \A i \in Questions : responses[i] = given[i] /\ given[i] \in Ratings
  BY DEF AnswersInv, Questions
<1>2. /\ responses \in [Questions -> Ratings \cup {Unanswered}]
      /\ given \in [Questions -> Ratings \cup {Unanswered}]
  BY DEF TypeOK, ServerTypeOK, RobotTypeOK
<1>3. responses = [i \in Questions |-> responses[i]] /\ given = [i \in Questions |-> given[i]]
  BY <1>2
<1>. QED
  BY <1>1, <1>3, Zenon

\* The personality a robot adopts is that of the whole questionnaire the
\* person answered (connection.c:200-240).
THEOREM ProfileCorrect == Spec => []ProfileIsTheUsers
<1>1. TypeOK /\ IInv => ProfileIsTheUsers
  BY FinishedMeansSame DEF IInv, StyleInv, ProfileIsTheUsers
<1>. QED
  BY <1>1, InvariantHolds, PTL

\* A goodbye worded by the server fits the person's own answers
\* (connection.c:332, 360-369).
THEOREM GoodbyeCorrect == Spec => []GoodbyeFitsPersonality
<1>1. TypeOK /\ IInv => GoodbyeFitsPersonality
  BY FinishedMeansSame DEF IInv, StyleInv, GoodbyeFitsPersonality
<1>. QED
  BY <1>1, InvariantHolds, PTL

\* A conversation with the robot never appends beyond the message array, when
\* the array has room for two messages per call (gpt_client.c:220-223).
THEOREM HistoryBounded == Spec => []HistoryFits
<1>1. TypeOK /\ IInv => HistoryFits
  BY DEF TypeOK, ServerTypeOK, IInv, HistoryInv, HistoryFits, HistoryRoom
<1>. QED
  BY <1>1, InvariantHolds, PTL
=============================================================================
