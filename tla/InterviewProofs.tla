-------------------------- MODULE InterviewProofs --------------------------
(***************************************************************************)
(* Proof that Conversation implements Interview, for every number of       *)
(* questions and of follow-ups and every set of faults.  The invariant of  *)
(* ConversationProofs says where the question being asked is and which     *)
(* style is under way; what is missing is that nothing has been answered   *)
(* ahead of the server, and that nobody is said goodbye to in a style      *)
(* before the robot has adopted one.                                       *)
(***************************************************************************)
EXTENDS ConversationProofs

USE NumQuestionsAssumption, GptAssumption, NumFollowupsAssumption, PeerAssumption DEF EndsInv

\* What the server has not asked yet is not answered.
PendingInv ==
    Assessing => \A i \in Questions :
        i > questionIndex \/ (i = questionIndex /\ toServer = <<>>) =>
            given[i] = Unanswered

\* The goodbye is the last thing the robot does.
PartingInv == flow # "exited" => goodbye = "none"

Conversing == pc \in {"followAsk", "followRead", "gptClosing", "staticClosing"}

\* Confirming, and whatever follows from it, comes after adopting a style.
ConfirmedInv ==
    \/ currentPersonality # ""
    \/ /\ flow # "Assessment.confirm"
       /\ ~Conversing
       /\ \A i \in 1 .. Len(toServer) : toServer[i].kind # "ready"
       /\ \A i \in 1 .. Len(toClient) : toClient[i].type # "closing"

InterviewInv == PendingInv /\ PartingInv /\ ConfirmedInv

Inv == TypeInv /\ LinkInv /\ CoreInv /\ InterviewInv

\* TypeInv in the pieces the steps below use.
LEMMA Pieces ==
    ASSUME TypeInv
    PROVE  /\ LinkTypeOK /\ ServerTypeOK /\ RobotTypeOK
           /\ toClient \in Seq(Messages) /\ toServer \in Seq(Lines)
           /\ questionIndex \in 0 .. NumQuestions
           /\ Assessing => questionIndex \in Questions
<1>1. LinkTypeOK /\ ServerTypeOK /\ RobotTypeOK /\ LoopInv
  BY DEF TypeInv, TypeOK
<1>2. toClient \in Seq(Messages) /\ toServer \in Seq(Lines)
  BY <1>1 DEF LinkTypeOK
<1>3. questionIndex \in 0 .. NumQuestions
  BY <1>1 DEF ServerTypeOK
<1>4. Assessing => questionIndex \in Questions
  BY <1>1, <1>3 DEF LoopInv, Questions
<1>. QED
  BY <1>1, <1>2, <1>3, <1>4

LEMMA NothingQueued ==
    ASSUME NEW s, s = <<>>
    PROVE  \A i \in 1 .. Len(s) : FALSE
BY EmptySeq

\* What an appended queue holds.
LEMMA WhatIsAppended ==
    ASSUME NEW S, NEW s \in Seq(S), NEW m \in S
    PROVE  \A i \in 1 .. Len(Append(s, m)) :
               Append(s, m)[i] = m \/ \E j \in 1 .. Len(s) : Append(s, m)[i] = s[j]
<1>1. \A i \in 1 .. Len(Append(s, m)) :
        Append(s, m)[i] = IF i = Len(s) + 1 THEN m ELSE s[i]
  BY AppendProperties
<1>2. \A i \in 1 .. Len(Append(s, m)) : i = Len(s) + 1 \/ i \in 1 .. Len(s)
  BY AppendProperties
<1>. QED
  BY <1>1, <1>2

LEMMA InitInterviewInv == Init => InterviewInv
<1>. SUFFICES ASSUME Init PROVE InterviewInv
  OBVIOUS
<1>1. \A i \in 1 .. Len(toClient) : FALSE
  BY EmptySeq DEF Init, LinkInit
<1>2. \A i \in 1 .. Len(toServer) : FALSE
  BY EmptySeq DEF Init, LinkInit
<1>. QED
  BY <1>1, <1>2 DEF Init, ServerInit, RobotInit, InterviewInv, PendingInv, PartingInv,
                    ConfirmedInv, Conversing

\* What is left of a queue was in it.
LEMMA LeftOver ==
    ASSUME NEW S, NEW s \in Seq(S), NEW n \in 0 .. Len(s)
    PROVE  \A i \in 1 .. Len(SubSeq(s, n + 1, Len(s))) :
               \E j \in 1 .. Len(s) : SubSeq(s, n + 1, Len(s))[i] = s[j]
<1>. DEFINE t == SubSeq(s, n + 1, Len(s))
<1>1. Len(t) = Len(s) - n /\ \A i \in 1 .. Len(t) : t[i] = s[i + n]
  BY DropProperties
<1>. HIDE DEF t
<1>2. Len(s) \in Nat
  OBVIOUS
<1>3. \A i \in 1 .. Len(t) : i + n \in 1 .. Len(s)
  BY <1>1, <1>2
<1>4. \A i \in 1 .. Len(t) : \E j \in 1 .. Len(s) : t[i] = s[j]
  BY <1>1, <1>3
<1>. QED
  BY <1>4 DEF t

(***************************************************************************)
(* The server's steps.                                                     *)
(***************************************************************************)

IsClosing(m) == m.type = "closing"

LEMMA AppendsNoClosing ==
    ASSUME LinkTypeOK, NEW m \in Messages, toClient' = Append(toClient, m), ~IsClosing(m),
           \A i \in 1 .. Len(toClient) : ~IsClosing(toClient[i])
    PROVE  \A i \in 1 .. Len(toClient') : ~IsClosing(toClient'[i])
<1>1. toClient \in Seq(Messages)
  BY DEF LinkTypeOK
<1>2. \A i \in 1 .. Len(Append(toClient, m)) :
        \/ Append(toClient, m)[i] = m
        \/ \E j \in 1 .. Len(toClient) : Append(toClient, m)[i] = toClient[j]
  BY <1>1, WhatIsAppended
<1>. QED
  BY <1>2

\* A message other than a closing confirms nothing; a closing is sent where
\* the confirmation has been read.
LEMMA SendConfirms ==
    ASSUME LinkInv, LinkTypeOK, ConfirmedInv, UNCHANGED robotVars,
           NEW m \in Messages, NEW next, Send(m, next),
           IsClosing(m) => currentPersonality # "",
           \/ currentPersonality # ""
           \/ next \notin {"followAsk", "followRead", "gptClosing", "staticClosing"}
    PROVE  ConfirmedInv'
<1>. SUFFICES ASSUME currentPersonality = "" PROVE ConfirmedInv'
  BY DEF ConfirmedInv, robotVars
<1>1. \A i \in 1 .. Len(toClient) : toClient[i].type # "closing"
  BY DEF ConfirmedInv
<1>2. CASE pc' = "killed" /\ ~clientOpen /\ toClient' = <<>> /\ toServer' = <<>>
  <2>1. /\ \A i \in 1 .. Len(toClient') : FALSE
        /\ \A i \in 1 .. Len(toServer') : FALSE
    BY <1>2, NothingQueued
  <2>. QED
    BY <1>2, <2>1 DEF ConfirmedInv, Conversing, robotVars
<1>3. CASE /\ pc' = next /\ UNCHANGED toServer
           /\ \/ clientOpen /\ toClient' = Append(toClient, m)
              \/ ~clientOpen /\ toClient' = <<>>
  <2>1. \A i \in 1 .. Len(toClient') : toClient'[i].type # "closing"
    <3>1. CASE toClient' = <<>>
      BY <3>1, NothingQueued
    <3>2. CASE toClient' = Append(toClient, m)
      BY <1>1, <3>2, AppendsNoClosing DEF IsClosing
    <3>. QED
      BY <1>3, <3>1, <3>2
  <2>. QED
    BY <1>3, <2>1 DEF ConfirmedInv, Conversing, robotVars
<1>. QED
  BY <1>2, <1>3, SendEffect

\* Nothing new in the queues, and no new way into the follow-ups.
LEMMA KeepsConfirmed ==
    ASSUME ConfirmedInv, UNCHANGED robotVars, UNCHANGED toClient,
           \A i \in 1 .. Len(toServer') :
               \E j \in 1 .. Len(toServer) : toServer'[i] = toServer[j],
           Conversing' => Conversing \/ currentPersonality # ""
    PROVE  ConfirmedInv'
BY DEF ConfirmedInv, robotVars

\* A read takes the first line and leaves lines that were there.
LEMMA ReadLeaves ==
    ASSUME TypeInv, ReadLine
    PROVE  /\ UNCHANGED toClient
           /\ 1 \in 1 .. Len(toServer) /\ buffer' = toServer[1]
           /\ \A i \in 1 .. Len(toServer') :
                  \E j \in 1 .. Len(toServer) : toServer'[i] = toServer[j]
<1>1. PICK n \in ReadSizes : ServerReads(n) /\ buffer' = Head(toServer)
  BY DEF ReadLine
<1>2. n \in 1 .. Len(toServer) /\ toServer \in Seq(Lines)
  BY Pieces DEF ReadSizes
<1>3. buffer' = toServer[1] /\ 1 \in 1 .. Len(toServer)
  BY <1>1, <1>2, HeadOfQueue
<1>4. n \in 0 .. Len(toServer) /\ toServer' = SubSeq(toServer, n + 1, Len(toServer))
  BY <1>1, <1>2 DEF ServerReads
<1>. QED
  BY <1>1, <1>2, <1>3, <1>4, LeftOver DEF ServerReads

LEMMA ServerConfirmedStep ==
    ASSUME TypeInv, LinkInv, CoreInv, ConfirmedInv, ServerNext, UNCHANGED robotVars
    PROVE  ConfirmedInv'
<1>0. LinkTypeOK /\ questionIndex \in Nat /\ StyleOf(responses) \in Styles
  BY Pieces, StyleOfIsStyle DEF ServerTypeOK
<1>1. Conversing => currentPersonality # ""
  BY DEF ConfirmedInv
<1>2. ASSUME ProcessDies PROVE ConfirmedInv'
  <2>1. pc' = "killed" /\ toServer' = <<>> /\ UNCHANGED toClient
    BY <1>2 DEF ProcessDies, ServerCloses
  <2>. QED
    BY <2>1, NothingQueued, KeepsConfirmed DEF Conversing
<1>3. CASE CreateSession
  BY <1>3, KeepsConfirmed DEF CreateSession, linkVars, Conversing
<1>4. CASE AskQuestion
  <2>a. \A whole \in BOOLEAN : Ask(questionIndex + 1, whole) \in Messages
    BY <1>0, MessageTypes
  <2>b. \A whole \in BOOLEAN : ~IsClosing(Ask(questionIndex + 1, whole))
    BY DEF IsClosing, Ask, Message
  <2>2. \/ ProcessDies
        \/ \E whole \in BOOLEAN : Send(Ask(questionIndex + 1, whole), "readAnswer")
    BY <1>4 DEF AskQuestion
  <2>3. ASSUME NEW m \in Messages, ~IsClosing(m), Send(m, "readAnswer")
        PROVE  ConfirmedInv'
    BY <1>0, <2>3, SendConfirms
  <2>. QED
    BY <1>2, <2>a, <2>b, <2>2, <2>3, Zenon
<1>5. CASE ReadAnswer
  <2>1. ~Conversing'
    BY <1>5, ReadsTheAnswer DEF Conversing
  <2>. QED
    BY <1>5, <2>1, ReadLeaves, KeepsConfirmed DEF ReadAnswer
<1>6. CASE LoseAnswer
  BY <1>6, KeepsConfirmed DEF LoseAnswer, ServerReadFails, Conversing
<1>7. CASE SendResult
  <2>1. /\ Result(StyleOf(responses)) \in Messages
        /\ ~IsClosing(Result(StyleOf(responses)))
    BY <1>0, MessageTypes DEF IsClosing, Result, Message
  <2>. QED
    BY <1>0, <1>7, <2>1, SendConfirms DEF SendResult
<1>8. CASE SendTransition
  <2>1. /\ StateChange(StyleOf(responses)) \in Messages
        /\ ~IsClosing(StateChange(StyleOf(responses)))
    BY <1>0, MessageTypes DEF IsClosing, StateChange, Message
  <2>. QED
    BY <1>0, <1>8, <2>1, SendConfirms DEF SendTransition
<1>9. CASE ReadReady
  <2>1. ReadLine /\ (Conversing' => buffer'.kind = "ready")
    BY <1>9 DEF ReadReady, Conversing
  <2>2. Conversing' => currentPersonality # ""
    BY <2>1, ReadLeaves DEF ConfirmedInv
  <2>. QED
    BY <2>1, <2>2, ReadLeaves, KeepsConfirmed
<1>10. CASE LoseReady
  BY <1>10, KeepsConfirmed DEF LoseReady, ServerReadFails, Conversing
<1>11. CASE AskFollowup \/ ReadFollowup \/ LoseFollowup \/ GptClosing \/ StaticClosing
  <2>1. Conversing
    BY <1>11 DEF AskFollowup, ReadFollowup, LoseFollowup, GptClosing, StaticClosing,
                 Conversing
  <2>. QED
    BY <1>1, <2>1 DEF ConfirmedInv, robotVars
<1>12. CASE Cleanup
  <2>1. pc' = "done" /\ toServer' = <<>> /\ UNCHANGED toClient
    BY <1>12 DEF Cleanup, ServerCloses
  <2>. QED
    BY <2>1, NothingQueued, KeepsConfirmed DEF Conversing
<1>. QED
  BY <1>3, <1>4, <1>5, <1>6, <1>7, <1>8, <1>9, <1>10, <1>11, <1>12 DEF ServerNext

LEMMA ServerPendingStep ==
    ASSUME TypeInv, LinkInv, CoreInv, PendingInv, ServerNext, UNCHANGED robotVars
    PROVE  PendingInv'
<1>0. LinkTypeOK /\ questionIndex \in 0 .. NumQuestions
  BY Pieces
<1>1. CASE CreateSession
  BY <1>1 DEF CreateSession, sessionVars, linkVars, robotVars, PendingInv, Assessing
<1>2. CASE AskQuestion
  <2>1. pc = "ask" /\ UNCHANGED questionIndex
    BY <1>2 DEF AskQuestion
  <2>2. \/ ProcessDies
        \/ \E whole \in BOOLEAN : Send(Ask(questionIndex + 1, whole), "readAnswer")
    BY <1>2 DEF AskQuestion
  <2>3. pc' = "killed" \/ UNCHANGED toServer
    BY <1>0, <2>2, SendEffect DEF ProcessDies
  <2>. QED
    BY <2>1, <2>3 DEF PendingInv, Assessing, robotVars
<1>3. CASE ReadAnswer
  <2>1. pc = "readAnswer" /\ questionIndex' = questionIndex + 1
    BY <1>3, ReadsTheAnswer DEF ReadAnswer
  <2>. QED
    BY <1>0, <2>1 DEF PendingInv, Assessing, robotVars, Questions
<1>4. CASE ~Assessing'
  BY <1>4 DEF PendingInv
<1>5. ASSUME LoseAnswer \/ SendResult \/ SendTransition \/ ReadReady \/ LoseReady
             \/ AskFollowup \/ ReadFollowup \/ LoseFollowup \/ GptClosing
             \/ StaticClosing \/ Cleanup
      PROVE  ~Assessing'
  BY <1>5 DEF LoseAnswer, SendResult, SendTransition, ReadReady, LoseReady, AskFollowup,
              FollowupFails, ReadFollowup, CountFollowup, LoseFollowup, GptClosing,
              StaticClosing, Cleanup, Send, ProcessDies, Assessing
<1>. QED
  BY <1>1, <1>2, <1>3, <1>4, <1>5 DEF ServerNext

LEMMA ServerInterviewStep ==
    ASSUME TypeInv, LinkInv, CoreInv, InterviewInv, ServerNext, UNCHANGED robotVars
    PROVE  InterviewInv'
<1>1. PartingInv'
  BY DEF InterviewInv, PartingInv, robotVars
<1>. QED
  BY <1>1, ServerConfirmedStep, ServerPendingStep DEF InterviewInv

(***************************************************************************)
(* The robot's steps.                                                      *)
(***************************************************************************)

\* What a message heard in the assessment does to the adopted style: nothing,
\* or it is adopted, from the whole questionnaire.
LEMMA HearsStyle ==
    ASSUME TypeInv, LinkInv, CoreInv, NEW n \in 1 .. Len(toClient), AssessmentReads(n)
    PROVE  /\ flow = "Assessment.read" /\ flow' # "exited"
           /\ UNCHANGED <<given, goodbye, toServer>>
           /\ \/ UNCHANGED currentPersonality
              \/ /\ questionIndex = NumQuestions
                 /\ currentPersonality' = StyleOf(responses)
           /\ flow' = "Assessment.confirm" => currentPersonality' # ""
           /\ \A i \in 1 .. Len(toClient') :
                  \E j \in 1 .. Len(toClient) : toClient'[i] = toClient[j]
<1>. DEFINE m == Head(toClient)
<1>1. toClient \in Seq(Messages) /\ m = toClient[1] /\ 1 \in 1 .. Len(toClient)
  BY Pieces, HeadOfQueue
<1>2. m.type \notin {"ask", "followup"} =>
        questionIndex = NumQuestions /\ m.style = StyleOf(responses)
  BY <1>1 DEF CoreInv, StyleInv
<1>3. StyleOf(responses) # ""
  BY StyleOfIsStyle DEF Styles
<1>4. /\ flow = "Assessment.read" /\ UNCHANGED <<given, goodbye, toServer>>
      /\ n \in 0 .. Len(toClient) /\ toClient' = SubSeq(toClient, n + 1, Len(toClient))
  BY DEF AssessmentReads, ClientReads
<1>5. \A i \in 1 .. Len(toClient') :
        \E j \in 1 .. Len(toClient) : toClient'[i] = toClient[j]
  BY <1>1, <1>4, LeftOver
<1>6. CASE n = 1
  <2>1. HandleAssessmentMessage(m)
    BY <1>6 DEF AssessmentReads
  <2>. HIDE DEF m
  <2>2. /\ flow' # "exited"
        /\ flow' = "Assessment.confirm" => m.type = "state_change"
        /\ currentPersonality' = IF m.type \in {"result", "state_change"} THEN m.style
                                 ELSE currentPersonality
    BY <2>1 DEF HandleAssessmentMessage
  <2>. QED
    BY <1>2, <1>3, <1>4, <1>5, <2>2
<1>7. CASE n # 1
  <2>1. flow' = "Assessment.listen" /\ UNCHANGED currentPersonality
    BY <1>7 DEF AssessmentReads
  <2>. QED
    BY <1>4, <1>5, <2>1
<1>. QED
  BY <1>6, <1>7

\* A rating is given for the question the server waits for, and for no other.
LEMMA RatesQuestion ==
    ASSUME TypeInv, LinkInv, CoreInv, NEW r \in Ratings, AnswerQuestion(r),
           currentQuestion.type = "ask", UNCHANGED serverVars
    PROVE  /\ Assessing /\ questionIndex \in Questions /\ toServer = <<>>
           /\ given' = [given EXCEPT ![questionIndex] = r]
           /\ toServer' = <<Rating(r, questionIndex + 1)>>
<1>1. AskListening /\ clientOpen
  BY DEF AnswerQuestion, ClientCanSend, AskListening
<1>2. /\ pc = "readAnswer" /\ toServer = <<>> /\ serverOpen
      /\ currentQuestion.num = questionIndex + 1
  BY <1>1 DEF CoreInv, TokenInv, LinkInv
<1>3. Assessing /\ questionIndex \in Questions
  BY <1>2, Pieces DEF Assessing
<1>4. currentQuestion.num - 1 = questionIndex
  BY <1>2, <1>3 DEF Questions
<1>5. /\ given' = [given EXCEPT ![currentQuestion.num - 1] = r]
      /\ toServer' = toServer \o <<Rating(r, questionIndex + 1)>>
  BY <1>2 DEF AnswerQuestion, ClientSends
<1>6. <<>> \o <<Rating(r, questionIndex + 1)>> = <<Rating(r, questionIndex + 1)>>
  OBVIOUS
<1>. QED
  BY <1>2, <1>3, <1>4, <1>5, <1>6

LEMMA RobotPendingStep ==
    ASSUME TypeInv, LinkInv, CoreInv, PendingInv, RobotNext, UNCHANGED serverVars
    PROVE  PendingInv'
<1>0. UNCHANGED <<pc, questionIndex>>
  BY DEF serverVars, sessionVars
<1>1. ASSUME UNCHANGED given, toServer' = <<>> => toServer = <<>> PROVE PendingInv'
  BY <1>0, <1>1 DEF PendingInv, Assessing
<1>3. ASSUME NEW r \in Ratings, AnswerQuestion(r) PROVE PendingInv'
  <2>1. CASE currentQuestion.type = "ask"
    <3>1. /\ Assessing /\ questionIndex \in Questions /\ toServer = <<>>
          /\ given' = [given EXCEPT ![questionIndex] = r]
          /\ toServer' = <<Rating(r, questionIndex + 1)>>
      BY <1>3, <2>1, RatesQuestion
    <3>2. toServer' # <<>>
      BY <3>1
    <3>3. \A i \in Questions : i # questionIndex => given'[i] = given[i]
      BY <3>1, Pieces DEF RobotTypeOK
    <3>. QED
      BY <1>0, <3>1, <3>2, <3>3 DEF PendingInv, Assessing, Questions
  <2>2. CASE currentQuestion.type # "ask"
    <3>1. UNCHANGED given /\ ClientCanSend
      BY <1>3, <2>2 DEF AnswerQuestion
    <3>2. ~Assessing
      BY <1>3, <2>2, <3>1 DEF AnswerQuestion, ClientCanSend, CoreInv, TokenInv, AskListening
    <3>. QED
      BY <1>0, <3>2 DEF PendingInv, Assessing
  <2>. QED
    BY <2>1, <2>2
<1>4. ASSUME NEW n \in 1 .. Len(toClient), AssessmentReads(n) PROVE PendingInv'
  BY <1>1, <1>4 DEF AssessmentReads, ClientReads
<1>5. ASSUME NEW style, EndConversation(style) PROVE PendingInv'
  BY <1>1, <1>5 DEF EndConversation, ClientCloses
<1>6. ASSUME NEW n \in 1 .. Len(toClient), FollowUpReads(n) PROVE PendingInv'
  BY <1>1, <1>5, <1>6 DEF FollowUpReads, ClientReads
<1>7. CASE ConfirmTransition
  <2>1. ~Assessing \/ ~clientOpen
    BY <1>7 DEF ConfirmTransition, CoreInv, TokenInv
  <2>2. UNCHANGED given /\ (clientOpen \/ UNCHANGED toServer)
    BY <1>7 DEF ConfirmTransition, ClientCanSend, linkVars
  <2>. QED
    BY <1>0, <1>1, <2>1, <2>2 DEF PendingInv, Assessing
<1>8. ASSUME NEW long, AnswerFollowUp(long) PROVE PendingInv'
  <2>1. ~Assessing
    BY <1>8 DEF AnswerFollowUp, ClientCanSend, CoreInv, TokenInv
  <2>. QED
    BY <1>0, <2>1 DEF PendingInv, Assessing
<1>9. ASSUME ConnectToServer \/ ConnectionRefused \/ Engage \/ Decline \/ Consent
             \/ LastUserLeaves \/ AssessmentReadEnds \/ RobotCrash
      PROVE  PendingInv'
  BY <1>1, <1>9 DEF ConnectToServer, Connect, ConnectionRefused, Engage, Decline, Consent,
                    LastUserLeaves, AssessmentReadEnds, ClientDrains, RobotCrash,
                    ClientCloses, linkVars
<1>. QED
  BY <1>3, <1>4, <1>5, <1>6, <1>7, <1>8, <1>9
     DEF RobotNext, RobotReads, UserAnswers, FollowUpReadEnds, PeerAssumption

LEMMA RobotPartingStep ==
    ASSUME PartingInv, RobotNext
    PROVE  PartingInv'
<1>1. flow' = "exited" \/ (flow # "exited" /\ UNCHANGED goodbye)
  BY DEF RobotNext, RobotReads, UserAnswers, ConnectToServer, ConnectionRefused, Engage,
         Decline, Consent, LastUserLeaves, AssessmentReads, AssessmentReadEnds,
         ConfirmTransition, FollowUpReads, FollowUpReadEnds, EndConversation,
         AnswerQuestion, AnswerFollowUp, RobotCrash
<1>. QED
  BY <1>1 DEF PartingInv

IsReady(line) == line.kind = "ready"

\* What a concatenated queue holds.
LEMMA WhatIsSent ==
    ASSUME NEW S, NEW s \in Seq(S), NEW t \in Seq(S)
    PROVE  \A i \in 1 .. Len(s \o t) :
               \/ \E j \in 1 .. Len(s) : (s \o t)[i] = s[j]
               \/ \E j \in 1 .. Len(t) : (s \o t)[i] = t[j]
<1>1. /\ Len(s) \in Nat /\ Len(t) \in Nat
      /\ Len(s \o t) = Len(s) + Len(t)
      /\ \A i \in 1 .. Len(s) + Len(t) :
             (s \o t)[i] = IF i <= Len(s) THEN s[i] ELSE t[i - Len(s)]
  BY ConcatProperties
<1>2. ASSUME NEW i \in 1 .. Len(s \o t)
      PROVE  \/ \E j \in 1 .. Len(s) : (s \o t)[i] = s[j]
             \/ \E j \in 1 .. Len(t) : (s \o t)[i] = t[j]
  <2>1. CASE i <= Len(s)
    <3>1. i \in 1 .. Len(s) /\ (s \o t)[i] = s[i]
      BY <1>1, <2>1
    <3>. QED
      BY <3>1, Zenon
  <2>2. CASE ~(i <= Len(s))
    <3>1. i - Len(s) \in 1 .. Len(t) /\ (s \o t)[i] = t[i - Len(s)]
      BY <1>1, <2>2
    <3>. QED
      BY <3>1, Zenon
  <2>. QED
    BY <2>1, <2>2
<1>. QED
  BY <1>2

\* The robot's steps that neither confirm nor adopt.
LEMMA RobotKeepsConfirmed ==
    ASSUME ConfirmedInv, UNCHANGED <<pc, currentPersonality>>, flow' # "Assessment.confirm",
           \A i \in 1 .. Len(toClient') :
               \E j \in 1 .. Len(toClient) : toClient'[i] = toClient[j],
           \A i \in 1 .. Len(toServer') :
               \/ ~IsReady(toServer'[i])
               \/ \E j \in 1 .. Len(toServer) : toServer'[i] = toServer[j]
    PROVE  ConfirmedInv'
<1>. SUFFICES ASSUME currentPersonality = "" PROVE ConfirmedInv'
  BY DEF ConfirmedInv
<1>1. /\ \A i \in 1 .. Len(toServer) : ~IsReady(toServer[i])
      /\ \A i \in 1 .. Len(toClient) : ~IsClosing(toClient[i])
      /\ ~Conversing
  BY DEF ConfirmedInv, IsReady, IsClosing
<1>2. \A i \in 1 .. Len(toServer') : ~IsReady(toServer'[i])
  BY <1>1
<1>3. \A i \in 1 .. Len(toClient') : ~IsClosing(toClient'[i])
  BY <1>1
<1>4. ~Conversing' /\ flow' # "Assessment.confirm"
  BY <1>1 DEF Conversing
<1>. QED
  BY <1>2, <1>3, <1>4 DEF ConfirmedInv, IsReady, IsClosing

\* An answer is no confirmation.
LEMMA AnswersConfirmNothing ==
    ASSUME TypeInv, NEW pieces \in Seq(Lines), ClientSends(pieces),
           \A i \in 1 .. Len(pieces) : ~IsReady(pieces[i])
    PROVE  \A i \in 1 .. Len(toServer') :
               \/ ~IsReady(toServer'[i])
               \/ \E j \in 1 .. Len(toServer) : toServer'[i] = toServer[j]
<1>1. CASE toServer' = toServer
  BY <1>1
<1>2. CASE toServer' = toServer \o pieces
  <2>1. \A i \in 1 .. Len(toServer \o pieces) :
          \/ \E j \in 1 .. Len(toServer) : (toServer \o pieces)[i] = toServer[j]
          \/ \E j \in 1 .. Len(pieces) : (toServer \o pieces)[i] = pieces[j]
    BY Pieces, WhatIsSent
  <2>. QED
    BY <1>2, <2>1
<1>. QED
  BY <1>1, <1>2 DEF ClientSends

LEMMA RobotConfirmedStep ==
    ASSUME TypeInv, LinkInv, CoreInv, ConfirmedInv, RobotNext, UNCHANGED serverVars
    PROVE  ConfirmedInv'
<1>0. UNCHANGED pc
  BY DEF serverVars
<1>1. ASSUME NEW n \in 1 .. Len(toClient), AssessmentReads(n) PROVE ConfirmedInv'
  <2>1. StyleOf(responses) # ""
    BY StyleOfIsStyle DEF Styles
  <2>2. /\ flow' = "Assessment.confirm" => currentPersonality' # ""
        /\ currentPersonality # "" => currentPersonality' # ""
        /\ UNCHANGED toServer
        /\ \A i \in 1 .. Len(toClient') :
              \E j \in 1 .. Len(toClient) : toClient'[i] = toClient[j]
    BY <1>1, <2>1, HearsStyle
  <2>. QED
    BY <1>0, <2>2 DEF ConfirmedInv, Conversing
<1>2. ASSUME NEW style, EndConversation(style) PROVE ConfirmedInv'
  <2>1. /\ UNCHANGED <<currentPersonality, toServer>> /\ flow' = "exited"
        /\ toClient' = <<>>
    BY <1>2 DEF EndConversation, ClientCloses
  <2>. QED
    BY <1>0, <2>1, NothingQueued, RobotKeepsConfirmed
<1>3. ASSUME NEW n \in 1 .. Len(toClient), FollowUpReads(n) PROVE ConfirmedInv'
  <2>1. CASE \E style : EndConversation(style)
    BY <1>2, <2>1
  <2>2. CASE ClientReads(1) /\ UNCHANGED currentPersonality /\ flow' = "FollowUp.listen"
    <3>1. /\ UNCHANGED toServer /\ toClient' = SubSeq(toClient, 1 + 1, Len(toClient))
          /\ 1 \in 0 .. Len(toClient)
      BY <1>3, <2>2, Pieces DEF ClientReads
    <3>2. \A i \in 1 .. Len(toClient') :
            \E j \in 1 .. Len(toClient) : toClient'[i] = toClient[j]
      BY <3>1, Pieces, LeftOver
    <3>. QED
      BY <1>0, <2>2, <3>1, <3>2, RobotKeepsConfirmed
  <2>. QED
    BY <1>3, <2>1, <2>2 DEF FollowUpReads
<1>4. CASE ConfirmTransition
  BY <1>4 DEF ConfirmTransition, ConfirmedInv
<1>5. ASSUME NEW r \in Ratings, AnswerQuestion(r) PROVE ConfirmedInv'
  <2>1. currentQuestion.num \in Nat
    BY Pieces, MessageParts DEF RobotTypeOK
  <2>2. /\ <<Rating(r, currentQuestion.num)>> \in Seq(Lines)
        /\ \A i \in 1 .. Len(<<Rating(r, currentQuestion.num)>>) :
              ~IsReady(<<Rating(r, currentQuestion.num)>>[i])
    BY <2>1, LineTypes DEF IsReady, Rating, Line
  <2>3. /\ UNCHANGED <<toClient, currentPersonality>> /\ flow' = "Assessment.read"
        /\ ClientSends(<<Rating(r, currentQuestion.num)>>)
    BY <1>5 DEF AnswerQuestion, ClientSends
  <2>. QED
    BY <1>0, <2>2, <2>3, AnswersConfirmNothing, RobotKeepsConfirmed
<1>6. ASSUME NEW long, AnswerFollowUp(long) PROVE ConfirmedInv'
  <2>. DEFINE num == currentQuestion.num
              pieces == IF long THEN <<Text(num, TRUE), Text(num, FALSE)>>
                        ELSE <<Text(num, FALSE)>>
  <2>1. num \in Nat
    BY Pieces, MessageParts DEF RobotTypeOK
  <2>2. pieces \in Seq(Lines)
    BY <2>1, LineTypes, ShortSeqs
  <2>3. \A i \in 1 .. Len(pieces) : ~IsReady(pieces[i])
    BY DEF IsReady, Text, Line
  <2>4. /\ UNCHANGED <<toClient, currentPersonality>> /\ flow' = "FollowUp.read"
        /\ ClientSends(pieces)
    BY <1>6 DEF AnswerFollowUp, ClientSends
  <2>. HIDE DEF pieces
  <2>. QED
    BY <1>0, <2>2, <2>3, <2>4, AnswersConfirmNothing, RobotKeepsConfirmed
<1>7. CASE AssessmentReadEnds \/ RobotCrash
  <2>1. /\ UNCHANGED <<currentPersonality, toServer>> /\ flow' # "Assessment.confirm"
        /\ toClient' = <<>>
    BY <1>7 DEF AssessmentReadEnds, ClientDrains, RobotCrash, ClientCloses
  <2>. QED
    BY <1>0, <2>1, NothingQueued, RobotKeepsConfirmed
<1>8. CASE ConnectToServer \/ ConnectionRefused \/ Engage \/ Decline \/ Consent
           \/ LastUserLeaves
  <2>1. /\ UNCHANGED <<toClient, toServer, currentPersonality>>
        /\ flow' # "Assessment.confirm"
    BY <1>8 DEF ConnectToServer, Connect, ConnectionRefused, Engage, Decline, Consent,
                LastUserLeaves, linkVars
  <2>. QED
    BY <1>0, <2>1, RobotKeepsConfirmed
<1>. QED
  BY <1>1, <1>2, <1>3, <1>4, <1>5, <1>6, <1>7, <1>8
     DEF RobotNext, RobotReads, UserAnswers, FollowUpReadEnds, PeerAssumption

(***************************************************************************)
(* The invariant, and the steps seen through the mapping.                  *)
(***************************************************************************)

LEMMA NextInterviewInv ==
    TypeInv /\ LinkInv /\ CoreInv /\ InterviewInv /\ [Next]_vars => InterviewInv'
<1>. SUFFICES ASSUME TypeInv, LinkInv, CoreInv, InterviewInv, [Next]_vars
              PROVE  InterviewInv'
  OBVIOUS
<1>1. CASE ServerNext /\ UNCHANGED robotVars
  BY <1>1, ServerInterviewStep
<1>2. CASE RobotNext /\ UNCHANGED serverVars
  BY <1>2, RobotPendingStep, RobotPartingStep, RobotConfirmedStep DEF InterviewInv
<1>3. CASE UNCHANGED vars
  <2>1. /\ UNCHANGED <<pc, questionIndex, toClient, toServer>>
        /\ UNCHANGED <<flow, currentPersonality, given, goodbye>>
    BY <1>3 DEF vars, serverVars, sessionVars, linkVars, robotVars
  <2>. QED
    BY <2>1 DEF InterviewInv, PendingInv, PartingInv, ConfirmedInv, Conversing, Assessing
<1>. QED
  BY <1>1, <1>2, <1>3 DEF Next, Terminated

\* A rating given is an answer of the interview.
LEMMA AnswerRefines ==
    ASSUME Inv, UNCHANGED serverVars, NEW r \in Ratings, AnswerQuestion(r)
    PROVE  [Interview!Next]_<<given, currentPersonality, goodbye>>
<1>0. UNCHANGED <<currentPersonality, goodbye>> /\ flow = "Assessment.listen"
  BY DEF AnswerQuestion
<1>1. CASE currentQuestion.type # "ask"
  BY <1>0, <1>1 DEF AnswerQuestion
<1>2. CASE currentQuestion.type = "ask"
  <2>1. /\ Assessing /\ questionIndex \in Questions /\ toServer = <<>>
        /\ given' = [given EXCEPT ![questionIndex] = r]
    BY <1>2, RatesQuestion DEF Inv
  <2>2. currentPersonality = ""
    <3>1. questionIndex # NumQuestions
      BY <2>1 DEF Questions
    <3>. QED
      BY <3>1 DEF Inv, CoreInv, StyleInv
  <2>3. goodbye = "none" /\ given[questionIndex] = Unanswered
    BY <1>0, <2>1 DEF Inv, InterviewInv, PartingInv, PendingInv
  <2>4. \A j \in Questions : j < questionIndex => given[j] # Unanswered
    BY DEF Inv, CoreInv, AnswersInv, Ratings, Unanswered
  <2>5. Interview!Answer(questionIndex, r)
    BY <1>0, <2>1, <2>2, <2>3, <2>4 DEF Interview!Answer
  <2>. QED
    BY <2>1, <2>5 DEF Interview!Next
<1>. QED
  BY <1>1, <1>2

\* A style is adopted once, and it is that of the person's answers.
LEMMA AdoptRefines ==
    ASSUME Inv, NEW n \in 1 .. Len(toClient), AssessmentReads(n)
    PROVE  [Interview!Next]_<<given, currentPersonality, goodbye>>
<1>1. /\ flow = "Assessment.read" /\ UNCHANGED <<given, goodbye>>
      /\ \/ UNCHANGED currentPersonality
         \/ questionIndex = NumQuestions /\ currentPersonality' = StyleOf(responses)
  BY HearsStyle DEF Inv
<1>2. CASE questionIndex = NumQuestions /\ currentPersonality' = StyleOf(responses)
  <2>1. responses = given /\ \A i \in Questions : given[i] \in Ratings
    BY <1>2, FinishedMeansSame DEF Inv, TypeInv, CoreInv
  <2>2. CASE currentPersonality = ""
    <3>1. goodbye = "none"
      BY <1>1 DEF Inv, InterviewInv, PartingInv
    <3>2. \A i \in Questions : given[i] # Unanswered
      BY <2>1 DEF Ratings, Unanswered
    <3>3. Interview!Adopt
      BY <1>1, <1>2, <2>1, <2>2, <3>1, <3>2 DEF Interview!Adopt
    <3>. QED
      BY <3>3 DEF Interview!Next
  <2>3. CASE currentPersonality # ""
    BY <1>1, <1>2, <2>3 DEF Inv, CoreInv, StyleInv
  <2>. QED
    BY <2>2, <2>3
<1>. QED
  BY <1>1, <1>2

\* Nobody is said goodbye to in a style the robot has not adopted.
LEMMA FarewellRefines ==
    ASSUME Inv, flow # "exited", NEW style \in Styles \cup {"default"},
           EndConversation(style),
           style # "default" => currentPersonality # "" /\ style = currentPersonality
    PROVE  [Interview!Next]_<<given, currentPersonality, goodbye>>
<1>1. goodbye = "none" /\ goodbye' = style /\ UNCHANGED <<given, currentPersonality>>
  BY DEF EndConversation, Inv, InterviewInv, PartingInv
<1>2. Interview!Farewell(style)
  BY <1>1 DEF Interview!Farewell
<1>. QED
  BY <1>2 DEF Interview!Next

LEMMA FollowUpRefines ==
    ASSUME Inv, NEW n \in 1 .. Len(toClient), FollowUpReads(n)
    PROVE  [Interview!Next]_<<given, currentPersonality, goodbye>>
<1>. DEFINE m == Head(toClient)
<1>1. m = toClient[1] /\ 1 \in 1 .. Len(toClient)
  BY Pieces, HeadOfQueue DEF Inv
<1>2. m.type = "closing" =>
        /\ m.style = StyleOf(responses)
        /\ currentPersonality # "" /\ currentPersonality = StyleOf(responses)
  BY <1>1 DEF Inv, InterviewInv, ConfirmedInv, CoreInv, StyleInv
<1>3. CASE n = 1 /\ m.type \in {"ask", "followup"}
  BY <1>3 DEF FollowUpReads
<1>4. CASE ~(n = 1 /\ m.type \in {"ask", "followup"})
  <2>. DEFINE style == IF n = 1 /\ m.type = "closing" THEN m.style ELSE "default"
  <2>1. EndConversation(style) /\ flow # "exited"
    BY <1>4 DEF FollowUpReads
  <2>2. StyleOf(responses) \in Styles
    BY StyleOfIsStyle
  <2>. HIDE DEF m
  <2>3. /\ style \in Styles \cup {"default"}
        /\ style # "default" => currentPersonality # "" /\ style = currentPersonality
    BY <1>2, <2>2
  <2>. HIDE DEF style
  <2>. QED
    BY <2>1, <2>3, FarewellRefines
<1>. QED
  BY <1>3, <1>4

(***************************************************************************)
(* The theorem.                                                            *)
(***************************************************************************)

\* A conversation, however disturbed, is an interview: each question answered
\* once and in turn, the style adopted once and from all the answers, and no
\* goodbye in a style other than the adopted one (connection.c:108-369 with
\* the robot's flow/*.kt).
THEOREM ConversationImplementsInterview == Spec => ImplementsInterview
<1>1. Init => Interview!Init
  BY DEF Init, RobotInit, Interview!Init
<1>2. Inv /\ [Next]_vars => [Interview!Next]_<<given, currentPersonality, goodbye>>
  <2>. SUFFICES ASSUME Inv, [Next]_vars
                PROVE  [Interview!Next]_<<given, currentPersonality, goodbye>>
    OBVIOUS
  <2>1. ASSUME RobotNext, UNCHANGED serverVars
        PROVE  [Interview!Next]_<<given, currentPersonality, goodbye>>
    <3>1. CASE \E r \in UserRatings : AnswerQuestion(r)
      BY <2>1, <3>1, AnswerRefines DEF PeerAssumption
    <3>2. CASE \E n \in 1 .. Len(toClient) : AssessmentReads(n)
      BY <3>2, AdoptRefines
    <3>3. CASE \E n \in 1 .. Len(toClient) : FollowUpReads(n)
      BY <3>3, FollowUpRefines
    <3>4. CASE FollowUpReadEnds
      BY <3>4, FarewellRefines DEF FollowUpReadEnds
    <3>5. CASE ConnectToServer \/ ConnectionRefused \/ Engage \/ Decline \/ Consent
               \/ LastUserLeaves \/ AssessmentReadEnds \/ ConfirmTransition
               \/ (\E long \in BOOLEAN : AnswerFollowUp(long)) \/ RobotCrash
      BY <3>5 DEF ConnectToServer, ConnectionRefused, Engage, Decline, Consent,
                  LastUserLeaves, AssessmentReadEnds, ConfirmTransition, AnswerFollowUp,
                  RobotCrash
    <3>. QED
      BY <2>1, <3>1, <3>2, <3>3, <3>4, <3>5 DEF RobotNext, RobotReads, UserAnswers
  <2>2. CASE UNCHANGED robotVars
    BY <2>2 DEF robotVars
  <2>. QED
    BY <2>1, <2>2 DEF Next, Terminated, vars
<1>3. Init => Inv
  BY InitTypeInv, InitLinkInv, InitCoreInv, InitInterviewInv DEF Inv
<1>4. Inv /\ [Next]_vars => Inv'
  BY NextTypeInv, NextLinkInv, NextCoreInv, NextInterviewInv DEF Inv
<1>. QED
  BY <1>1, <1>2, <1>3, <1>4, PTL DEF Spec, ImplementsInterview, Interview!Spec,
     Interview!interview
=============================================================================
