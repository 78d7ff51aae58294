---------------------------- MODULE Conversation ----------------------------
(***************************************************************************)
(* One conversation, end to end: the robot application (RobotClient), the  *)
(* server's thread (HandleClient), GPT (GptClient) and the connection      *)
(* (TcpLink), interleaved step by step.                                    *)
(***************************************************************************)
EXTENDS RobotClient

vars == <<serverVars, linkVars, robotVars>>

Init == ServerInit /\ LinkInit /\ RobotInit

\* Both programs are over; nothing else may stop.
Terminated == flow = "exited" /\ ~serverOpen /\ UNCHANGED vars

\* What the conversation promises, seen in the person's ratings, the robot's
\* adopted style and its goodbye.
Interview == INSTANCE Interview
    WITH answers <- given, profile <- currentPersonality, farewell <- goodbye

Next ==
    \/ ServerNext /\ UNCHANGED robotVars
    \/ RobotNext /\ UNCHANGED serverVars
    \/ Terminated

Spec == Init /\ [][Next]_vars

\* The thread is scheduled and its GPT calls return (30 s at most); the robot
\* reads what has come; the person, once in the conversation, keeps answering.
FairSpec ==
    /\ Spec
    /\ WF_vars(ServerNext /\ UNCHANGED robotVars)
    /\ WF_vars(RobotReads /\ UNCHANGED serverVars)
    /\ WF_vars(UserAnswers /\ UNCHANGED serverVars)

----------------------------------------------------------------------------
TypeOK == ServerTypeOK /\ LinkTypeOK /\ RobotTypeOK

(* The inductive invariant, in named parts. *)

\* Before the robot connects nothing has happened on the connection.
LinkInv ==
    /\ EndsInv
    /\ flow = "Init" =>
           /\ pc = "start" /\ ~serverOpen /\ ~clientOpen
           /\ serverErr = "none" /\ clientErr = "none"

AskListening ==
    flow = "Assessment.listen" /\ isWaitingForAnswer /\ currentQuestion.type = "ask"

\* At most one trace of the question being asked is anywhere: the question on
\* its way, the robot listening, or the answer on its way.
TokenInv ==
    /\ \A i \in 1 .. Len(toClient) : toClient[i].type = "ask" =>
           /\ pc = "readAnswer" /\ toServer = <<>>
           /\ toClient[i].num = questionIndex + 1
    /\ Assessing /\ toClient # <<>> =>
           Len(toClient) = 1 /\ toClient[1].type = "ask" /\ ~AskListening
    /\ AskListening /\ clientOpen =>
           /\ pc = "readAnswer" /\ toServer = <<>> /\ toClient = <<>>
           /\ currentQuestion.num = questionIndex + 1
    /\ Assessing /\ toServer # <<>> =>
           /\ pc = "readAnswer" /\ toClient = <<>> /\ Len(toServer) = 1
           /\ given[questionIndex] \in Ratings
           /\ toServer[1] = Rating(given[questionIndex], questionIndex + 1)
    /\ Assessing /\ clientOpen =>
           flow \notin {"Assessment.confirm", "FollowUp.read", "FollowUp.listen"}
    /\ Assessing /\ clientOpen /\ flow = "Assessment.listen" /\ isWaitingForAnswer =>
           AskListening
    /\ flow \in {"Assessment.read", "Assessment.confirm"} => ~isWaitingForAnswer

AnswersInv ==
    \A i \in Questions : i < questionIndex =>
        responses[i] = given[i] /\ given[i] \in Ratings

\* A style that reached the robot is the style of a finished questionnaire.
StyleInv ==
    /\ clientOpen /\ ~Assessing => questionIndex = NumQuestions \/ pc = "killed"
    /\ \A i \in 1 .. Len(toClient) : toClient[i].type \notin {"ask", "followup"} =>
           questionIndex = NumQuestions /\ toClient[i].style = StyleOf(responses)
    /\ currentPersonality # "" =>
           questionIndex = NumQuestions /\ currentPersonality = StyleOf(responses)
    /\ goodbye \in Styles =>
           questionIndex = NumQuestions /\ goodbye = StyleOf(responses)

\* Two messages per GPT call made so far, at most.
HistoryInv ==
    /\ pc = "ask" => message_count <= 1 + 2 * questionIndex
    /\ pc = "readAnswer" => message_count <= 3 + 2 * questionIndex
    /\ pc \in {"sendResult", "sendTransition", "readReady"} =>
           message_count <= 1 + 2 * NumQuestions
    /\ pc = "followAsk" => message_count <= 1 + 2 * (NumQuestions + followup_index)
    /\ pc = "followRead" => message_count <= 3 + 2 * (NumQuestions + followup_index)
    /\ pc = "gptClosing" => message_count <= 1 + 2 * (NumQuestions + NumFollowups)
    /\ message_count <= 3 + 2 * (NumQuestions + NumFollowups)

IInv == LoopInv /\ LinkInv /\ TokenInv /\ AnswersInv /\ StyleInv /\ HistoryInv

----------------------------------------------------------------------------
\* The ratings the server has recorded are those the person gave, each under
\* the question it was given for, whatever the robot, the person, GPT or the
\* connection did meanwhile (connection.c:176-178).
AnswersAreTheUsers ==
    \A i \in Questions : i < questionIndex => responses[i] = given[i]

\* A robot that has adopted a personality adopted that of a whole
\* questionnaire, the one this person answered: the result the server computes
\* from an unfinished one (connection.c:200-240, after the break at 169) never
\* reaches it.
ProfileIsTheUsers ==
    currentPersonality # "" =>
        /\ \A i \in Questions : given[i] \in Ratings
        /\ currentPersonality = StyleOf(given)

\* A goodbye worded by the server fits the person's own answers
\* (connection.c:332, 360-369).
GoodbyeFitsPersonality == goodbye \in Styles => goodbye = StyleOf(given)

\* The conversation implements Interview: nobody is asked for an answer twice or
\* out of turn, whatever is lost or broken on the way, the style is adopted
\* once, from all the answers, and a goodbye worded by the server meets a robot
\* that has already adopted that style (connection.c:108-180, 229-240, 332-369).
ImplementsInterview == Interview!Spec

\* A conversation with the robot, which sends ratings only, never appends
\* beyond the session's message array (gpt_client.c:220-223), provided the
\* array has room for two messages per GPT call of the conversation.
HistoryRoom == MaxHistory >= 1 + 2 * (NumQuestions + NumFollowups + 1)
HistoryFits == HistoryRoom => message_count <= MaxHistory

\* A prompt quotes the reply to the question just before it: the next question
\* of the assessment, the next follow-up, and the closing once a follow-up has
\* been answered (gpt_client.c:191, connection.c:121-124, 281-283, 332).
PromptQuotesLastAnswer ==
    /\ pc = "readAnswer" /\ gpt_session /\ questionIndex > 0 =>
           quoted = Rating(responses[questionIndex - 1], questionIndex)
    /\ pc = "followRead" /\ followup_index > 0 => quoted = Text(followup_index, FALSE)
    /\ pc = "cleanup" /\ gpt_session /\ followup_index > 0 =>
           quoted = Text(followup_index, FALSE)

\* The closing prompt quotes something the person said
\* ("[ultima_risposta:testo]", gpt_prompt.txt:19): false, when the first
\* follow-up call fails the buffer still holds the confirmation
\* READY_FOR_FOLLOWUP (connection.c:252, 292, 332).
ClosingQuotesTheUser ==
    pc = "cleanup" /\ gpt_session => quoted.kind # "ready"

\* The k-th follow-up reply the server counts is the reply to its k-th
\* follow-up question (connection.c:309-321): false, because a spoken answer
\* longer than one read is counted as the reply to the next question as well.
FollowupAnswersMatch ==
    pc \in {"followAsk", "gptClosing"} /\ followup_index > 0 =>
        buffer.num = followup_index

\* The server's thread waits for the robot, while the robot waits for the
\* server, and nothing is under way: read() has no time-out on either side.
ServerWaits == /\ pc \in {"readAnswer", "readReady", "followRead"}
               /\ toServer = <<>> /\ clientOpen /\ serverErr = "none"
RobotWaits  == /\ flow \in {"Assessment.read", "FollowUp.read"}
               /\ ~LineWaits /\ ~ClientReadEnds
NoMutualWait == ~(ServerWaits /\ RobotWaits)

\* A client that goes away ends its own session, and a GPT that answers badly
\* makes the questions static; neither ends the process with all the other
\* sessions in it (connection.c:140, 157, README.md:21-22).  False of both.
ServerSurvives == pc # "killed"

\* A person who has consented and keeps answering is led to a goodbye, and the
\* server's thread ends (README.md:118-122).
ConversationEnds == flow = "Assessment.read" ~> flow = "exited" /\ pc = "done"

\* A thread whose client is gone ends (connection.c:154-170, 251-255, 309-313).
ThreadEnds == ~clientOpen /\ serverOpen ~> ~serverOpen
=============================================================================
