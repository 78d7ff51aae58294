----------------------------- MODULE TurnProofs -----------------------------
(***************************************************************************)
(* Two layers above ConversationProofs, which says where a question is     *)
(* while the assessment lasts.                                             *)
(*                                                                         *)
(* Whose turn it is: robot and server never wait for each other when       *)
(* nobody leaves and no message loses its newline, for every number of     *)
(* questions and of follow-ups, whatever else fails.  The two ways to a    *)
(* mutual wait that TLC finds are the only ones.                           *)
(*                                                                         *)
(* Which reply a prompt quotes: the one to the question just before, and   *)
(* the k-th follow-up is answered by the k-th reply, when every spoken     *)
(* answer fits into one read, whatever else fails.                         *)
(***************************************************************************)
EXTENDS InterviewProofs

USE DEF EndsInv

Staying == "leave" \notin PeerFaults /\ "longReply" \notin GptFaults

WholeInv == \A i \in 1 .. Len(toClient) : toClient[i].whole

\* A robot that listens has been asked.
HeardInv ==
    clientOpen /\ serverOpen /\ flow = "Assessment.listen" => isWaitingForAnswer

\* The server waits for an answer: the question is on its way or in the robot,
\* or the answer is under way.
AnsweringInv ==
    clientOpen /\ pc = "readAnswer" =>
        IF toServer = <<>> THEN toClient # <<>> \/ AskListening
        ELSE flow = "Assessment.read"

\* The robot waits for the result while the server works on it.
ResultInv ==
    clientOpen =>
        /\ pc = "sendResult" =>
               flow = "Assessment.read" /\ toServer = <<>> /\ toClient = <<>>
        /\ pc = "sendTransition" =>
               /\ flow = "Assessment.read" /\ toServer = <<>>
               /\ \A i \in 1 .. Len(toClient) : toClient[i].type = "result"

\* The state_change is on its way, the robot is about to confirm it, or has.
Announced ==
    /\ flow = "Assessment.read" /\ toServer = <<>> /\ toClient # <<>>
    /\ \A i \in 1 .. Len(toClient) :
           toClient[i].type = IF i = Len(toClient) THEN "state_change" ELSE "result"
Confirming == flow = "Assessment.confirm" /\ toServer = <<>> /\ toClient = <<>>
Confirmed  == flow = "FollowUp.read" /\ toServer = <<Ready>> /\ toClient = <<>>

ConfirmationInv ==
    clientOpen /\ pc = "readReady" => Announced \/ Confirming \/ Confirmed

\* The server waits for the reply to a follow-up.
FollowInv ==
    clientOpen =>
        /\ pc \in {"followAsk", "followRead"} => flow \in {"FollowUp.read", "FollowUp.listen"}
        /\ pc = "followRead" /\ toServer = <<>> => toClient # <<>> \/ flow = "FollowUp.listen"

TurnInv == /\ WholeInv /\ HeardInv /\ AnsweringInv
           /\ ResultInv /\ ConfirmationInv /\ FollowInv

LEMMA InitTurnInv == Init => TurnInv
<1>. SUFFICES ASSUME Init PROVE TurnInv
  OBVIOUS
<1>1. \A i \in 1 .. Len(toClient) : FALSE
  BY EmptySeq DEF Init, LinkInit
<1>. QED
  BY <1>1 DEF Init, LinkInit, TurnInv, WholeInv, HeardInv, AnsweringInv, ResultInv,
              ConfirmationInv, FollowInv

\* With both ends open nothing is broken.
LEMMA Unbroken ==
    ASSUME LinkInv, clientOpen
    PROVE  /\ serverErr = "none"
           /\ serverOpen => clientErr = "none"
           /\ pc \notin {"start", "done", "killed"} => serverOpen
BY DEF LinkInv

\* A queue whose messages are whole gives its first message to a read.
LEMMA ReadsOne ==
    ASSUME TypeInv, WholeInv, NEW n, LineEnds(n), ClientReads(n)
    PROVE  /\ n = 1 /\ toClient # <<>> /\ 1 \in 1 .. Len(toClient)
           /\ Head(toClient) = toClient[1]
           /\ Len(toClient') = Len(toClient) - 1
           /\ \A i \in 1 .. Len(toClient') :
                  i + 1 \in 1 .. Len(toClient) /\ toClient'[i] = toClient[i + 1]
           /\ WholeInv'
           /\ UNCHANGED <<toServer, serverOpen, clientOpen, serverErr, clientErr>>
<1>1. toClient \in Seq(Messages) /\ n \in 1 .. Len(toClient)
  BY Pieces DEF LineEnds
<1>2. Len(toClient) \in Nat /\ 1 \in 1 .. Len(toClient)
  BY <1>1
<1>3. n = 1
  <2>1. CASE n # 1
    <3>1. 1 \in 1 .. n - 1
      BY <1>1, <2>1
    <3>. QED
      BY <1>2, <3>1, Zenon DEF LineEnds, WholeInv
  <2>. QED
    BY <2>1
<1>4. Head(toClient) = toClient[1] /\ toClient # <<>>
  BY <1>1, HeadOfQueue
<1>5. toClient' = SubSeq(toClient, 1 + 1, Len(toClient)) /\ 1 \in 0 .. Len(toClient)
  BY <1>2, <1>3 DEF ClientReads
<1>6. /\ Len(toClient') = Len(toClient) - 1
      /\ \A i \in 1 .. Len(toClient') : toClient'[i] = toClient[i + 1]
  BY <1>1, <1>5, DropProperties
<1>7. \A i \in 1 .. Len(toClient') : i + 1 \in 1 .. Len(toClient)
  BY <1>2, <1>6
<1>8. WholeInv'
  BY <1>6, <1>7 DEF WholeInv
<1>. QED
  BY <1>2, <1>3, <1>4, <1>6, <1>7, <1>8 DEF ClientReads

\* Whole messages, none of them left to read: the queue is empty.
LEMMA NoLineNoMessage ==
    ASSUME TypeInv, WholeInv, ~LineWaits
    PROVE  toClient = <<>>
<1>1. toClient \in Seq(Messages)
  BY Pieces
<1>2. CASE toClient # <<>>
  <2>1. 1 \in 1 .. Len(toClient)
    BY <1>1, <1>2, EmptySeq
  <2>. QED
    BY <2>1 DEF LineWaits, WholeInv
<1>. QED
  BY <1>2

(***************************************************************************)
(* The server's steps.                                                     *)
(***************************************************************************)

\* A message that is sent reaches a client that is there; what is sent is
\* whole, and the robot's turn does not change with it.
LEMMA SendTurn ==
    ASSUME TypeInv, LinkInv, WholeInv, NEW m \in Messages, m.whole, NEW next, Send(m, next)
    PROVE  /\ WholeInv' /\ UNCHANGED clientOpen
           /\ clientOpen => /\ pc' = next /\ UNCHANGED toServer
                            /\ toClient' = Append(toClient, m) /\ toClient' # <<>>
                            /\ Len(toClient') = Len(toClient) + 1
                            /\ \A i \in 1 .. Len(toClient') :
                                 toClient'[i] = IF i = Len(toClient') THEN m ELSE toClient[i]
<1>0. LinkTypeOK /\ toClient \in Seq(Messages)
  BY Pieces
<1>1. \/ ~clientOpen /\ toClient' = <<>>
      \/ /\ pc' = next /\ UNCHANGED toServer
         /\ clientOpen /\ toClient' = Append(toClient, m)
  BY <1>0, SendEffect
<1>2. UNCHANGED clientOpen
  BY <1>0, SendEffect
<1>3. CASE ~clientOpen /\ toClient' = <<>>
  <2>1. \A i \in 1 .. Len(toClient') : FALSE
    BY <1>3, NothingQueued
  <2>. QED
    BY <1>2, <1>3, <2>1 DEF WholeInv
<1>4. CASE pc' = next /\ UNCHANGED toServer /\ clientOpen /\ toClient' = Append(toClient, m)
  <2>1. /\ Len(toClient') = Len(toClient) + 1 /\ toClient' # <<>>
        /\ \A i \in 1 .. Len(toClient') :
             toClient'[i] = IF i = Len(toClient') THEN m ELSE toClient[i]
    BY <1>0, <1>4, AppendProperties, EmptySeq
  <2>2. \A i \in 1 .. Len(toClient') : i = Len(toClient') \/ i \in 1 .. Len(toClient)
    BY <1>0, <2>1
  <2>3. WholeInv'
    BY <2>1, <2>2 DEF WholeInv
  <2>. QED
    BY <1>2, <1>4, <2>1, <2>3
<1>. QED
  BY <1>1, <1>3, <1>4

\* The messages the server builds are whole when GPT's replies are short.
LEMMA SentWhole ==
    /\ \A num \in Nat : Ask(num, TRUE).whole /\ Ask(num, TRUE).type = "ask"
    /\ \A num \in Nat : Followup(num, TRUE).whole
    /\ \A style \in Styles :
          /\ Result(style).whole /\ Result(style).type = "result"
          /\ StateChange(style).whole /\ StateChange(style).type = "state_change"
          /\ Closing(style, TRUE).whole
BY DEF Ask, Followup, Result, StateChange, Closing, Message

\* No step of the server opens a socket or touches the client's.
LEMMA ServerLeavesEnds ==
    ASSUME ServerNext
    PROVE  UNCHANGED clientOpen /\ (serverOpen' => serverOpen)
<1>1. ASSUME NEW m, NEW next, Send(m, next) \/ ProcessDies
      PROVE  UNCHANGED clientOpen /\ (serverOpen' => serverOpen)
  BY <1>1 DEF Send, ProcessDies, ServerSends, ServerCloses
<1>2. ASSUME ReadLine \/ ServerReadFails \/ ServerCloses \/ UNCHANGED linkVars
      PROVE  UNCHANGED clientOpen /\ (serverOpen' => serverOpen)
  BY <1>2 DEF ReadLine, ServerReads, ServerReadFails, ServerCloses, linkVars
<1>3. CASE AskQuestion \/ SendResult \/ SendTransition \/ AskFollowup \/ GptClosing
           \/ StaticClosing
  BY <1>1, <1>2, <1>3, Zenon DEF AskQuestion, SendResult, SendTransition, AskFollowup,
     FollowupFails, GptClosing, StaticClosing
<1>4. CASE CreateSession \/ ReadAnswer \/ LoseAnswer \/ ReadReady \/ LoseReady
           \/ ReadFollowup \/ LoseFollowup \/ Cleanup
  BY <1>2, <1>4, Zenon DEF CreateSession, ReadAnswer, LoseAnswer, ReadReady, LoseReady,
     ReadFollowup, LoseFollowup, Cleanup
<1>. QED
  BY <1>3, <1>4 DEF ServerNext

\* Away from its reads and from what leads up to them the server owes nothing.
LEMMA ElsewhereTurn ==
    ASSUME TurnInv, ServerNext, UNCHANGED robotVars, WholeInv',
           clientOpen => pc' \notin {"readAnswer", "sendResult", "sendTransition",
                                     "readReady", "followAsk", "followRead"}
    PROVE  TurnInv'
BY ServerLeavesEnds DEF TurnInv, HeardInv, AnsweringInv, ResultInv, ConfirmationInv,
                        FollowInv, robotVars

\* The one line in the queue is read, and nothing is left.
LEMMA ReadsOnly ==
    ASSUME TypeInv, NEW line \in Lines, toServer = <<line>>, ReadLine
    PROVE  toServer' = <<>> /\ buffer' = line /\ UNCHANGED toClient
<1>1. PICK n \in ReadSizes : ServerReads(n) /\ buffer' = Head(toServer)
  BY DEF ReadLine
<1>2. Len(toServer) = 1 /\ n \in 1 .. Len(toServer) /\ n = 1
  BY <1>1 DEF ReadSizes
<1>3. toServer' = SubSeq(toServer, 2, 1)
  BY <1>1, <1>2 DEF ServerReads
<1>4. SubSeq(toServer, 2, 1) = <<>>
  BY SubSeqEmpty, Pieces
<1>5. Head(toServer) = line
  BY ShortSeqs
<1>. QED
  BY <1>1, <1>3, <1>4, <1>5 DEF ServerReads

\* Where the assessment goes on or ends.
LEMMA AssessmentTurn ==
    ASSUME Staying, TypeInv, LinkInv, CoreInv, TurnInv, UNCHANGED robotVars,
           CreateSession \/ AskQuestion \/ ReadAnswer \/ LoseAnswer
    PROVE  TurnInv'
<1>0. ServerNext /\ questionIndex + 1 \in Nat
  BY Pieces DEF ServerNext
<1>1. CASE CreateSession
  <2>1. pc' = "ask" /\ UNCHANGED toClient
    BY <1>1 DEF CreateSession, linkVars
  <2>. QED
    BY <1>0, <2>1, ElsewhereTurn DEF TurnInv, WholeInv
<1>2. CASE AskQuestion
  <2>1. \/ ProcessDies
        \/ Send(Ask(questionIndex + 1, TRUE), "readAnswer")
    BY <1>2 DEF AskQuestion, GptOutcomes, Staying
  <2>2. CASE ProcessDies
    BY <1>0, <2>2, ElsewhereTurn DEF ProcessDies, ServerCloses, TurnInv, WholeInv
  <2>3. CASE Send(Ask(questionIndex + 1, TRUE), "readAnswer")
    <3>1. /\ Ask(questionIndex + 1, TRUE) \in Messages
          /\ Ask(questionIndex + 1, TRUE).whole
      BY <1>0, MessageTypes, SentWhole, Zenon
    <3>2. /\ WholeInv' /\ UNCHANGED clientOpen
          /\ clientOpen => pc' = "readAnswer" /\ UNCHANGED toServer /\ toClient' # <<>>
      BY <2>3, <3>1, SendTurn DEF TurnInv
    <3>3. CASE ~clientOpen
      BY <1>0, <3>2, <3>3, ElsewhereTurn
    <3>4. CASE clientOpen
      <4>1. toServer = <<>>
        BY <1>2 DEF AskQuestion, CoreInv, TokenInv, Assessing
      <4>. QED
        BY <1>0, <3>2, <3>4, <4>1, ServerLeavesEnds
           DEF TurnInv, HeardInv, AnsweringInv, ResultInv, ConfirmationInv, FollowInv,
               robotVars
    <3>. QED
      BY <3>3, <3>4
  <2>. QED
    BY <2>1, <2>2, <2>3
<1>3. CASE ReadAnswer
  <2>1. /\ toClient = <<>> /\ toServer' = <<>> /\ pc = "readAnswer"
        /\ pc' \in {"ask", "sendResult"}
    BY <1>3, ReadsTheAnswer DEF ReadAnswer
  <2>2. toServer # <<>> /\ UNCHANGED <<toClient, clientOpen>>
    BY <1>3, ReadLineLink, Pieces DEF ReadAnswer
  <2>3. clientOpen => flow = "Assessment.read"
    BY <2>1, <2>2 DEF TurnInv, AnsweringInv
  <2>4. WholeInv'
    BY <2>2 DEF TurnInv, WholeInv
  <2>. QED
    BY <1>0, <2>1, <2>2, <2>3, <2>4, ServerLeavesEnds
       DEF TurnInv, HeardInv, AnsweringInv, ResultInv, ConfirmationInv, FollowInv, robotVars
<1>4. CASE LoseAnswer
  <2>1. ~clientOpen /\ UNCHANGED toClient
    BY <1>4, Unbroken DEF LoseAnswer, ServerReadFails
  <2>. QED
    BY <1>0, <2>1, ElsewhereTurn DEF TurnInv, WholeInv
<1>. QED
  BY <1>1, <1>2, <1>3, <1>4

\* From the result to the confirmation.
LEMMA ConfirmationTurn ==
    ASSUME TypeInv, LinkInv, CoreInv, TurnInv, UNCHANGED robotVars,
           SendResult \/ SendTransition \/ ReadReady \/ LoseReady
    PROVE  TurnInv'
<1>0. ServerNext /\ StyleOf(responses) \in Styles /\ toClient \in Seq(Messages)
  BY Pieces, StyleOfIsStyle DEF ServerNext
<1>. DEFINE result == Result(StyleOf(responses))
            change == StateChange(StyleOf(responses))
<1>00. /\ result \in Messages /\ result.whole /\ result.type = "result"
       /\ change \in Messages /\ change.whole /\ change.type = "state_change"
  BY <1>0, MessageTypes, SentWhole, Zenon
<1>1. CASE SendResult
  <2>1. pc = "sendResult" /\ Send(result, "sendTransition")
    BY <1>1 DEF SendResult
  <2>. HIDE DEF result
  <2>2. /\ WholeInv' /\ UNCHANGED clientOpen
        /\ clientOpen => /\ pc' = "sendTransition" /\ UNCHANGED toServer
                         /\ Len(toClient') = Len(toClient) + 1
                         /\ \A i \in 1 .. Len(toClient') :
                              toClient'[i] = IF i = Len(toClient') THEN result ELSE toClient[i]
    BY <1>00, <2>1, SendTurn DEF TurnInv
  <2>3. CASE ~clientOpen
    BY <1>0, <2>2, <2>3, ElsewhereTurn
  <2>4. CASE clientOpen
    <3>1. flow = "Assessment.read" /\ toServer = <<>> /\ toClient = <<>>
      BY <2>1, <2>4 DEF TurnInv, ResultInv
    <3>2. Len(toClient) = 0
      BY <3>1
    <3>3. Len(toClient') = Len(toClient) + 1
      BY <2>2, <2>4, Zenon
    <3>4. \A i \in 1 .. Len(toClient') : toClient'[i] = result
      <4>1. TAKE i \in 1 .. Len(toClient')
      <4>2. i = Len(toClient')
        BY <3>2, <3>3
      <4>. QED
        BY <2>2, <2>4, <4>2, Zenon
    <3>5. \A i \in 1 .. Len(toClient') : toClient'[i].type = "result"
      BY <1>00, <3>4, Zenon
    <3>. QED
      BY <1>0, <2>2, <2>4, <3>1, <3>5, ServerLeavesEnds
         DEF TurnInv, HeardInv, AnsweringInv, ResultInv, ConfirmationInv, FollowInv,
             robotVars
  <2>. QED
    BY <2>3, <2>4
<1>2. CASE SendTransition
  <2>1. pc = "sendTransition" /\ Send(change, "readReady")
    BY <1>2 DEF SendTransition
  <2>. HIDE DEF change
  <2>2. /\ WholeInv' /\ UNCHANGED clientOpen
        /\ clientOpen => /\ pc' = "readReady" /\ UNCHANGED toServer /\ toClient' # <<>>
                         /\ Len(toClient') = Len(toClient) + 1
                         /\ \A i \in 1 .. Len(toClient') :
                              toClient'[i] = IF i = Len(toClient') THEN change ELSE toClient[i]
    BY <1>00, <2>1, SendTurn DEF TurnInv
  <2>3. CASE ~clientOpen
    BY <1>0, <2>2, <2>3, ElsewhereTurn
  <2>4. CASE clientOpen
    <3>1. /\ flow = "Assessment.read" /\ toServer = <<>>
          /\ \A i \in 1 .. Len(toClient) : toClient[i].type = "result"
      BY <2>1, <2>4 DEF TurnInv, ResultInv
    <3>2. \A i \in 1 .. Len(toClient') : i = Len(toClient') \/ i \in 1 .. Len(toClient)
      BY <1>0, <2>2, <2>4
    <3>3. \A i \in 1 .. Len(toClient') :
            toClient'[i].type = IF i = Len(toClient') THEN "state_change" ELSE "result"
      BY <1>00, <2>2, <2>4, <3>1, <3>2
    <3>4. Announced'
      BY <2>2, <2>4, <3>1, <3>3 DEF Announced, robotVars
    <3>. QED
      BY <1>0, <2>2, <2>4, <3>1, <3>4, ServerLeavesEnds
         DEF TurnInv, HeardInv, AnsweringInv, ResultInv, ConfirmationInv, FollowInv,
             robotVars
  <2>. QED
    BY <2>3, <2>4
<1>3. CASE ReadReady
  <2>1. /\ pc = "readReady" /\ ReadLine
        /\ pc' \in {"followAsk", "staticClosing", "cleanup"}
    BY <1>3 DEF ReadReady
  <2>2. toServer # <<>> /\ UNCHANGED <<toClient, clientOpen>>
    BY <2>1, ReadLineLink, Pieces
  <2>3. WholeInv'
    BY <2>2 DEF TurnInv, WholeInv
  <2>4. clientOpen => Confirmed
    BY <2>1, <2>2 DEF TurnInv, ConfirmationInv, Announced, Confirming
  <2>. QED
    BY <1>0, <2>1, <2>2, <2>3, <2>4, ServerLeavesEnds
       DEF TurnInv, HeardInv, AnsweringInv, ResultInv, ConfirmationInv, FollowInv,
           Confirmed, robotVars
<1>4. CASE LoseReady
  <2>1. pc' = "cleanup" /\ UNCHANGED toClient
    BY <1>4 DEF LoseReady, ServerReadFails
  <2>. QED
    BY <1>0, <2>1, ElsewhereTurn DEF TurnInv, WholeInv
<1>. QED
  BY <1>1, <1>2, <1>3, <1>4

\* The follow-ups and what comes after them.
LEMMA FollowupTurn ==
    ASSUME Staying, TypeInv, LinkInv, CoreInv, TurnInv, UNCHANGED robotVars,
           \/ AskFollowup \/ ReadFollowup \/ LoseFollowup
           \/ GptClosing \/ StaticClosing \/ Cleanup
    PROVE  TurnInv'
<1>0. /\ ServerNext /\ StyleOf(responses) \in Styles /\ followup_index + 1 \in Nat
  BY Pieces, StyleOfIsStyle DEF ServerNext, ServerTypeOK
<1>1. ASSUME ProcessDies PROVE TurnInv'
  BY <1>0, <1>1, ElsewhereTurn DEF ProcessDies, ServerCloses, TurnInv, WholeInv
<1>2. CASE AskFollowup
  <2>1. \/ ProcessDies
        \/ Send(Followup(followup_index + 1, TRUE), "followRead")
        \/ pc' = "gptClosing" /\ UNCHANGED toClient
    BY <1>2 DEF AskFollowup, FollowupFails, GptOutcomes, Staying, linkVars
  <2>2. CASE pc' = "gptClosing" /\ UNCHANGED toClient
    BY <1>0, <2>2, ElsewhereTurn DEF TurnInv, WholeInv
  <2>3. CASE Send(Followup(followup_index + 1, TRUE), "followRead")
    <3>1. /\ Followup(followup_index + 1, TRUE) \in Messages
          /\ Followup(followup_index + 1, TRUE).whole
      BY <1>0, MessageTypes, SentWhole, Zenon
    <3>2. /\ WholeInv' /\ UNCHANGED clientOpen
          /\ clientOpen => pc' = "followRead" /\ UNCHANGED toServer /\ toClient' # <<>>
      BY <2>3, <3>1, SendTurn DEF TurnInv
    <3>3. clientOpen => flow \in {"FollowUp.read", "FollowUp.listen"}
      BY <1>2 DEF AskFollowup, TurnInv, FollowInv
    <3>4. CASE ~clientOpen
      BY <1>0, <3>2, <3>4, ElsewhereTurn
    <3>. QED
      BY <1>0, <3>2, <3>3, <3>4, ServerLeavesEnds
         DEF TurnInv, HeardInv, AnsweringInv, ResultInv, ConfirmationInv, FollowInv,
             robotVars
  <2>. QED
    BY <1>1, <2>1, <2>2, <2>3
<1>3. CASE ReadFollowup
  <2>1. pc = "followRead" /\ ReadLine /\ pc' \in {"followAsk", "gptClosing"}
    BY <1>3 DEF ReadFollowup, CountFollowup
  <2>2. UNCHANGED <<toClient, clientOpen>>
    BY <2>1, ReadLineLink, Pieces
  <2>3. WholeInv'
    BY <2>2 DEF TurnInv, WholeInv
  <2>4. clientOpen => flow \in {"FollowUp.read", "FollowUp.listen"}
    BY <2>1 DEF TurnInv, FollowInv
  <2>. QED
    BY <1>0, <2>1, <2>2, <2>3, <2>4, ServerLeavesEnds
       DEF TurnInv, HeardInv, AnsweringInv, ResultInv, ConfirmationInv, FollowInv, robotVars
<1>4. CASE LoseFollowup
  <2>1. pc' = "gptClosing" /\ UNCHANGED toClient
    BY <1>4 DEF LoseFollowup, ServerReadFails
  <2>. QED
    BY <1>0, <2>1, ElsewhereTurn DEF TurnInv, WholeInv
<1>5. CASE GptClosing \/ StaticClosing
  <2>1. \/ ProcessDies
        \/ Send(Closing(StyleOf(responses), TRUE), "cleanup")
        \/ pc' = "staticClosing" /\ UNCHANGED toClient
    BY <1>5 DEF GptClosing, StaticClosing, GptOutcomes, Staying, linkVars
  <2>2. CASE pc' = "staticClosing" /\ UNCHANGED toClient
    BY <1>0, <2>2, ElsewhereTurn DEF TurnInv, WholeInv
  <2>3. CASE Send(Closing(StyleOf(responses), TRUE), "cleanup")
    <3>1. /\ Closing(StyleOf(responses), TRUE) \in Messages
          /\ Closing(StyleOf(responses), TRUE).whole
      BY <1>0, MessageTypes, SentWhole, Zenon
    <3>2. WholeInv' /\ (clientOpen => pc' = "cleanup")
      BY <2>3, <3>1, SendTurn DEF TurnInv
    <3>. QED
      BY <1>0, <3>2, ElsewhereTurn
  <2>. QED
    BY <1>1, <2>1, <2>2, <2>3
<1>6. CASE Cleanup
  <2>1. pc' = "done" /\ UNCHANGED toClient
    BY <1>6 DEF Cleanup, ServerCloses
  <2>. QED
    BY <1>0, <2>1, ElsewhereTurn DEF TurnInv, WholeInv
<1>. QED
  BY <1>2, <1>3, <1>4, <1>5, <1>6

LEMMA ServerTurnStep ==
    ASSUME Staying, TypeInv, LinkInv, CoreInv, TurnInv, ServerNext, UNCHANGED robotVars
    PROVE  TurnInv'
BY AssessmentTurn, ConfirmationTurn, FollowupTurn DEF ServerNext

(***************************************************************************)
(* The robot's steps.                                                      *)
(***************************************************************************)

\* Nothing is claimed of a robot that is gone.
LEMMA GoneTurn ==
    ASSUME ~clientOpen', toClient' = <<>>
    PROVE  TurnInv'
<1>1. \A i \in 1 .. Len(toClient') : FALSE
  BY NothingQueued
<1>. QED
  BY <1>1 DEF TurnInv, WholeInv, HeardInv, AnsweringInv, ResultInv, ConfirmationInv, FollowInv

\* Whoever reads at an end that is open on both sides has something to read.
LEMMA NoReadEnds ==
    ASSUME TypeInv, LinkInv, TurnInv, clientOpen, serverOpen
    PROVE  ~ClientReadEnds /\ (ClientReadEnds => FALSE) /\ clientErr = "none"
BY Unbroken DEF ClientReadEnds

\* A message is heard in the assessment: the question, the result or the
\* state_change.
LEMMA HearsInTurn ==
    ASSUME TypeInv, LinkInv, CoreInv, TurnInv, UNCHANGED serverVars,
           NEW n \in 1 .. Len(toClient), AssessmentReads(n)
    PROVE  TurnInv'
<1>. DEFINE m == toClient[1]
<1>0. UNCHANGED pc /\ flow = "Assessment.read" /\ LineEnds(n) /\ ClientReads(n)
  BY DEF serverVars, AssessmentReads
<1>1. /\ n = 1 /\ toClient # <<>> /\ 1 \in 1 .. Len(toClient) /\ Head(toClient) = m
      /\ Len(toClient') = Len(toClient) - 1
      /\ \A i \in 1 .. Len(toClient') :
             i + 1 \in 1 .. Len(toClient) /\ toClient'[i] = toClient[i + 1]
      /\ WholeInv' /\ UNCHANGED <<toServer, serverOpen, clientOpen>>
  BY <1>0, ReadsOne DEF TurnInv
<1>2. HandleAssessmentMessage(m)
  BY <1>1 DEF AssessmentReads
<1>3. toClient \in Seq(Messages) /\ toClient' \in Seq(Messages) /\ Len(toClient) \in Nat
  <2>1. LinkTypeOK /\ LinkTypeOK'
    BY <1>0, Pieces, ClientReadsType
  <2>. QED
    BY <2>1 DEF LinkTypeOK
<1>. HIDE DEF m
<1>4. /\ isWaitingForAnswer' = IF m.type \in {"ask", "followup"} THEN TRUE
                               ELSE isWaitingForAnswer
      /\ currentQuestion' = IF m.type \in {"ask", "followup"} THEN m ELSE currentQuestion
      /\ flow' = IF m.type \in {"ask", "followup"} THEN "Assessment.listen"
                 ELSE IF m.type = "result" THEN "Assessment.read"
                 ELSE IF m.type = "state_change" THEN "Assessment.confirm"
                 ELSE "FollowUp.read"
  BY <1>2 DEF HandleAssessmentMessage
<1>5. HeardInv'
  <2>1. flow' = "Assessment.listen" => isWaitingForAnswer' = TRUE
    BY <1>4
  <2>. QED
    BY <2>1 DEF HeardInv
<1>6. AnsweringInv'
  <2>. SUFFICES ASSUME clientOpen, pc = "readAnswer"
                PROVE  toServer = <<>> /\ AskListening'
    BY <1>0, <1>1 DEF AnsweringInv
  <2>1. m.type = "ask"
    BY <1>1 DEF m, CoreInv, TokenInv, Assessing
  <2>2. toServer = <<>>
    BY <1>1, <2>1 DEF m, CoreInv, TokenInv
  <2>. QED
    BY <1>4, <2>1, <2>2 DEF AskListening
<1>7. ResultInv'
  <2>1. CASE clientOpen /\ pc = "sendResult"
    BY <1>1, <2>1 DEF TurnInv, ResultInv
  <2>2. CASE clientOpen /\ pc = "sendTransition"
    <3>1. \A i \in 1 .. Len(toClient) : toClient[i].type = "result"
      BY <2>2 DEF TurnInv, ResultInv
    <3>2. m.type = "result" /\ toServer = <<>>
      BY <1>1, <2>2, <3>1 DEF m, TurnInv, ResultInv
    <3>3. \A i \in 1 .. Len(toClient') : toClient'[i].type = "result"
      BY <1>1, <3>1
    <3>4. flow' = "Assessment.read"
      BY <1>4, <3>2
    <3>. QED
      BY <1>0, <1>1, <2>2, <3>2, <3>3, <3>4 DEF ResultInv
  <2>. QED
    BY <1>0, <1>1, <2>1, <2>2 DEF ResultInv
<1>8. ConfirmationInv'
  <2>. SUFFICES ASSUME clientOpen, pc = "readReady"
                PROVE  Announced' \/ Confirming'
    BY <1>0, <1>1 DEF ConfirmationInv
  <2>1. /\ toServer = <<>>
        /\ \A i \in 1 .. Len(toClient) :
             toClient[i].type = IF i = Len(toClient) THEN "state_change" ELSE "result"
    BY <1>0 DEF TurnInv, ConfirmationInv, Announced, Confirming, Confirmed
  <2>2. CASE Len(toClient) = 1
    <3>1. m.type = "state_change"
      BY <1>1, <2>1, <2>2 DEF m
    <3>2. toClient' = <<>>
      BY <1>1, <1>3, <2>2, EmptySeq
    <3>3. flow' = "Assessment.confirm"
      BY <1>4, <3>1
    <3>. QED
      BY <1>1, <2>1, <3>2, <3>3 DEF Confirming
  <2>3. CASE Len(toClient) # 1
    <3>1. m.type = "result"
      BY <1>1, <2>1, <2>3 DEF m
    <3>2. toClient' # <<>>
      BY <1>1, <1>3, <2>3, EmptySeq
    <3>3. flow' = "Assessment.read"
      BY <1>4, <3>1
    <3>4. \A i \in 1 .. Len(toClient') : i = Len(toClient') <=> i + 1 = Len(toClient)
      BY <1>1, <1>3
    <3>5. \A i \in 1 .. Len(toClient') :
            toClient'[i].type = IF i = Len(toClient') THEN "state_change" ELSE "result"
      BY <1>1, <2>1, <3>4
    <3>. QED
      BY <1>1, <2>1, <3>2, <3>3, <3>5 DEF Announced
  <2>. QED
    BY <2>2, <2>3
<1>9. FollowInv'
  BY <1>0, <1>1 DEF TurnInv, FollowInv
<1>. QED
  BY <1>1, <1>5, <1>6, <1>7, <1>8, <1>9 DEF TurnInv

\* The robot confirms.
LEMMA ConfirmsInTurn ==
    ASSUME TypeInv, LinkInv, CoreInv, TurnInv, UNCHANGED serverVars, ConfirmTransition
    PROVE  TurnInv'
<1>0. /\ UNCHANGED <<pc, toClient, serverOpen, clientOpen, isWaitingForAnswer>>
      /\ flow = "Assessment.confirm"
  BY DEF serverVars, ConfirmTransition, ClientSends, linkVars
<1>1. WholeInv'
  BY <1>0 DEF TurnInv, WholeInv
<1>2. CASE clientOpen /\ serverOpen
  <2>1. ClientSends(<<Ready>>) /\ flow' = "FollowUp.read"
    BY <1>2, Unbroken DEF ConfirmTransition, ClientCanSend
  <2>2. ~Assessing /\ pc \notin {"sendResult", "sendTransition", "followAsk", "followRead"}
    BY <1>0, <1>2 DEF CoreInv, TokenInv, TurnInv, ResultInv, FollowInv
  <2>3. CASE pc = "readReady"
    <3>1. toServer = <<>> /\ toClient = <<>>
      BY <1>0, <1>2, <2>3 DEF TurnInv, ConfirmationInv, Announced, Confirming, Confirmed
    <3>2. toServer' = <<>> \o <<Ready>>
      BY <1>2, <2>1, <3>1 DEF ClientSends
    <3>3. toServer' = <<Ready>>
      BY <3>2
    <3>. QED
      BY <1>0, <1>1, <2>1, <2>3, <3>1, <3>3
         DEF TurnInv, HeardInv, AnsweringInv, ResultInv, ConfirmationInv, Confirmed, FollowInv
  <2>4. CASE pc # "readReady"
    BY <1>0, <1>1, <2>1, <2>2, <2>4
       DEF TurnInv, HeardInv, AnsweringInv, ResultInv, ConfirmationInv, FollowInv, Assessing
  <2>. QED
    BY <2>3, <2>4
<1>3. CASE ~(clientOpen /\ serverOpen)
  <2>1. clientOpen => pc \in {"start", "done", "killed"}
    BY <1>3, Unbroken
  <2>. QED
    BY <1>0, <1>1, <1>3, <2>1
       DEF TurnInv, HeardInv, AnsweringInv, ResultInv, ConfirmationInv, FollowInv
<1>. QED
  BY <1>2, <1>3

\* The person's reply leaves: from now on it is the server's turn.
LEMMA AnswersInTurn ==
    ASSUME TypeInv, LinkInv, CoreInv, TurnInv, UNCHANGED serverVars, UserAnswers
    PROVE  TurnInv'
<1>0. /\ UNCHANGED <<pc, toClient, serverOpen, clientOpen>>
      /\ clientOpen
  BY DEF serverVars, UserAnswers, AnswerQuestion, AnswerFollowUp, ClientSends, ClientCanSend
<1>1. WholeInv'
  BY <1>0 DEF TurnInv, WholeInv
<1>2. ASSUME serverOpen PROVE toServer' # <<>>
  <2>1. toServer \in Seq(Lines)
    BY Pieces
  <2>2. ASSUME NEW line \in Lines, toServer' = toServer \o <<line>>
        PROVE  toServer' # <<>>
    BY <2>1, <2>2
  <2>3. ASSUME NEW x \in Lines, NEW y \in Lines, toServer' = toServer \o <<x, y>>
        PROVE  toServer' # <<>>
    BY <2>1, <2>3
  <2>4. currentQuestion.num \in Nat
    BY Pieces, MessageParts DEF RobotTypeOK
  <2>5. CASE \E r \in UserRatings : AnswerQuestion(r)
    <3>1. PICK r \in Ratings : AnswerQuestion(r)
      BY <2>5, PeerAssumption
    <3>2. Rating(r, currentQuestion.num) \in Lines
      BY <2>4, LineTypes
    <3>. QED
      BY <1>2, <2>2, <3>1, <3>2 DEF AnswerQuestion, ClientSends
  <2>6. CASE \E long \in BOOLEAN : AnswerFollowUp(long)
    <3>1. /\ Text(currentQuestion.num, FALSE) \in Lines
          /\ Text(currentQuestion.num, TRUE) \in Lines
      BY <2>4, LineTypes
    <3>2. \/ toServer' = toServer \o <<Text(currentQuestion.num, TRUE),
                                       Text(currentQuestion.num, FALSE)>>
          \/ toServer' = toServer \o <<Text(currentQuestion.num, FALSE)>>
      BY <1>2, <2>6 DEF AnswerFollowUp, ClientSends
    <3>. QED
      BY <2>2, <2>3, <3>1, <3>2
  <2>. QED
    BY <2>5, <2>6 DEF UserAnswers
<1>3. \/ flow = "Assessment.listen" /\ flow' = "Assessment.read"
      \/ flow = "FollowUp.listen" /\ flow' = "FollowUp.read"
  BY DEF UserAnswers, AnswerQuestion, AnswerFollowUp
<1>4. pc \notin {"start", "done", "killed"} => serverOpen
  BY <1>0, Unbroken
<1>5. pc \notin {"sendResult", "sendTransition", "readReady"}
  BY <1>0, <1>3 DEF TurnInv, ResultInv, ConfirmationInv, Announced, Confirming, Confirmed
<1>6. pc = "readAnswer" => flow = "Assessment.listen"
  BY <1>0, <1>3 DEF CoreInv, TokenInv, Assessing
<1>7. pc \in {"followAsk", "followRead"} => flow = "FollowUp.listen"
  BY <1>0, <1>3 DEF TurnInv, FollowInv
<1>. QED
  BY <1>0, <1>1, <1>2, <1>3, <1>4, <1>5, <1>6, <1>7
     DEF TurnInv, HeardInv, AnsweringInv, ResultInv, ConfirmationInv, FollowInv

\* A follow-up is heard, or the robot says goodbye.
LEMMA FollowsInTurn ==
    ASSUME TypeInv, LinkInv, CoreInv, TurnInv, UNCHANGED serverVars,
           NEW n \in 1 .. Len(toClient), FollowUpReads(n)
    PROVE  TurnInv'
<1>1. CASE \E style : EndConversation(style)
  BY <1>1, GoneTurn DEF EndConversation, ClientCloses
<1>2. CASE ~\E style : EndConversation(style)
  <2>1. /\ flow = "FollowUp.read" /\ flow' = "FollowUp.listen"
        /\ LineEnds(n) /\ n = 1 /\ ClientReads(1) /\ UNCHANGED isWaitingForAnswer
    BY <1>2 DEF FollowUpReads
  <2>2. toClient # <<>> /\ WholeInv' /\ UNCHANGED <<toServer, serverOpen, clientOpen>>
    BY <2>1, ReadsOne DEF TurnInv
  <2>3. UNCHANGED pc
    BY DEF serverVars
  <2>4. clientOpen => ~Assessing /\ pc \notin {"sendResult", "sendTransition", "readReady"}
    BY <2>1, <2>2 DEF CoreInv, TokenInv, TurnInv, ResultInv, ConfirmationInv, Announced,
                      Confirming, Confirmed
  <2>. QED
    BY <2>1, <2>2, <2>3, <2>4
       DEF TurnInv, HeardInv, AnsweringInv, ResultInv, ConfirmationInv, FollowInv, Assessing
<1>. QED
  BY <1>1, <1>2

LEMMA RobotTurnStep ==
    ASSUME Staying, TypeInv, LinkInv, CoreInv, TurnInv, RobotNext, UNCHANGED serverVars
    PROVE  TurnInv'
<1>0. UNCHANGED pc
  BY DEF serverVars
<1>. USE DEF TurnInv, WholeInv, HeardInv, AnsweringInv, ResultInv, ConfirmationInv, FollowInv
<1>1. CASE ConnectToServer \/ ConnectionRefused
  <2>1. pc = "start" /\ flow' \in {"Idle", "Greeting"} /\ UNCHANGED toClient
    BY <1>1 DEF ConnectToServer, Connect, ConnectionRefused, linkVars, LinkInv
  <2>. QED
    BY <1>0, <2>1
<1>2. CASE Engage \/ Decline \/ Consent
  <2>1. /\ flow \in {"Idle", "Greeting"} /\ UNCHANGED linkVars
        /\ flow' \in {"Idle", "Greeting", "Assessment.read"}
    BY <1>2 DEF Engage, Decline, Consent
  <2>. QED
    BY <1>0, <2>1 DEF linkVars, AskListening, Announced, Confirming, Confirmed
<1>3. CASE LastUserLeaves
  BY <1>3 DEF LastUserLeaves, Staying
<1>4. CASE AssessmentReadEnds
  <2>1. ~(clientOpen /\ serverOpen)
    BY <1>4, Unbroken, NoReadEnds DEF AssessmentReadEnds
  <2>2. /\ toClient' = <<>> /\ UNCHANGED <<serverOpen, clientOpen>>
        /\ clientOpen => pc \in {"start", "done", "killed"}
    BY <1>4, <2>1, Unbroken DEF AssessmentReadEnds, ClientDrains
  <2>3. \A i \in 1 .. Len(toClient') : FALSE
    BY <2>2, NothingQueued
  <2>. QED
    BY <1>0, <2>1, <2>2, <2>3
<1>5. CASE FollowUpReadEnds \/ RobotCrash
  BY <1>5, GoneTurn DEF FollowUpReadEnds, EndConversation, RobotCrash, ClientCloses
<1>. QED
  BY <1>1, <1>2, <1>3, <1>4, <1>5, HearsInTurn, ConfirmsInTurn, AnswersInTurn, FollowsInTurn
     DEF RobotNext, RobotReads

LEMMA NextTurnInv ==
    ASSUME Staying
    PROVE  TypeInv /\ LinkInv /\ CoreInv /\ TurnInv /\ [Next]_vars => TurnInv'
<1>. SUFFICES ASSUME TypeInv, LinkInv, CoreInv, TurnInv, [Next]_vars
              PROVE  TurnInv'
  OBVIOUS
<1>1. CASE ServerNext /\ UNCHANGED robotVars
  BY <1>1, ServerTurnStep
<1>2. CASE RobotNext /\ UNCHANGED serverVars
  BY <1>2, RobotTurnStep
<1>3. CASE UNCHANGED vars
  BY <1>3 DEF vars, serverVars, linkVars, robotVars, TurnInv, WholeInv, HeardInv,
              AnsweringInv, AskListening, ResultInv, ConfirmationInv, Announced,
              Confirming, Confirmed, FollowInv
<1>. QED
  BY <1>1, <1>2, <1>3 DEF Next, Terminated

\* Robot and server never wait for each other, in a conversation of any length
\* in which nobody walks away and no GPT reply is too long for its line: a
\* robot that dies, replies split or coalesced by read(), failing GPT calls and
\* a refused connection do not lead there (connection.c:154, 252, 310 with
\* ServerConnection.kt:16).
THEOREM NobodyWaits ==
    "leave" \notin PeerFaults /\ "longReply" \notin GptFaults => (Spec => []NoMutualWait)
<1>. SUFFICES ASSUME Staying PROVE Spec => []NoMutualWait
  BY DEF Staying
<1>1. Init => TypeInv /\ LinkInv /\ CoreInv /\ TurnInv
  BY InitTypeInv, InitLinkInv, InitCoreInv, InitTurnInv
<1>2. TypeInv /\ LinkInv /\ CoreInv /\ TurnInv /\ [Next]_vars
        => TypeInv' /\ LinkInv' /\ CoreInv' /\ TurnInv'
  BY NextTypeInv, NextLinkInv, NextCoreInv, NextTurnInv
<1>3. TypeInv /\ TurnInv => NoMutualWait
  <2>. SUFFICES ASSUME TypeInv, TurnInv, ServerWaits, RobotWaits PROVE FALSE
    BY DEF NoMutualWait
  <2>1. toClient = <<>> /\ toServer = <<>> /\ clientOpen
    BY NoLineNoMessage DEF RobotWaits, ServerWaits, TurnInv
  <2>2. toServer # <<Ready>>
    BY <2>1
  <2>. QED
    BY <2>1, <2>2 DEF ServerWaits, RobotWaits, TurnInv, AnsweringInv, AskListening,
       ConfirmationInv, Announced, Confirming, Confirmed, FollowInv
<1>. QED
  BY <1>1, <1>2, <1>3, PTL DEF Spec

(***************************************************************************)
(* Which reply a prompt quotes.  Now anybody may leave and any reply of    *)
(* GPT may be cut, but a spoken answer fits into one read.                 *)
(***************************************************************************)

OneRead == "longAnswer" \notin PeerFaults

\* Where the robot is once it has heard the state_change.
Late == {"Assessment.confirm", "FollowUp.read", "FollowUp.listen"}

\* What the server calls the last reply after k follow-ups.
Reply(k) == IF k > 0 THEN Text(k, FALSE) ELSE Ready

\* The lines that may wait for the server: the answer to what it asked, no more.
LinesInv ==
    /\ pc \in {"sendResult", "sendTransition", "followAsk"} => toServer = <<>>
    /\ pc = "readReady" => toServer \in {<<>>, <<Ready>>}
    /\ pc = "followRead" => toServer \in {<<>>, <<Text(followup_index + 1, FALSE)>>}

\* After the assessment no rating is awaited, and no follow-up is left behind.
HushInv ==
    /\ clientOpen /\ ~Assessing /\ flow = "Assessment.listen" => ~isWaitingForAnswer
    /\ \A i \in 1 .. Len(toClient) : toClient[i].type = "followup" => pc = "followRead"

\* The transition: nothing before it leads the robot to the follow-up.
AllResults == \A i \in 1 .. Len(toClient) : toClient[i].type = "result"
Transition ==
    \A i \in 1 .. Len(toClient) :
        toClient[i].type = IF i = Len(toClient) THEN "state_change" ELSE "result"

TransitionInv ==
    clientOpen =>
        /\ pc = "sendResult" => flow \notin Late /\ toClient = <<>>
        /\ pc = "sendTransition" => flow \notin Late /\ AllResults
        /\ pc = "readReady" =>
               \/ flow \notin Late /\ toServer = <<>> /\ Transition
               \/ Confirming
               \/ Confirmed

\* The follow-up being asked: on its way, with the robot, answered, or dropped
\* by a robot whose person left.
Asked    == /\ flow = "FollowUp.read" /\ toServer = <<>> /\ Len(toClient) = 1
            /\ toClient[1].num = followup_index + 1
Heard    == /\ flow = "FollowUp.listen" /\ toServer = <<>> /\ toClient = <<>>
            /\ currentQuestion.num = followup_index + 1
Answered == /\ flow = "FollowUp.read" /\ toClient = <<>>
            /\ toServer = <<Text(followup_index + 1, FALSE)>>
Dropped  == flow \notin Late /\ toServer = <<>> /\ toClient = <<>>

RepliesInv ==
    clientOpen =>
        /\ pc = "followAsk" => flow = "FollowUp.read" /\ toClient = <<>>
        /\ pc = "followRead" => Asked \/ Heard \/ Answered \/ Dropped

PlaceInv == LinesInv /\ HushInv /\ TransitionInv /\ RepliesInv

\* The buffer holds the last reply when a prompt is built, and the prompt of
\* the question under way quotes it.
QuoteInv ==
    /\ pc = "ask" /\ questionIndex > 0 =>
           buffer = Rating(responses[questionIndex - 1], questionIndex)
    /\ pc \in {"followAsk", "followRead", "gptClosing"} => buffer = Reply(followup_index)
    /\ pc = "staticClosing" /\ gpt_session => quoted = Reply(followup_index)
    /\ PromptQuotesLastAnswer

PromptInv == PlaceInv /\ QuoteInv

LEMMA InitPromptInv == Init => PromptInv
<1>. SUFFICES ASSUME Init PROVE PromptInv
  OBVIOUS
<1>1. \A i \in 1 .. Len(toClient) : FALSE
  BY EmptySeq DEF Init, LinkInit
<1>. QED
  BY <1>1 DEF Init, LinkInit, ServerInit, PromptInv, PlaceInv, LinesInv, HushInv,
              TransitionInv, RepliesInv, QuoteInv, PromptQuotesLastAnswer

(***************************************************************************)
(* The server's steps.                                                     *)
(***************************************************************************)

\* Where nothing is claimed of lines and robot, follow-ups and silence remain.
LEMMA ElsewherePlace ==
    ASSUME HushInv', pc' \notin {"sendResult", "sendTransition", "readReady",
                                 "followAsk", "followRead"}
    PROVE  PlaceInv'
BY DEF PlaceInv, LinesInv, TransitionInv, RepliesInv

\* No follow-up is left behind by a step that sends none.
LEMMA NoFollowupLeft ==
    ASSUME TypeInv, LinkInv, HushInv, pc # "followRead",
           \/ UNCHANGED toClient
           \/ \E m \in Messages : \E next : m.type # "followup" /\ Send(m, next)
    PROVE  \A i \in 1 .. Len(toClient') : toClient'[i].type # "followup"
<1>1. \A i \in 1 .. Len(toClient) : toClient[i].type # "followup"
  BY DEF HushInv
<1>2. CASE \E m \in Messages : \E next : m.type # "followup" /\ Send(m, next)
  <2>0. PICK m \in Messages : \E next : m.type # "followup" /\ Send(m, next)
    BY <1>2
  <2>1. PICK next : m.type # "followup" /\ Send(m, next)
    BY <2>0
  <2>2. toClient' = <<>> \/ toClient' = Append(toClient, m)
    BY <2>1, SendEffect, Pieces
  <2>3. CASE toClient' = <<>>
    BY <2>3, NothingQueued
  <2>4. CASE toClient' = Append(toClient, m)
    <3>1. \A i \in 1 .. Len(Append(toClient, m)) :
             \/ Append(toClient, m)[i] = m
             \/ \E j \in 1 .. Len(toClient) : Append(toClient, m)[i] = toClient[j]
      BY Pieces, WhatIsAppended
    <3>. QED
      BY <1>1, <2>1, <2>4, <3>1
  <2>. QED
    BY <2>2, <2>3, <2>4
<1>. QED
  BY <1>1, <1>2

\* While the assessment lasts, a robot that awaits an answer has been asked.
LEMMA NobodyListens ==
    ASSUME CoreInv, Assessing, toServer # <<>> \/ pc # "readAnswer", clientOpen
    PROVE  /\ flow = "Assessment.listen" => ~isWaitingForAnswer
           /\ flow \notin Late
BY DEF CoreInv, TokenInv, Late

LEMMA AssessmentPlace ==
    ASSUME TypeInv, LinkInv, CoreInv, PlaceInv, UNCHANGED robotVars,
           CreateSession \/ AskQuestion \/ ReadAnswer \/ LoseAnswer
    PROVE  PlaceInv'
<1>0. Assessing /\ ServerNext /\ questionIndex + 1 \in Nat /\ HushInv /\ UNCHANGED clientOpen
  <2>1. ServerNext
    BY DEF ServerNext
  <2>2. Assessing
    BY DEF Assessing, CreateSession, AskQuestion, ReadAnswer, LoseAnswer
  <2>. QED
    BY <2>1, <2>2, Pieces, ServerLeavesEnds DEF PlaceInv
<1>1. CASE CreateSession
  <2>1. pc # "followRead" /\ pc' = "ask" /\ UNCHANGED toClient
    BY <1>1 DEF CreateSession, linkVars
  <2>2. HushInv'
    BY <1>0, <2>1, NoFollowupLeft DEF HushInv, Assessing
  <2>. QED
    BY <2>1, <2>2, ElsewherePlace
<1>2. CASE AskQuestion
  <2>1. pc = "ask"
    BY <1>2 DEF AskQuestion
  <2>2. \/ pc' = "killed" /\ UNCHANGED toClient
        \/ \E whole \in BOOLEAN : Send(Ask(questionIndex + 1, whole), "readAnswer")
    BY <1>2 DEF AskQuestion, ProcessDies, ServerCloses
  <2>3. \A whole \in BOOLEAN : /\ Ask(questionIndex + 1, whole) \in Messages
                               /\ Ask(questionIndex + 1, whole).type # "followup"
    BY <1>0, MessageTypes DEF Ask, Message
  <2>4. pc' \in {"readAnswer", "killed"}
    BY <2>2, <2>3, SendEffect, Pieces
  <2>5. \A i \in 1 .. Len(toClient') : toClient'[i].type # "followup"
    BY <1>0, <2>1, <2>2, <2>3, NoFollowupLeft
  <2>6. HushInv'
    BY <1>0, <2>1, <2>5, NobodyListens DEF HushInv, robotVars
  <2>. QED
    BY <2>4, <2>6, ElsewherePlace
<1>3. CASE ReadAnswer
  <2>1. /\ toClient = <<>> /\ toServer' = <<>> /\ pc = "readAnswer"
        /\ pc' \in {"ask", "sendResult"}
    BY <1>3, ReadsTheAnswer DEF ReadAnswer
  <2>2. toServer # <<>> /\ UNCHANGED toClient
    BY <1>3, ReadLineLink, Pieces DEF ReadAnswer
  <2>3. \A i \in 1 .. Len(toClient') : FALSE
    BY <2>1, <2>2, NothingQueued
  <2>. QED
    BY <1>0, <2>1, <2>2, <2>3, NobodyListens
       DEF PlaceInv, LinesInv, HushInv, TransitionInv, RepliesInv, robotVars
<1>4. CASE LoseAnswer
  <2>1. ~clientOpen /\ toClient = <<>> /\ UNCHANGED <<toClient, toServer>> /\ toServer = <<>>
        /\ pc' = "sendResult"
    BY <1>4, Unbroken DEF LoseAnswer, ServerReadFails, LinkInv
  <2>2. \A i \in 1 .. Len(toClient') : FALSE
    BY <2>1, NothingQueued
  <2>. QED
    BY <1>0, <2>1, <2>2 DEF PlaceInv, LinesInv, HushInv, TransitionInv, RepliesInv
<1>. QED
  BY <1>1, <1>2, <1>3, <1>4

\* The first element of a queue of one.
LEMMA AppendToNothing ==
    ASSUME NEW s, NEW m, s = <<>>
    PROVE  Append(s, m) = <<m>> /\ Len(Append(s, m)) = 1 /\ Append(s, m)[1] = m
OBVIOUS

LEMMA TransitionPlace ==
    ASSUME TypeInv, LinkInv, CoreInv, PlaceInv, UNCHANGED robotVars,
           SendResult \/ SendTransition \/ ReadReady \/ LoseReady
    PROVE  PlaceInv'
<1>0. /\ ServerNext /\ HushInv /\ UNCHANGED clientOpen /\ ~Assessing
      /\ pc \in {"sendResult", "sendTransition", "readReady"}
  <2>1. ServerNext
    BY DEF ServerNext
  <2>2. pc \in {"sendResult", "sendTransition", "readReady"}
    BY DEF SendResult, SendTransition, ReadReady, LoseReady
  <2>. QED
    BY <2>1, <2>2, ServerLeavesEnds DEF PlaceInv, Assessing
<1>. DEFINE result == Result(StyleOf(responses))
            change == StateChange(StyleOf(responses))
<1>00. /\ result \in Messages /\ result.type = "result"
       /\ change \in Messages /\ change.type = "state_change"
  BY StyleOfIsStyle, MessageTypes, SentWhole, Zenon
<1>. HIDE DEF result, change
<1>1. CASE SendResult
  <2>1. pc = "sendResult" /\ Send(result, "sendTransition")
    BY <1>1 DEF SendResult, result
  <2>2. \/ pc' = "killed" /\ ~clientOpen
        \/ /\ pc' = "sendTransition" /\ UNCHANGED toServer
           /\ clientOpen => toClient' = Append(toClient, result)
    BY <2>1, SendEffect, Pieces
  <2>3. \A i \in 1 .. Len(toClient') : toClient'[i].type # "followup"
    BY <1>0, <1>00, <2>1, NoFollowupLeft
  <2>4. HushInv'
    BY <1>0, <2>3 DEF HushInv, robotVars
  <2>5. clientOpen /\ pc' = "sendTransition" => flow \notin Late /\ AllResults'
    <3>. SUFFICES ASSUME clientOpen, pc' = "sendTransition" PROVE flow \notin Late /\ AllResults'
      OBVIOUS
    <3>1. flow \notin Late /\ toClient = <<>> /\ toClient' = Append(toClient, result)
      BY <2>1, <2>2 DEF PlaceInv, TransitionInv
    <3>2. Len(toClient') = 1 /\ toClient'[1] = result
      BY <3>1, AppendToNothing
    <3>. QED
      BY <1>00, <3>1, <3>2 DEF AllResults
  <2>. QED
    BY <1>0, <2>1, <2>2, <2>4, <2>5
       DEF PlaceInv, LinesInv, TransitionInv, RepliesInv, robotVars
<1>2. CASE SendTransition
  <2>1. pc = "sendTransition" /\ Send(change, "readReady")
    BY <1>2 DEF SendTransition, change
  <2>2. \/ pc' = "killed" /\ ~clientOpen
        \/ /\ pc' = "readReady" /\ UNCHANGED toServer
           /\ clientOpen => toClient' = Append(toClient, change)
    BY <2>1, SendEffect, Pieces
  <2>3. \A i \in 1 .. Len(toClient') : toClient'[i].type # "followup"
    BY <1>0, <1>00, <2>1, NoFollowupLeft
  <2>4. HushInv'
    BY <1>0, <2>3 DEF HushInv, robotVars
  <2>5. toServer = <<>>
    BY <2>1 DEF PlaceInv, LinesInv
  <2>6. clientOpen /\ pc' = "readReady" => flow \notin Late /\ Transition'
    <3>. SUFFICES ASSUME clientOpen, pc' = "readReady" PROVE flow \notin Late /\ Transition'
      OBVIOUS
    <3>1. flow \notin Late /\ AllResults /\ toClient' = Append(toClient, change)
      BY <2>1, <2>2 DEF PlaceInv, TransitionInv
    <3>2. /\ Len(toClient') = Len(toClient) + 1 /\ Len(toClient) \in Nat
          /\ \A i \in 1 .. Len(toClient') :
               toClient'[i] = IF i = Len(toClient) + 1 THEN change ELSE toClient[i]
      BY <1>00, <3>1, Pieces, AppendProperties
    <3>3. \A i \in 1 .. Len(toClient') : i = Len(toClient') \/ i \in 1 .. Len(toClient)
      BY <3>2
    <3>. QED
      BY <1>00, <3>1, <3>2, <3>3 DEF AllResults, Transition
  <2>. QED
    BY <1>0, <2>1, <2>2, <2>4, <2>5, <2>6
       DEF PlaceInv, LinesInv, TransitionInv, RepliesInv, robotVars
<1>3. CASE ReadReady
  <2>1. pc = "readReady" /\ ReadLine /\ pc' \in {"followAsk", "staticClosing", "cleanup"}
    BY <1>3 DEF ReadReady
  <2>2. toServer # <<>> /\ UNCHANGED toClient
    BY <2>1, ReadLineLink, Pieces
  <2>3. toServer = <<Ready>>
    BY <2>1, <2>2 DEF PlaceInv, LinesInv
  <2>4. toServer' = <<>>
    BY <2>1, <2>3, ReadsOnly, LineTypes
  <2>5. clientOpen => flow = "FollowUp.read" /\ toClient = <<>>
    BY <2>1, <2>2 DEF PlaceInv, TransitionInv, Confirming, Confirmed
  <2>6. HushInv'
    BY <1>0, <2>1, <2>2 DEF HushInv, robotVars
  <2>. QED
    BY <1>0, <2>1, <2>2, <2>4, <2>5, <2>6
       DEF PlaceInv, LinesInv, TransitionInv, RepliesInv, robotVars
<1>4. CASE LoseReady
  <2>1. pc # "followRead" /\ pc' = "cleanup" /\ UNCHANGED toClient
    BY <1>4 DEF LoseReady, ServerReadFails
  <2>2. HushInv'
    BY <1>0, <2>1 DEF HushInv, robotVars
  <2>. QED
    BY <2>1, <2>2, ElsewherePlace
<1>. QED
  BY <1>1, <1>2, <1>3, <1>4

\* The reply to a follow-up leaves the queue empty, and the robot waiting.
LEMMA ReadsTheReply ==
    ASSUME TypeInv, LinkInv, PlaceInv, ReadFollowup
    PROVE  /\ toServer' = <<>> /\ UNCHANGED toClient /\ toClient = <<>>
           /\ buffer' = Text(followup_index + 1, FALSE)
           /\ clientOpen => flow = "FollowUp.read"
<1>1. pc = "followRead" /\ ReadLine
  BY DEF ReadFollowup
<1>2. toServer # <<>> /\ UNCHANGED toClient /\ followup_index + 1 \in Nat
  BY <1>1, ReadLineLink, Pieces DEF ServerTypeOK
<1>3. toServer = <<Text(followup_index + 1, FALSE)>>
  BY <1>1, <1>2 DEF PlaceInv, LinesInv
<1>4. toServer' = <<>> /\ buffer' = Text(followup_index + 1, FALSE)
  BY <1>1, <1>2, <1>3, ReadsOnly, LineTypes
<1>5. clientOpen => flow = "FollowUp.read" /\ toClient = <<>>
  BY <1>1, <1>2 DEF PlaceInv, RepliesInv, Asked, Heard, Answered, Dropped
<1>. QED
  BY <1>2, <1>4, <1>5 DEF LinkInv

LEMMA FollowupPlace ==
    ASSUME TypeInv, LinkInv, CoreInv, PlaceInv, UNCHANGED robotVars,
           \/ AskFollowup \/ ReadFollowup \/ LoseFollowup
           \/ GptClosing \/ StaticClosing \/ Cleanup
    PROVE  PlaceInv'
<1>0. /\ ServerNext /\ HushInv /\ UNCHANGED clientOpen /\ ~Assessing
      /\ followup_index + 1 \in Nat
  <2>1. ServerNext
    BY DEF ServerNext
  <2>2. ~Assessing
    BY DEF Assessing, AskFollowup, ReadFollowup, LoseFollowup, GptClosing, StaticClosing, Cleanup
  <2>. QED
    BY <2>1, <2>2, Pieces, ServerLeavesEnds DEF PlaceInv, ServerTypeOK
<1>1. ASSUME pc' \in {"killed", "gptClosing", "staticClosing", "cleanup", "done"},
             \A i \in 1 .. Len(toClient') : toClient'[i].type # "followup"
      PROVE  PlaceInv'
  <2>1. HushInv'
    BY <1>0, <1>1 DEF HushInv, robotVars
  <2>. QED
    BY <1>1, <2>1, ElsewherePlace
<1>2. CASE AskFollowup
  <2>1. pc = "followAsk" /\ toServer = <<>> /\ UNCHANGED followup_index
    BY <1>2 DEF AskFollowup, PlaceInv, LinesInv
  <2>2. \/ pc' \in {"killed", "gptClosing"} /\ UNCHANGED toClient
        \/ \E whole \in BOOLEAN : Send(Followup(followup_index + 1, whole), "followRead")
    BY <1>2 DEF AskFollowup, FollowupFails, ProcessDies, ServerCloses, linkVars
  <2>3. CASE pc' \in {"killed", "gptClosing"} /\ UNCHANGED toClient
    BY <1>0, <1>1, <2>1, <2>3, NoFollowupLeft
  <2>4. CASE \E whole \in BOOLEAN : Send(Followup(followup_index + 1, whole), "followRead")
    <3>1. PICK whole \in BOOLEAN : Send(Followup(followup_index + 1, whole), "followRead")
      BY <2>4
    <3>. DEFINE m == Followup(followup_index + 1, whole)
    <3>2. m \in Messages /\ m.type = "followup" /\ m.num = followup_index + 1
      BY <1>0, MessageTypes DEF Followup, Message
    <3>. HIDE DEF m
    <3>3. \/ pc' = "killed" /\ toClient' = <<>>
          \/ pc' = "followRead" /\ UNCHANGED toServer /\ ~clientOpen /\ toClient' = <<>>
          \/ pc' = "followRead" /\ UNCHANGED toServer /\ clientOpen
             /\ toClient' = Append(toClient, m)
      BY <3>1, SendEffect, Pieces DEF m
    <3>4. CASE pc' = "killed" /\ toClient' = <<>>
      BY <1>1, <3>4, NothingQueued
    <3>5. CASE pc' = "followRead" /\ UNCHANGED toServer /\ ~clientOpen /\ toClient' = <<>>
      BY <1>0, <2>1, <3>5 DEF PlaceInv, LinesInv, HushInv, TransitionInv, RepliesInv
    <3>6. CASE pc' = "followRead" /\ UNCHANGED toServer /\ clientOpen
               /\ toClient' = Append(toClient, m)
      <4>1. flow = "FollowUp.read" /\ toClient = <<>>
        BY <2>1, <3>6 DEF PlaceInv, RepliesInv
      <4>2. Len(toClient') = 1 /\ toClient'[1] = m
        BY <3>6, <4>1, AppendToNothing
      <4>3. Asked'
        BY <2>1, <3>2, <3>6, <4>1, <4>2 DEF Asked, robotVars
      <4>. QED
        BY <1>0, <2>1, <3>6, <4>1, <4>3
           DEF PlaceInv, LinesInv, HushInv, TransitionInv, RepliesInv, robotVars
    <3>. QED
      BY <3>3, <3>4, <3>5, <3>6
  <2>. QED
    BY <2>2, <2>3, <2>4
<1>3. CASE ReadFollowup
  <2>1. pc' \in {"followAsk", "gptClosing"}
    BY <1>3 DEF ReadFollowup, CountFollowup
  <2>2. toServer' = <<>> /\ toClient' = <<>> /\ (clientOpen => flow = "FollowUp.read")
    BY <1>3, ReadsTheReply
  <2>3. \A i \in 1 .. Len(toClient') : FALSE
    BY <2>2, NothingQueued
  <2>. QED
    BY <1>0, <2>1, <2>2, <2>3
       DEF PlaceInv, LinesInv, HushInv, TransitionInv, RepliesInv, robotVars
<1>4. CASE LoseFollowup
  <2>1. pc' = "gptClosing" /\ toClient' = <<>>
    BY <1>4, Unbroken DEF LoseFollowup, ServerReadFails, LinkInv
  <2>. QED
    BY <1>1, <2>1, NothingQueued
<1>5. CASE GptClosing \/ StaticClosing
  <2>1. pc # "followRead" /\ StyleOf(responses) \in Styles
    BY <1>5, StyleOfIsStyle DEF GptClosing, StaticClosing
  <2>2. \/ pc' \in {"killed", "staticClosing"} /\ UNCHANGED toClient
        \/ \E whole \in BOOLEAN : Send(Closing(StyleOf(responses), whole), "cleanup")
    BY <1>5 DEF GptClosing, StaticClosing, ProcessDies, ServerCloses, linkVars
  <2>3. \A whole \in BOOLEAN : /\ Closing(StyleOf(responses), whole) \in Messages
                               /\ Closing(StyleOf(responses), whole).type # "followup"
    BY <2>1, MessageTypes DEF Closing, Message
  <2>4. pc' \in {"killed", "staticClosing", "cleanup"}
    BY <2>2, <2>3, SendEffect, Pieces
  <2>5. \A i \in 1 .. Len(toClient') : toClient'[i].type # "followup"
    BY <1>0, <2>1, <2>2, <2>3, NoFollowupLeft
  <2>. QED
    BY <1>1, <2>4, <2>5
<1>6. CASE Cleanup
  <2>1. pc # "followRead" /\ pc' = "done" /\ UNCHANGED toClient
    BY <1>6 DEF Cleanup, ServerCloses
  <2>. QED
    BY <1>0, <1>1, <2>1, NoFollowupLeft
<1>. QED
  BY <1>2, <1>3, <1>4, <1>5, <1>6

LEMMA ServerPlaceStep ==
    ASSUME TypeInv, LinkInv, CoreInv, PlaceInv, ServerNext, UNCHANGED robotVars
    PROVE  PlaceInv'
BY AssessmentPlace, TransitionPlace, FollowupPlace DEF ServerNext

(***************************************************************************)
(* The robot's steps.                                                      *)
(***************************************************************************)

\* A robot that is gone leaves only the lines it sent.
LEMMA GonePlace ==
    ASSUME PlaceInv, UNCHANGED <<serverVars, toServer>>, ~clientOpen', toClient' = <<>>
    PROVE  PlaceInv'
BY NothingQueued DEF serverVars, sessionVars, PlaceInv, LinesInv, HushInv, TransitionInv,
                     RepliesInv

\* A robot with nobody before it reads nothing and sends nothing.
LEMMA QuietPlace ==
    ASSUME PlaceInv, UNCHANGED <<serverVars, toClient, toServer>>,
           clientOpen' => clientOpen \/ pc = "start",
           flow \notin {"Assessment.confirm", "FollowUp.read"},
           flow' \notin Late \cup {"Assessment.listen"}
    PROVE  PlaceInv'
<1>1. UNCHANGED <<pc, followup_index>>
  BY DEF serverVars, sessionVars
<1>2. LinesInv' /\ HushInv'
  BY <1>1 DEF PlaceInv, LinesInv, HushInv
<1>3. TransitionInv'
  BY <1>1 DEF PlaceInv, TransitionInv, AllResults, Transition, Confirming, Confirmed, Late
<1>4. RepliesInv'
  BY <1>1 DEF PlaceInv, RepliesInv, Asked, Heard, Answered, Dropped, Late
<1>. QED
  BY <1>2, <1>3, <1>4 DEF PlaceInv

\* A line is read in the assessment; the state_change is the last before the
\* confirmation.
LEMMA HearsPlace ==
    ASSUME TypeInv, LinkInv, CoreInv, PlaceInv, UNCHANGED serverVars,
           NEW n \in 1 .. Len(toClient), AssessmentReads(n)
    PROVE  PlaceInv'
<1>. DEFINE m == toClient[1]
<1>0. /\ UNCHANGED <<pc, followup_index, toServer, clientOpen>>
      /\ flow = "Assessment.read" /\ ~isWaitingForAnswer
      /\ toClient' = SubSeq(toClient, n + 1, Len(toClient))
  BY DEF serverVars, sessionVars, AssessmentReads, ClientReads, CoreInv, TokenInv
<1>1. toClient \in Seq(Messages) /\ Len(toClient) \in Nat /\ n \in 0 .. Len(toClient)
  BY Pieces
<1>2. /\ Len(toClient') = Len(toClient) - n
      /\ \A i \in 1 .. Len(toClient') : toClient'[i] = toClient[i + n]
  BY <1>0, <1>1, DropProperties
<1>3. \A i \in 1 .. Len(toClient') : i + n \in 1 .. Len(toClient)
  BY <1>1, <1>2
<1>4. toClient # <<>> /\ clientOpen /\ 1 \in 1 .. Len(toClient)
  <2>1. toClient # <<>>
    BY NothingQueued
  <2>. QED
    BY <1>1, <2>1 DEF LinkInv
<1>5. pc \notin {"sendResult", "followAsk", "followRead"}
  BY <1>0, <1>4 DEF PlaceInv, TransitionInv, RepliesInv, Asked, Heard, Answered, Dropped
<1>6. IF n = 1 THEN HandleAssessmentMessage(m)
               ELSE flow' = "Assessment.listen" /\ UNCHANGED isWaitingForAnswer
  <2>1. Head(toClient) = m
    BY <1>1, HeadOfQueue
  <2>. QED
    BY <2>1 DEF AssessmentReads
<1>. HIDE DEF m
<1>7. \/ n # 1 /\ flow' = "Assessment.listen" /\ ~isWaitingForAnswer'
      \/ n = 1 /\ m.type \in {"ask", "followup"}
      \/ n = 1 /\ m.type = "result" /\ flow' = "Assessment.read"
      \/ n = 1 /\ m.type = "state_change" /\ flow' = "Assessment.confirm"
      \/ n = 1 /\ m.type \notin {"ask", "followup", "result", "state_change"}
         /\ flow' = "FollowUp.read"
  BY <1>0, <1>6 DEF HandleAssessmentMessage
<1>8. m.type \in {"ask", "followup"} => Assessing
  BY <1>4, <1>5 DEF m, CoreInv, TokenInv, PlaceInv, HushInv, Assessing
<1>9. LinesInv'
  BY <1>0 DEF PlaceInv, LinesInv
<1>10. HushInv'
  <2>1. \A i \in 1 .. Len(toClient') : toClient'[i].type = "followup" => pc = "followRead"
    BY <1>2, <1>3 DEF PlaceInv, HushInv
  <2>. QED
    BY <1>0, <1>7, <1>8, <2>1 DEF HushInv, Assessing
<1>11. TransitionInv'
  <2>1. CASE pc = "sendTransition"
    <3>1. AllResults
      BY <1>4, <2>1 DEF PlaceInv, TransitionInv
    <3>2. AllResults' /\ m.type = "result"
      BY <1>2, <1>3, <1>4, <3>1 DEF m, AllResults
    <3>. QED
      BY <1>0, <1>7, <2>1, <3>2 DEF TransitionInv, Late
  <2>2. CASE pc = "readReady"
    <3>1. toServer = <<>> /\ Transition
      BY <1>4, <2>2 DEF PlaceInv, TransitionInv, Confirming, Confirmed
    <3>2. Transition'
      <4>1. \A i \in 1 .. Len(toClient') : i = Len(toClient') <=> i + n = Len(toClient)
        BY <1>1, <1>2
      <4>. QED
        BY <1>2, <1>3, <3>1, <4>1 DEF Transition
    <3>3. m.type = IF Len(toClient) = 1 THEN "state_change" ELSE "result"
      BY <1>4, <3>1 DEF m, Transition
    <3>4. CASE flow' \notin Late
      BY <1>0, <2>2, <3>1, <3>2, <3>4 DEF TransitionInv
    <3>5. CASE flow' \in Late
      <4>1. flow' = "Assessment.confirm" /\ n = 1 /\ Len(toClient) = 1
        BY <1>7, <3>3, <3>5 DEF Late
      <4>2. toClient' = <<>>
        BY <1>0, <1>1, <4>1, SubSeqEmpty
      <4>. QED
        BY <1>0, <2>2, <3>1, <4>1, <4>2 DEF TransitionInv, Confirming
    <3>. QED
      BY <3>4, <3>5
  <2>. QED
    BY <1>0, <1>5, <2>1, <2>2 DEF TransitionInv
<1>12. RepliesInv'
  BY <1>0, <1>5 DEF RepliesInv
<1>. QED
  BY <1>9, <1>10, <1>11, <1>12 DEF PlaceInv

\* The robot confirms, once the server waits for it.
LEMMA ConfirmsPlace ==
    ASSUME TypeInv, LinkInv, CoreInv, PlaceInv, UNCHANGED serverVars, ConfirmTransition
    PROVE  PlaceInv'
<1>0. /\ UNCHANGED <<pc, followup_index, toClient, clientOpen, isWaitingForAnswer>>
      /\ flow = "Assessment.confirm" /\ ~isWaitingForAnswer
      /\ flow' \in {"FollowUp.read", "Assessment.listen"}
  BY DEF serverVars, sessionVars, ConfirmTransition, ClientSends, linkVars, CoreInv, TokenInv
<1>1. HushInv'
  BY <1>0 DEF PlaceInv, HushInv
<1>2. clientOpen => pc \notin {"sendResult", "sendTransition", "followAsk", "followRead"}
  BY <1>0 DEF PlaceInv, TransitionInv, RepliesInv, Asked, Heard, Answered, Dropped, Late
<1>3. CASE clientOpen /\ pc = "readReady"
  <2>1. Confirming
    BY <1>0, <1>3 DEF PlaceInv, TransitionInv, Confirmed, Late
  <2>2. ClientSends(<<Ready>>) /\ flow' = "FollowUp.read" /\ serverOpen
    BY <1>3, Unbroken DEF ConfirmTransition, ClientCanSend
  <2>3. toServer' = <<>> \o <<Ready>>
    BY <2>1, <2>2 DEF ClientSends, Confirming
  <2>4. toServer' = <<Ready>>
    BY <2>3
  <2>5. Confirmed'
    BY <1>0, <2>1, <2>2, <2>4 DEF Confirming, Confirmed
  <2>. QED
    BY <1>0, <1>1, <1>3, <2>4, <2>5 DEF PlaceInv, LinesInv, TransitionInv, RepliesInv
<1>4. CASE clientOpen /\ pc # "readReady"
  BY <1>0, <1>1, <1>2, <1>4 DEF PlaceInv, LinesInv, TransitionInv, RepliesInv
<1>5. CASE ~clientOpen
  <2>1. UNCHANGED toServer
    BY <1>5 DEF ConfirmTransition, ClientCanSend, linkVars
  <2>. QED
    BY <1>0, <1>1, <1>5, <2>1 DEF PlaceInv, LinesInv, TransitionInv, RepliesInv
<1>. QED
  BY <1>3, <1>4, <1>5

\* The person answers what was asked: a rating while the assessment lasts, one
\* line in the follow-up.
LEMMA AnswersPlace ==
    ASSUME OneRead, TypeInv, LinkInv, CoreInv, PlaceInv, UNCHANGED serverVars, UserAnswers
    PROVE  PlaceInv'
<1>0. /\ UNCHANGED <<pc, followup_index, toClient, clientOpen>> /\ clientOpen
  BY DEF serverVars, sessionVars, UserAnswers, AnswerQuestion, AnswerFollowUp, ClientSends,
         ClientCanSend
<1>1. CASE \E r \in UserRatings : AnswerQuestion(r)
  <2>1. flow = "Assessment.listen" /\ isWaitingForAnswer /\ flow' = "Assessment.read"
    BY <1>1 DEF AnswerQuestion
  <2>2. Assessing
    BY <1>0, <2>1 DEF PlaceInv, HushInv
  <2>. QED
    BY <1>0, <2>1, <2>2
       DEF PlaceInv, LinesInv, HushInv, TransitionInv, RepliesInv, Assessing
<1>2. CASE AnswerFollowUp(FALSE)
  <2>1. /\ flow = "FollowUp.listen" /\ flow' = "FollowUp.read"
        /\ ClientSends(<<Text(currentQuestion.num, FALSE)>>)
    BY <1>2 DEF AnswerFollowUp
  <2>2. pc \notin {"sendResult", "sendTransition", "readReady", "followAsk"}
    BY <1>0, <2>1 DEF PlaceInv, TransitionInv, RepliesInv, Confirming, Confirmed, Late
  <2>3. HushInv'
    BY <1>0, <2>1 DEF PlaceInv, HushInv
  <2>4. CASE pc = "followRead"
    <3>1. Heard
      BY <1>0, <2>1, <2>4 DEF PlaceInv, RepliesInv, Asked, Answered, Dropped, Late
    <3>2. toServer' = <<>> \o <<Text(followup_index + 1, FALSE)>>
      BY <1>0, <2>1, <2>4, <3>1, Unbroken DEF ClientSends, Heard
    <3>3. toServer' = <<Text(followup_index + 1, FALSE)>>
      BY <3>2
    <3>4. Answered'
      BY <1>0, <2>1, <3>1, <3>3 DEF Heard, Answered
    <3>. QED
      BY <1>0, <2>3, <2>4, <3>3, <3>4 DEF PlaceInv, LinesInv, TransitionInv, RepliesInv
  <2>5. CASE pc # "followRead"
    BY <1>0, <2>2, <2>3, <2>5 DEF PlaceInv, LinesInv, TransitionInv, RepliesInv
  <2>. QED
    BY <2>4, <2>5
<1>. QED
  BY <1>1, <1>2 DEF UserAnswers, OneRead

\* The robot hears the follow-up being asked, or leaves.
LEMMA FollowsPlace ==
    ASSUME TypeInv, LinkInv, CoreInv, PlaceInv, UNCHANGED serverVars,
           NEW n \in 1 .. Len(toClient), FollowUpReads(n)
    PROVE  PlaceInv'
<1>1. CASE \E style : EndConversation(style)
  <2>1. ~clientOpen' /\ toClient' = <<>> /\ UNCHANGED toServer
    BY <1>1 DEF EndConversation, ClientCloses
  <2>. QED
    BY <2>1, GonePlace
<1>2. CASE ~\E style : EndConversation(style)
  <2>1. /\ flow = "FollowUp.read" /\ flow' = "FollowUp.listen"
        /\ Head(toClient).type \in {"ask", "followup"}
        /\ currentQuestion' = Head(toClient)
        /\ toClient' = SubSeq(toClient, 2, Len(toClient))
        /\ UNCHANGED <<toServer, clientOpen>>
    BY <1>2 DEF FollowUpReads, ClientReads
  <2>2. UNCHANGED <<pc, followup_index>>
    BY DEF serverVars, sessionVars
  <2>3. /\ toClient # <<>> /\ clientOpen /\ 1 \in 1 .. Len(toClient)
        /\ Head(toClient) = toClient[1] /\ toClient \in Seq(Messages)
    <3>1. toClient # <<>> /\ toClient \in Seq(Messages)
      BY NothingQueued, Pieces
    <3>2. Head(toClient) = toClient[1] /\ 1 \in 1 .. Len(toClient)
      BY <3>1, HeadOfQueue
    <3>. QED
      BY <3>1, <3>2 DEF LinkInv
  <2>4. pc = "followRead"
    BY <2>1, <2>3 DEF CoreInv, TokenInv, Assessing, PlaceInv, HushInv
  <2>5. Asked
    BY <2>3, <2>4 DEF PlaceInv, RepliesInv, Heard, Answered, Dropped
  <2>6. toClient' = <<>>
    BY <2>1, <2>3, <2>5, SubSeqEmpty DEF Asked
  <2>7. Heard'
    BY <2>1, <2>2, <2>3, <2>5, <2>6 DEF Asked, Heard
  <2>8. HushInv'
    BY <2>1, <2>6, NothingQueued DEF HushInv
  <2>. QED
    BY <2>1, <2>2, <2>4, <2>7, <2>8 DEF PlaceInv, LinesInv, TransitionInv, RepliesInv
<1>. QED
  BY <1>1, <1>2

LEMMA RobotPlaceStep ==
    ASSUME OneRead, TypeInv, LinkInv, CoreInv, PlaceInv, RobotNext, UNCHANGED serverVars
    PROVE  PlaceInv'
<1>0. UNCHANGED <<pc, followup_index>>
  BY DEF serverVars, sessionVars
<1>1. CASE ConnectToServer \/ ConnectionRefused
  <2>1. /\ pc = "start" /\ flow \notin Late /\ flow' \in {"Idle", "Greeting"}
        /\ UNCHANGED <<toClient, toServer>>
    BY <1>1 DEF ConnectToServer, Connect, ConnectionRefused, linkVars, LinkInv, Late
  <2>. QED
    BY <2>1, QuietPlace DEF Late
<1>2. CASE Engage \/ Decline \/ Consent \/ LastUserLeaves
  <2>1. /\ flow \notin {"Assessment.confirm", "FollowUp.read"}
        /\ flow' \in {"Idle", "Greeting", "Assessment.read"}
        /\ UNCHANGED <<toClient, toServer, clientOpen>>
    BY <1>2 DEF Engage, Decline, Consent, LastUserLeaves, linkVars
  <2>. QED
    BY <2>1, QuietPlace DEF Late
<1>3. CASE AssessmentReadEnds
  <2>1. /\ toClient' = <<>> /\ UNCHANGED <<toServer, clientOpen, isWaitingForAnswer>>
        /\ ~isWaitingForAnswer
    BY <1>3 DEF AssessmentReadEnds, ClientDrains, CoreInv, TokenInv
  <2>2. clientOpen => pc \in {"start", "done", "killed"}
    BY <1>3, Unbroken DEF AssessmentReadEnds, ClientReadEnds
  <2>3. HushInv'
    BY <2>1, NothingQueued DEF HushInv
  <2>. QED
    BY <1>0, <2>1, <2>2, <2>3 DEF PlaceInv, LinesInv, TransitionInv, RepliesInv
<1>4. CASE FollowUpReadEnds \/ RobotCrash
  <2>1. ~clientOpen' /\ toClient' = <<>> /\ UNCHANGED toServer
    BY <1>4 DEF FollowUpReadEnds, EndConversation, RobotCrash, ClientCloses
  <2>. QED
    BY <2>1, GonePlace
<1>. QED
  BY <1>1, <1>2, <1>3, <1>4, HearsPlace, ConfirmsPlace, AnswersPlace, FollowsPlace
     DEF RobotNext, RobotReads

(***************************************************************************)
(* What the prompts quote.                                                 *)
(***************************************************************************)

\* The prompts of the assessment quote the rating recorded last.
LEMMA AssessmentQuote ==
    ASSUME TypeInv, CoreInv, QuoteInv,
           CreateSession \/ AskQuestion \/ ReadAnswer \/ LoseAnswer
    PROVE  QuoteInv'
<1>. USE DEF QuoteInv, PromptQuotesLastAnswer
<1>1. CASE CreateSession
  <2>1. pc' = "ask" /\ questionIndex' = 0
    BY <1>1 DEF CreateSession, sessionVars, TypeInv, LoopInv
  <2>. QED
    BY <2>1
<1>2. CASE AskQuestion
  <2>1. /\ pc = "ask" /\ pc' \in {"readAnswer", "killed"}
        /\ UNCHANGED <<questionIndex, responses, gpt_session>>
        /\ gpt_session => quoted' = LastReply
    BY <1>2 DEF AskQuestion, gpt_send_message, Send, ProcessDies
  <2>2. questionIndex > 0 => LastReply = Rating(responses[questionIndex - 1], questionIndex)
    BY <2>1 DEF LastReply
  <2>. QED
    BY <2>1, <2>2
<1>3. CASE ReadAnswer
  <2>. DEFINE rating == given[questionIndex]
  <2>1. /\ buffer' = Rating(rating, questionIndex + 1)
        /\ responses' = [responses EXCEPT ![questionIndex] = rating]
        /\ questionIndex' = questionIndex + 1
        /\ pc' \in {"ask", "sendResult"}
    BY <1>3, ReadsTheAnswer
  <2>2. /\ questionIndex \in Questions /\ questionIndex \in Nat
        /\ responses \in [Questions -> Ratings \cup {Unanswered}]
    BY <1>3, Pieces DEF ReadAnswer, Assessing, ServerTypeOK, Questions
  <2>3. responses'[questionIndex] = rating /\ questionIndex' - 1 = questionIndex
    BY <2>1, <2>2
  <2>. HIDE DEF rating
  <2>4. buffer' = Rating(responses'[questionIndex' - 1], questionIndex')
    BY <2>1, <2>3
  <2>. QED
    BY <2>1, <2>4
<1>4. CASE LoseAnswer
  BY <1>4 DEF LoseAnswer
<1>. QED
  BY <1>1, <1>2, <1>3, <1>4

\* The confirmation is in the buffer when the follow-up begins.
LEMMA TransitionQuote ==
    ASSUME TypeInv, LinkInv, PlaceInv, QuoteInv,
           SendResult \/ SendTransition \/ ReadReady \/ LoseReady
    PROVE  QuoteInv'
<1>. USE DEF QuoteInv, PromptQuotesLastAnswer
<1>1. CASE SendResult \/ SendTransition
  <2>1. pc' \in {"sendTransition", "readReady", "killed"}
    BY <1>1 DEF SendResult, SendTransition, Send, ProcessDies
  <2>. QED
    BY <2>1
<1>2. CASE ReadReady
  <2>1. pc = "readReady" /\ ReadLine /\ UNCHANGED <<followup_index, gpt_session>>
    BY <1>2 DEF ReadReady, gptVars
  <2>2. toServer # <<>>
    BY <2>1, ReadLineLink, Pieces
  <2>3. toServer = <<Ready>>
    BY <2>1, <2>2 DEF PlaceInv, LinesInv
  <2>4. buffer' = Ready
    BY <2>1, <2>3, ReadsOnly, LineTypes
  <2>5. pc' = IF gpt_session THEN "followAsk" ELSE "staticClosing"
    BY <1>2, <2>4 DEF ReadReady, Ready, Line
  <2>6. followup_index = 0
    BY <2>1 DEF TypeInv, LoopInv
  <2>. QED
    BY <2>1, <2>4, <2>5, <2>6 DEF Reply
<1>3. CASE LoseReady
  <2>1. pc' = "cleanup" /\ followup_index' = 0
    BY <1>3 DEF LoseReady, sessionVars, TypeInv, LoopInv
  <2>. QED
    BY <2>1
<1>. QED
  BY <1>1, <1>2, <1>3

\* The reply counted last is in the buffer, and then in the prompt.
LEMMA FollowupQuote ==
    ASSUME TypeInv, LinkInv, PlaceInv, QuoteInv,
           \/ AskFollowup \/ ReadFollowup \/ LoseFollowup
           \/ GptClosing \/ StaticClosing \/ Cleanup
    PROVE  QuoteInv'
<1>0. followup_index \in Nat
  BY Pieces DEF ServerTypeOK
<1>. USE DEF QuoteInv, PromptQuotesLastAnswer
<1>1. CASE AskFollowup
  <2>1. /\ pc = "followAsk" /\ pc' \in {"followRead", "gptClosing", "killed"}
        /\ UNCHANGED <<followup_index, buffer>>
        /\ followup_index > 0 => quoted' = buffer
    BY <1>1 DEF AskFollowup, FollowupFails, Send, ProcessDies
  <2>. QED
    BY <2>1 DEF Reply
<1>2. CASE ReadFollowup
  <2>1. /\ pc' \in {"followAsk", "gptClosing"} /\ followup_index' = followup_index + 1
        /\ buffer' = Text(followup_index + 1, FALSE)
    BY <1>2, ReadsTheReply DEF ReadFollowup, CountFollowup
  <2>2. followup_index' > 0 /\ buffer' = Text(followup_index', FALSE)
    BY <1>0, <2>1
  <2>. QED
    BY <2>1, <2>2 DEF Reply
<1>3. CASE LoseFollowup
  <2>1. pc = "followRead" /\ pc' = "gptClosing" /\ UNCHANGED <<followup_index, buffer>>
    BY <1>3 DEF LoseFollowup, sessionVars
  <2>. QED
    BY <2>1 DEF Reply
<1>4. CASE GptClosing
  <2>1. /\ pc = "gptClosing" /\ pc' \in {"cleanup", "staticClosing", "killed"}
        /\ UNCHANGED followup_index /\ quoted' = buffer
    BY <1>4 DEF GptClosing, Send, ProcessDies
  <2>. QED
    BY <2>1 DEF Reply
<1>5. CASE StaticClosing
  <2>1. /\ pc = "staticClosing" /\ pc' \in {"cleanup", "killed"}
        /\ UNCHANGED <<followup_index, quoted, gpt_session>>
    BY <1>5 DEF StaticClosing, Send, ProcessDies, sessionVars, gptVars
  <2>. QED
    BY <2>1 DEF Reply
<1>6. CASE Cleanup
  BY <1>6 DEF Cleanup
<1>. QED
  BY <1>1, <1>2, <1>3, <1>4, <1>5, <1>6

LEMMA NextPromptInv ==
    ASSUME OneRead
    PROVE  TypeInv /\ LinkInv /\ CoreInv /\ PromptInv /\ [Next]_vars => PromptInv'
<1>. SUFFICES ASSUME TypeInv, LinkInv, CoreInv, PlaceInv, QuoteInv, [Next]_vars
              PROVE  PlaceInv' /\ QuoteInv'
  BY DEF PromptInv
<1>1. CASE ServerNext /\ UNCHANGED robotVars
  BY <1>1, ServerPlaceStep, AssessmentQuote, TransitionQuote, FollowupQuote DEF ServerNext
<1>2. CASE RobotNext /\ UNCHANGED serverVars
  <2>1. PlaceInv'
    BY <1>2, RobotPlaceStep
  <2>2. clientOpen' => clientOpen \/ pc = "start"
    BY <1>2 DEF RobotNext, RobotReads, UserAnswers, ConnectToServer, ConnectionRefused, Engage,
       Decline, Consent, LastUserLeaves, AssessmentReads, AssessmentReadEnds, ClientReads,
       ClientDrains, ConfirmTransition, FollowUpReads, FollowUpReadEnds, EndConversation,
       AnswerQuestion, AnswerFollowUp, RobotCrash, ClientCloses, ClientSends, linkVars, LinkInv
  <2>3. QuoteInv'
    BY <1>2, <2>2 DEF serverVars, sessionVars, gptVars, QuoteInv, PromptQuotesLastAnswer, Reply
  <2>. QED
    BY <2>1, <2>3
<1>3. CASE UNCHANGED vars
  <2>1. /\ UNCHANGED <<pc, questionIndex, responses, followup_index, buffer, quoted, gpt_session>>
        /\ UNCHANGED <<toClient, toServer, clientOpen, flow, isWaitingForAnswer, currentQuestion>>
    BY <1>3 DEF vars, serverVars, sessionVars, gptVars, linkVars, robotVars
  <2>2. LinesInv' /\ HushInv'
    BY <2>1 DEF PlaceInv, LinesInv, HushInv, Assessing
  <2>3. TransitionInv'
    BY <2>1 DEF PlaceInv, TransitionInv, AllResults, Transition, Confirming, Confirmed
  <2>4. RepliesInv'
    BY <2>1 DEF PlaceInv, RepliesInv, Asked, Heard, Answered, Dropped
  <2>5. QuoteInv'
    BY <2>1 DEF QuoteInv, PromptQuotesLastAnswer, Reply
  <2>. QED
    BY <2>2, <2>3, <2>4, <2>5 DEF PlaceInv
<1>. QED
  BY <1>1, <1>2, <1>3 DEF Next, Terminated

LEMMA PromptsInvariant ==
    ASSUME OneRead
    PROVE  Spec => [](TypeInv /\ PromptInv)
<1>1. Init => TypeInv /\ LinkInv /\ CoreInv /\ PromptInv
  BY InitTypeInv, InitLinkInv, InitCoreInv, InitPromptInv
<1>2. TypeInv /\ LinkInv /\ CoreInv /\ PromptInv /\ [Next]_vars
        => TypeInv' /\ LinkInv' /\ CoreInv' /\ PromptInv'
  BY NextTypeInv, NextLinkInv, NextCoreInv, NextPromptInv
<1>. QED
  BY <1>1, <1>2, PTL DEF Spec

\* Every prompt quotes the reply to the question just before it, and a closing
\* that follows a follow-up answer quotes the last of them, whoever leaves,
\* dies or is refused and whatever GPT does: only a spoken answer too long for
\* one read (connection.c:154, 252, 310) can put another reply in its place
\* (connection.c:121-124, 281-283, 332).
THEOREM PromptsQuoteTheReply ==
    "longAnswer" \notin PeerFaults => (Spec => []PromptQuotesLastAnswer)
<1>. SUFFICES ASSUME OneRead PROVE Spec => []PromptQuotesLastAnswer
  BY DEF OneRead
<1>1. PromptInv => PromptQuotesLastAnswer
  BY DEF PromptInv, QuoteInv
<1>. QED
  BY <1>1, PromptsInvariant, PTL

\* The k-th follow-up reply the server counts is the reply to its k-th
\* follow-up question, under the same condition (connection.c:309-321).
THEOREM FollowupsMatch ==
    "longAnswer" \notin PeerFaults => (Spec => []FollowupAnswersMatch)
<1>. SUFFICES ASSUME OneRead PROVE Spec => []FollowupAnswersMatch
  BY DEF OneRead
<1>1. PromptInv => FollowupAnswersMatch
  BY DEF PromptInv, QuoteInv, Reply, Text, Line, FollowupAnswersMatch
<1>. QED
  BY <1>1, PromptsInvariant, PTL
=============================================================================
