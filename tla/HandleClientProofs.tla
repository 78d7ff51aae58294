------------------------ MODULE HandleClientProofs ------------------------
(***************************************************************************)
(* What holds of the server's thread and its connection whoever the client *)
(* is: lemmas about the operators the model is built from, then that every *)
(* step of the thread keeps the types, the loop bounds, and what the two   *)
(* ends of the connection know of each other.                              *)
(***************************************************************************)
EXTENDS HandleClient, SequenceTheorems, TLAPS

USE NumQuestionsAssumption, GptAssumption, NumFollowupsAssumption

(***************************************************************************)
(* Lemmas about the operators the model is built from.                     *)
(***************************************************************************)

\* What remains of a queue when its first n elements are taken off.
LEMMA DropProperties ==
    ASSUME NEW S, NEW s \in Seq(S), NEW n \in 0 .. Len(s)
    PROVE  LET t == SubSeq(s, n + 1, Len(s))
           IN  /\ t \in Seq(S)
               /\ Len(t) = Len(s) - n
               /\ \A i \in 1 .. Len(t) : t[i] = s[i + n]
<1>1. Len(s) \in Nat
  OBVIOUS
<1>2. \A i \in n + 1 .. Len(s) : s[i] \in S
  BY ElementOfSeq
<1>3. n + 1 \in Int /\ Len(s) \in Int
  BY <1>1
<1>. DEFINE t == SubSeq(s, n + 1, Len(s))
<1>4. /\ t \in Seq(S)
      /\ Len(t) = IF n + 1 <= Len(s) THEN Len(s) - (n + 1) + 1 ELSE 0
      /\ \A i \in 1 .. Len(s) - (n + 1) + 1 : t[i] = s[n + 1 + i - 1]
  BY <1>2, <1>3, SubSeqProperties
<1>. HIDE DEF t
<1>5. Len(t) = Len(s) - n
  BY <1>1, <1>4
<1>6. ASSUME NEW i \in 1 .. Len(t) PROVE t[i] = s[i + n]
  <2>1. i \in 1 .. Len(s) - (n + 1) + 1 /\ n + 1 + i - 1 = i + n
    BY <1>1, <1>5
  <2>. QED
    BY <1>4, <2>1, Zenon
<1>. QED
  BY <1>4, <1>5, <1>6 DEF t

\* A queue with an n-th element has a first one.
LEMMA HeadOfQueue ==
    ASSUME NEW S, NEW s \in Seq(S), NEW n \in 1 .. Len(s)
    PROVE  s # <<>> /\ Head(s) \in S /\ Head(s) = s[1]
<1>1. s # <<>>
  BY EmptySeq
<1>. QED
  BY <1>1, HeadTailProperties

LEMMA ShortSeqs ==
    ASSUME NEW S, NEW x \in S, NEW y \in S
    PROVE  /\ <<x>> \in Seq(S) /\ Len(<<x>>) = 1 /\ <<x>>[1] = x
           /\ <<x, y>> \in Seq(S)
OBVIOUS

\* Whatever the answers are, the style is one of the three.
LEMMA StyleOfIsStyle ==
    ASSUME NEW r
    PROVE  StyleOf(r) \in Styles
BY DEF StyleOf, Styles

\* A call of GPT appends zero to two messages.
LEMMA AppendedBound ==
    ASSUME NEW outcome \in GptOutcomes, message_count \in Nat
    PROVE  /\ Appended(outcome) \in 0 .. 2
           /\ ~Replied(outcome) => Appended(outcome) \in 0 .. 1
BY DEF GptOutcomes, Appended, Replied

\* A send keeps the link well typed, and continues at next or ends the process.
LEMMA SendType ==
    ASSUME LinkTypeOK, NEW m \in Messages, NEW next, Send(m, next)
    PROVE  /\ LinkTypeOK'
           /\ pc' \in {next, "killed"}
<1>1. CASE serverErr = "pipe"
  BY <1>1, EmptySeq DEF Send, ProcessDies, ServerCloses, LinkTypeOK
<1>2. CASE serverErr # "pipe"
  <2>1. toClient' \in Seq(Messages)
    BY <1>2, AppendProperties DEF Send, ServerSends, LinkTypeOK
  <2>. QED
    BY <1>2, <2>1 DEF Send, ServerSends, LinkTypeOK
<1>. QED
  BY <1>1, <1>2

\* So does a read, which leaves a line in the buffer.
LEMMA ReadLineType ==
    ASSUME LinkTypeOK, ReadLine
    PROVE  LinkTypeOK' /\ buffer' \in Lines
<1>1. PICK n \in ReadSizes : ServerReads(n) /\ buffer' = Head(toServer)
  BY DEF ReadLine
<1>2. n \in 0 .. Len(toServer) /\ toServer # <<>> /\ toServer \in Seq(Lines)
  BY EmptySeq DEF ReadSizes, LinkTypeOK
<1>3. toServer' \in Seq(Lines)
  BY <1>1, <1>2, DropProperties DEF ServerReads
<1>4. buffer' \in Lines
  BY <1>1, <1>2, HeadTailProperties
<1>. QED
  BY <1>1, <1>3, <1>4 DEF ServerReads, LinkTypeOK

\* A read of the robot takes messages off the queue, the first one included.
LEMMA ClientReadsType ==
    ASSUME LinkTypeOK, NEW n, LineEnds(n), ClientReads(n)
    PROVE  /\ LinkTypeOK'
           /\ toClient # <<>> /\ Head(toClient) \in Messages
<1>1. n \in 0 .. Len(toClient) /\ toClient # <<>> /\ toClient \in Seq(Messages)
  BY EmptySeq DEF LineEnds, LinkTypeOK
<1>2. toClient' \in Seq(Messages)
  BY <1>1, DropProperties DEF ClientReads
<1>. QED
  BY <1>1, <1>2, HeadTailProperties DEF ClientReads, LinkTypeOK

LEMMA ClientSendsType ==
    ASSUME LinkTypeOK, NEW pieces \in Seq(Lines), ClientSends(pieces)
    PROVE  LinkTypeOK'
<1>1. toServer' \in Seq(Lines)
  BY ConcatProperties DEF ClientSends, LinkTypeOK
<1>. QED
  BY <1>1 DEF ClientSends, LinkTypeOK

LEMMA ClosesType ==
    ASSUME LinkTypeOK
    PROVE  /\ ServerCloses => LinkTypeOK'
           /\ ClientCloses => LinkTypeOK'
           /\ ServerReadFails => LinkTypeOK'
           /\ ClientDrains => LinkTypeOK'
           /\ Connect => LinkTypeOK'
BY EmptySeq DEF LinkTypeOK, ServerCloses, ClientCloses, ServerReadFails,
                ClientDrains, Connect

\* The lines and messages the two programs build are well typed.
LEMMA LineTypes ==
    /\ \A r \in Ratings, num \in Nat : Rating(r, num) \in Lines
    /\ \A num \in Nat, more \in BOOLEAN : Text(num, more) \in Lines
    /\ Ready \in Lines /\ NoLine \in Lines
BY DEF Rating, Text, Ready, NoLine, Line, Lines, Ratings

LEMMA MessageTypes ==
    /\ \A num \in Nat, whole \in BOOLEAN :
          Ask(num, whole) \in Messages /\ Followup(num, whole) \in Messages
    /\ \A style \in Styles : Result(style) \in Messages /\ StateChange(style) \in Messages
    /\ \A style \in Styles, whole \in BOOLEAN : Closing(style, whole) \in Messages
BY DEF Ask, Followup, Result, StateChange, Closing, Message, Messages

LEMMA MessageParts ==
    \A m \in Messages :
        /\ m.num \in Nat
        /\ m.type \in {"ask", "followup", "result", "state_change", "closing"}
        /\ m.type \in {"ask", "followup"} => m.style = ""
        /\ m.type \notin {"ask", "followup"} => m.style \in Styles
<1>1. TAKE m \in Messages
<1>2. CASE m \in [type : {"ask", "followup"}, num : Nat, style : {""}, whole : BOOLEAN]
  BY <1>2
<1>3. CASE m \in [type : {"result", "state_change", "closing"}, num : {0},
                  style : Styles, whole : BOOLEAN]
  <2>1. m.num = 0 /\ m.style \in Styles /\ m.type \in {"result", "state_change", "closing"}
    BY <1>3, Zenon
  <2>2. m.num \in Nat
    BY <2>1
  <2>3. m.type \notin {"ask", "followup"}
    BY <2>1
  <2>. QED
    BY <2>1, <2>2, <2>3, Zenon
<1>. QED
  BY <1>2, <1>3 DEF Messages
(***************************************************************************)
(* The thread's steps.                                                     *)
(***************************************************************************)

\* The server's steps keep its own variables and the link well typed.
LEMMA ServerTypeStep ==
    ASSUME ServerTypeOK, LinkTypeOK, LoopInv, ServerNext
    PROVE  ServerTypeOK' /\ LinkTypeOK' /\ LoopInv'
<1>. USE DEF ServerTypeOK, LoopInv, Assessing, PCs
<1>0. StyleOf(responses) \in Styles
  BY StyleOfIsStyle
<1>1. CASE CreateSession
  <2>1. gpt_session' \in BOOLEAN
    <3>1. PICK ok \in BOOLEAN : gpt_session' = ok
      BY <1>1, Zenon DEF CreateSession, gpt_create_session
    <3>. QED
      BY <3>1, Zenon
  <2>2. message_count' \in Nat
    BY <1>1 DEF CreateSession, gpt_create_session
  <2>. QED
    BY <1>1, <2>1, <2>2 DEF CreateSession, sessionVars, linkVars, LinkTypeOK
<1>2. CASE AskQuestion
  <2>1. PICK outcome \in GptOutcomes :
          /\ gpt_send_message(outcome)
          /\ IF outcome = "nullContent" THEN ProcessDies
             ELSE Send(Ask(questionIndex + 1, outcome # "longReply"), "readAnswer")
    BY <1>2 DEF AskQuestion
  <2>2. LinkTypeOK' /\ pc' \in {"readAnswer", "killed"}
    <3>1. questionIndex + 1 \in Nat /\ (outcome # "longReply") \in BOOLEAN
      OBVIOUS
    <3>2. Ask(questionIndex + 1, outcome # "longReply") \in Messages
      BY <3>1, MessageTypes, Zenon
    <3>3. CASE outcome = "nullContent"
      BY <2>1, <3>3, ClosesType DEF ProcessDies
    <3>4. CASE outcome # "nullContent"
      BY <2>1, <3>2, <3>4, SendType
    <3>. QED
      BY <3>3, <3>4
  <2>3. message_count' \in Nat /\ gpt_session' \in BOOLEAN
    BY <2>1, AppendedBound DEF gpt_send_message
  <2>4. quoted' \in Lines
    BY <1>2, LineTypes DEF AskQuestion, LastReply
  <2>. QED
    BY <1>2, <2>2, <2>3, <2>4 DEF AskQuestion
<1>3. CASE ReadAnswer
  <2>1. LinkTypeOK' /\ buffer' \in Lines
    BY <1>3, ReadLineType DEF ReadAnswer
  <2>2. CASE IsRating(buffer')
    BY <1>3, <2>1, <2>2 DEF ReadAnswer, RecordAnswer, IsRating, gptVars
  <2>3. CASE ~IsRating(buffer')
    BY <1>3, <2>1, <2>3 DEF ReadAnswer, RejectAnswer, gptVars
  <2>. QED
    BY <2>2, <2>3
<1>4. CASE LoseAnswer
  BY <1>4, ClosesType DEF LoseAnswer, sessionVars, gptVars
<1>5. CASE SendResult
  BY <1>0, <1>5, SendType, MessageTypes DEF SendResult, sessionVars, gptVars
<1>6. CASE SendTransition
  BY <1>0, <1>6, SendType, MessageTypes DEF SendTransition, sessionVars, gptVars
<1>7. CASE ReadReady
  <2>1. LinkTypeOK' /\ buffer' \in Lines
    BY <1>7, ReadLineType DEF ReadReady
  <2>. QED
    BY <1>7, <2>1 DEF ReadReady, gptVars
<1>8. CASE LoseReady
  BY <1>8, ClosesType DEF LoseReady, sessionVars, gptVars
<1>9. CASE AskFollowup
  <2>1. PICK outcome \in GptOutcomes :
          /\ gpt_send_message(outcome)
          /\ IF outcome = "nullContent" THEN ProcessDies
             ELSE IF Replied(outcome)
             THEN Send(Followup(followup_index + 1, outcome # "longReply"), "followRead")
             ELSE FollowupFails
    BY <1>9 DEF AskFollowup
  <2>2. LinkTypeOK' /\ pc' \in {"followRead", "gptClosing", "killed"}
    <3>1. followup_index + 1 \in Nat /\ (outcome # "longReply") \in BOOLEAN
      OBVIOUS
    <3>2. Followup(followup_index + 1, outcome # "longReply") \in Messages
      BY <3>1, MessageTypes, Zenon
    <3>3. CASE outcome = "nullContent"
      BY <2>1, <3>3, ClosesType DEF ProcessDies
    <3>4. CASE outcome # "nullContent" /\ Replied(outcome)
      BY <2>1, <3>2, <3>4, SendType
    <3>5. CASE outcome # "nullContent" /\ ~Replied(outcome)
      BY <2>1, <3>5 DEF FollowupFails, linkVars, LinkTypeOK
    <3>. QED
      BY <3>3, <3>4, <3>5
  <2>3. message_count' \in Nat /\ gpt_session' \in BOOLEAN
    BY <2>1, AppendedBound DEF gpt_send_message
  <2>4. quoted' \in Lines
    BY <1>9, LineTypes DEF AskFollowup
  <2>. QED
    BY <1>9, <2>2, <2>3, <2>4 DEF AskFollowup
<1>10. CASE ReadFollowup
  <2>1. LinkTypeOK' /\ buffer' \in Lines
    BY <1>10, ReadLineType DEF ReadFollowup
  <2>. QED
    BY <1>10, <2>1 DEF ReadFollowup, CountFollowup, gptVars
<1>11. CASE LoseFollowup
  BY <1>11, ClosesType DEF LoseFollowup, sessionVars, gptVars
<1>12. CASE GptClosing
  <2>1. PICK outcome \in GptOutcomes :
          /\ gpt_send_message(outcome)
          /\ IF outcome = "nullContent" THEN ProcessDies
             ELSE IF Replied(outcome)
             THEN Send(Closing(StyleOf(responses), outcome # "longReply"), "cleanup")
             ELSE pc' = "staticClosing" /\ UNCHANGED linkVars
    BY <1>12 DEF GptClosing
  <2>2. LinkTypeOK' /\ pc' \in {"cleanup", "staticClosing", "killed"}
    <3>1. (outcome # "longReply") \in BOOLEAN
      OBVIOUS
    <3>2. Closing(StyleOf(responses), outcome # "longReply") \in Messages
      BY <1>0, <3>1, MessageTypes, Zenon
    <3>3. CASE outcome = "nullContent"
      BY <2>1, <3>3, ClosesType DEF ProcessDies
    <3>4. CASE outcome # "nullContent" /\ Replied(outcome)
      BY <2>1, <3>2, <3>4, SendType
    <3>5. CASE outcome # "nullContent" /\ ~Replied(outcome)
      BY <2>1, <3>5 DEF linkVars, LinkTypeOK
    <3>. QED
      BY <3>3, <3>4, <3>5
  <2>3. message_count' \in Nat /\ gpt_session' \in BOOLEAN
    BY <2>1, AppendedBound DEF gpt_send_message
  <2>4. quoted' \in Lines
    BY <1>12 DEF GptClosing
  <2>. QED
    BY <1>12, <2>2, <2>3, <2>4 DEF GptClosing
<1>13. CASE StaticClosing
  <2>1. Closing(StyleOf(responses), TRUE) \in Messages
    BY <1>0, MessageTypes, Zenon
  <2>2. LinkTypeOK' /\ pc' \in {"cleanup", "killed"}
    BY <1>13, <2>1, SendType, Zenon DEF StaticClosing
  <2>. QED
    BY <1>13, <2>2 DEF StaticClosing, sessionVars, gptVars
<1>14. CASE Cleanup
  <2>1. LinkTypeOK'
    BY <1>14, ClosesType DEF Cleanup
  <2>2. gpt_session' \in BOOLEAN
    BY <1>14, Zenon DEF Cleanup, gpt_destroy_session
  <2>3. UNCHANGED message_count
    BY <1>14 DEF Cleanup, gpt_destroy_session
  <2>4. pc' = "done" /\ UNCHANGED sessionVars
    BY <1>14 DEF Cleanup
  <2>. QED
    BY <2>1, <2>2, <2>3, <2>4 DEF sessionVars
<1>. QED
  BY <1>1, <1>2, <1>3, <1>4, <1>5, <1>6, <1>7, <1>8, <1>9, <1>10, <1>11, <1>12,
     <1>13, <1>14 DEF ServerNext
\* How a send leaves the two ends.
LEMMA SendEnds ==
    ASSUME EndsInv, NEW m, NEW next \in PCs \ {"start", "done", "killed"},
           serverOpen, pc # "start", Send(m, next)
    PROVE  EndsInv'
<1>1. CASE serverErr = "pipe"
  BY <1>1 DEF Send, ProcessDies, ServerCloses, EndsInv
<1>2. CASE serverErr # "pipe"
  BY <1>2 DEF Send, ServerSends, EndsInv, PCs
<1>. QED
  BY <1>1, <1>2
\* A read takes lines off the server's queue and leaves the rest of the link.
LEMMA ReadLineLink ==
    ASSUME LinkTypeOK, ReadLine
    PROVE  /\ toServer # <<>>
           /\ UNCHANGED <<toClient, serverOpen, clientOpen, serverErr, clientErr>>
BY EmptySeq DEF ReadLine, ReadSizes, ServerReads, LinkTypeOK
\* No step of the thread disturbs what the ends know of each other.
LEMMA ServerEndsStep ==
    ASSUME EndsInv, LinkTypeOK, ServerNext
    PROVE  EndsInv'
<1>. USE DEF PCs
<1>0. ASSUME ReadLine
      PROVE  /\ toServer # <<>> /\ serverOpen
             /\ UNCHANGED <<toClient, serverOpen, clientOpen, serverErr, clientErr>>
  BY <1>0, ReadLineLink DEF EndsInv
<1>1. CASE CreateSession
  BY <1>1 DEF CreateSession, linkVars, EndsInv
<1>2. CASE AskQuestion
  BY <1>2, SendEnds DEF AskQuestion, ProcessDies, ServerCloses, EndsInv
<1>3. CASE ReadAnswer
  <2>1. pc' \in {"ask", "sendResult"}
    BY <1>3 DEF ReadAnswer, RecordAnswer, RejectAnswer
  <2>. QED
    BY <1>3, <1>0, <2>1 DEF ReadAnswer, EndsInv
<1>4. CASE LoseAnswer
  BY <1>4 DEF LoseAnswer, ServerReadFails, EndsInv
<1>5. CASE SendResult
  BY <1>5, SendEnds DEF SendResult, EndsInv
<1>6. CASE SendTransition
  BY <1>6, SendEnds DEF SendTransition, EndsInv
<1>7. CASE ReadReady
  <2>1. pc' \in {"followAsk", "staticClosing", "cleanup"}
    BY <1>7 DEF ReadReady
  <2>. QED
    BY <1>7, <1>0, <2>1 DEF ReadReady, EndsInv
<1>8. CASE LoseReady
  BY <1>8 DEF LoseReady, ServerReadFails, EndsInv
<1>9. CASE AskFollowup
  BY <1>9, SendEnds DEF AskFollowup, FollowupFails, ProcessDies, ServerCloses, linkVars, EndsInv
<1>10. CASE ReadFollowup
  <2>1. pc' \in {"followAsk", "gptClosing"}
    BY <1>10 DEF ReadFollowup, CountFollowup
  <2>. QED
    BY <1>10, <1>0, <2>1 DEF ReadFollowup, EndsInv
<1>11. CASE LoseFollowup
  BY <1>11 DEF LoseFollowup, ServerReadFails, EndsInv
<1>12. CASE GptClosing
  BY <1>12, SendEnds DEF GptClosing, ProcessDies, ServerCloses, linkVars, EndsInv
<1>13. CASE StaticClosing
  BY <1>13, SendEnds DEF StaticClosing, EndsInv
<1>14. CASE Cleanup
  BY <1>14 DEF Cleanup, ServerCloses, EndsInv
<1>. QED
  BY <1>1, <1>2, <1>3, <1>4, <1>5, <1>6, <1>7, <1>8, <1>9, <1>10, <1>11, <1>12,
     <1>13, <1>14 DEF ServerNext
\* What a send does to the queues: the message is appended when the client is
\* there to receive it, and the process dies only when it is not.
LEMMA SendReaches ==
    ASSUME EndsInv, LinkTypeOK, NEW m, NEW next, Send(m, next)
    PROVE  /\ UNCHANGED clientOpen
           /\ \/ pc' = "killed" /\ ~clientOpen /\ toClient' = <<>> /\ toServer' = <<>>
              \/ /\ pc' = next /\ UNCHANGED toServer
                 /\ \/ clientOpen /\ toClient' = Append(toClient, m)
                    \/ ~clientOpen /\ toClient' = <<>>
<1>1. CASE serverErr = "pipe"
  BY <1>1 DEF Send, ProcessDies, ServerCloses, EndsInv
<1>2. CASE serverErr # "pipe"
  BY <1>2 DEF Send, ServerSends, EndsInv, LinkTypeOK
<1>. QED
  BY <1>1, <1>2
===========================================================================
