---------------------------- MODULE SessionProofs ----------------------------
(***************************************************************************)
(* Proofs about Session: what the server's thread guarantees a client that *)
(* sends lines of any kind and length at any time and hangs up at any      *)
(* time, for every number of questions, follow-ups and pieces of line and  *)
(* every failure of GPT.  The layers: types and the ends of the connection *)
(* (HandleClientProofs), the queue as the end of what was sent, the        *)
(* transcript, the answers, and the length of the GPT history.             *)
(***************************************************************************)
EXTENDS Session, HandleClientProofs

USE NumQuestionsAssumption, GptAssumption, NumFollowupsAssumption, SessionAssumption
    DEF EndsInv

TypeInv == TypeOK /\ LoopInv /\ EndsInv /\ DialInv

LEMMA Typed ==
    ASSUME TypeInv
    PROVE  /\ toClient \in Seq(Messages) /\ toServer \in Seq(Lines)
           /\ sent \in Seq(SendablePieces)
           /\ Len(toClient) \in Nat /\ Len(toServer) \in Nat /\ Len(sent) \in Nat
           /\ questionIndex \in 0 .. NumQuestions /\ followup_index \in 0 .. NumFollowups
           /\ responses \in [Questions -> Ratings \cup {Unanswered}]
           /\ message_count \in Nat /\ buffer \in Lines
           /\ LinkTypeOK /\ ServerTypeOK
           /\ StyleOf(responses) \in Styles
BY StyleOfIsStyle DEF TypeInv, TypeOK, ServerTypeOK, LinkTypeOK

\* The pieces of the client: of all of them only READY_FOR_FOLLOWUP compares equal to it.
LEMMA SendableAreLines ==
    \A piece \in SendablePieces : piece \in Lines /\ (piece.kind = "ready" => piece = Ready)
<1>1. ASSUME NEW kind \in {"low", "high", "junk"}, NEW more \in BOOLEAN
      PROVE  Piece(kind, more) \in Lines /\ Piece(kind, more).kind # "ready"
  <2>1. CASE kind = "low"
    <3>1. Piece(kind, more) = Line("rating", 1, 0, more)
      BY <2>1 DEF Piece
    <3>. QED
      BY <3>1 DEF Line, Lines
  <2>2. CASE kind = "high"
    <3>1. Piece(kind, more) = Line("rating", 7, 0, more)
      BY <2>2 DEF Piece
    <3>. QED
      BY <3>1 DEF Line, Lines
  <2>3. CASE kind = "junk"
    <3>1. Piece(kind, more) = Line("junk", 0, 0, more)
      BY <2>3 DEF Piece
    <3>. QED
      BY <3>1 DEF Line, Lines
  <2>. QED
    BY <2>1, <2>2, <2>3
<1>2. Piece("ready", FALSE) = Ready /\ Ready \in Lines
  BY LineTypes DEF Piece, Ready
<1>3. TAKE piece \in SendablePieces
<1>4. \/ \E kind \in PeerLines : piece = Piece(kind, FALSE)
      \/ \E kind \in PeerParts : piece = Piece(kind, TRUE)
  BY DEF SendablePieces
<1>5. CASE \E kind \in PeerParts : piece = Piece(kind, TRUE)
  BY <1>1, <1>5
<1>6. CASE \E kind \in PeerLines : piece = Piece(kind, FALSE)
  <2>1. PICK kind \in PeerLines : piece = Piece(kind, FALSE)
    BY <1>6
  <2>2. kind = "ready" \/ kind \in {"low", "high", "junk"}
    OBVIOUS
  <2>. QED
    BY <1>1, <1>2, <2>1, <2>2
<1>. QED
  BY <1>4, <1>5, <1>6

(***************************************************************************)
(* Types and ends.                                                         *)
(***************************************************************************)

LEMMA InitTypeInv == Init => TypeInv
<1>. SUFFICES ASSUME Init PROVE TypeInv
  OBVIOUS
<1>1. LinkTypeOK
  BY EmptySeq DEF Init, LinkInit, LinkTypeOK
<1>2. ServerTypeOK
  <2>1. responses \in [Questions -> Ratings \cup {Unanswered}]
    BY DEF Init, ServerInit
  <2>2. gpt_session \in BOOLEAN
    BY Zenon DEF Init, ServerInit, GptInit
  <2>3. pc \in PCs /\ questionIndex = 0 /\ followup_index = 0 /\ message_count = 0
    BY DEF Init, ServerInit, GptInit, PCs
  <2>4. buffer \in Lines /\ quoted \in Lines
    BY LineTypes DEF Init, ServerInit
  <2>. QED
    BY <2>1, <2>2, <2>3, <2>4 DEF ServerTypeOK
<1>3. sent \in Seq(SendablePieces)
  BY EmptySeq DEF Init
<1>4. LoopInv
  BY DEF Init, ServerInit, GptInit, LoopInv, Assessing
<1>5. EndsInv
  BY DEF Init, ServerInit, LinkInit
<1>6. DialInv
  BY DEF Init, ServerInit, LinkInit, DialInv
<1>. QED
  BY <1>1, <1>2, <1>3, <1>4, <1>5, <1>6 DEF TypeInv, TypeOK

\* What a piece sent does to the queue and to the record of what was sent.
LEMMA PeerSendsEffect ==
    ASSUME TypeInv, NEW piece \in SendablePieces, PeerSends(piece)
    PROVE  /\ piece \in Lines
           /\ sent' = Append(sent, piece)
           /\ toServer' = IF serverOpen THEN Append(toServer, piece) ELSE toServer
           /\ clientOpen /\ UNCHANGED <<serverVars, toClient, serverOpen, clientOpen>>
<1>1. piece \in Lines
  BY SendableAreLines
<1>2. toServer \o <<piece>> = Append(toServer, piece)
  BY <1>1, Typed, AppendIsConcat
<1>. QED
  BY <1>1, <1>2, Zenon DEF PeerSends, ClientSends, ClientCanSend

\* A step of the thread starts it, if it had not.
LEMMA ServerHasStarted ==
    ASSUME ServerNext
    PROVE  pc' # "start"
<1>1. ASSUME NEW m, NEW next, next # "start", Send(m, next) \/ ProcessDies
      PROVE  pc' # "start"
  BY <1>1 DEF Send, ProcessDies
<1>. QED
  BY <1>1 DEF ServerNext, CreateSession, AskQuestion, ReadAnswer, RecordAnswer, RejectAnswer,
     LoseAnswer, SendResult, SendTransition, ReadReady, LoseReady, AskFollowup, FollowupFails,
     ReadFollowup, CountFollowup, LoseFollowup, GptClosing, StaticClosing, Cleanup

LEMMA NextTypeInv == TypeInv /\ [Next]_vars => TypeInv'
<1>. SUFFICES ASSUME TypeInv, [Next]_vars PROVE TypeInv'
  OBVIOUS
<1>1. CASE ServerNext /\ UNCHANGED sent
  <2>1. ServerTypeOK' /\ LinkTypeOK' /\ LoopInv'
    BY <1>1, Typed, ServerTypeStep DEF TypeInv
  <2>2. EndsInv'
    <3>1. EndsInv
      BY DEF TypeInv
    <3>. HIDE DEF EndsInv
    <3>. QED
      BY <1>1, <3>1, Typed, ServerEndsStep
  <2>3. DialInv'
    BY <1>1, ServerHasStarted DEF DialInv
  <2>. QED
    BY <1>1, <2>1, <2>2, <2>3 DEF TypeInv, TypeOK
<1>2. ASSUME UNCHANGED serverVars
      PROVE  ServerTypeOK' /\ LoopInv'
  BY <1>2 DEF serverVars, sessionVars, gptVars, TypeInv, TypeOK, ServerTypeOK, LoopInv,
              Assessing
<1>3. CASE PeerConnects
  <2>1. LinkTypeOK'
    BY <1>3, Typed, ClosesType DEF PeerConnects
  <2>. QED
    BY <1>2, <1>3, <2>1 DEF PeerConnects, Connect, TypeInv, TypeOK, DialInv, serverVars
<1>4. CASE \E piece \in SendablePieces : PeerSends(piece)
  <2>1. PICK piece \in SendablePieces : PeerSends(piece)
    BY <1>4
  <2>2. /\ piece \in Lines /\ sent' = Append(sent, piece)
        /\ toServer' = IF serverOpen THEN Append(toServer, piece) ELSE toServer
        /\ clientOpen /\ UNCHANGED <<serverVars, toClient, serverOpen, clientOpen>>
    BY <2>1, PeerSendsEffect, Zenon
  <2>3. sent' \in Seq(SendablePieces) /\ toServer' \in Seq(Lines)
    BY <2>2, Typed, AppendProperties
  <2>4. LinkTypeOK' /\ EndsInv' /\ DialInv'
    BY <2>1, <2>2, <2>3 DEF PeerSends, ClientCanSend, ClientSends, TypeInv, TypeOK,
       LinkTypeOK, serverVars, DialInv
  <2>. QED
    BY <1>2, <2>2, <2>3, <2>4 DEF TypeInv, TypeOK
<1>5. CASE PeerHangsUp
  <2>1. LinkTypeOK'
    BY <1>5, Typed, ClosesType DEF PeerHangsUp
  <2>. QED
    BY <1>2, <1>5, <2>1 DEF PeerHangsUp, ClientCloses, serverVars, TypeInv, TypeOK, DialInv
<1>6. CASE UNCHANGED vars
  BY <1>2, <1>6 DEF vars, linkVars, serverVars, TypeInv, TypeOK, LinkTypeOK, DialInv
<1>. QED
  BY <1>1, <1>3, <1>4, <1>5, <1>6 DEF Next

\* Every variable of the thread and of its connection stays in its set whatever
\* the client sends: the indices within the loops' bounds (connection.c:87,
\* 111, 275), pc at a statement.
THEOREM TypeCorrect == Spec => []TypeOK
<1>1. TypeInv => TypeOK
  BY DEF TypeInv
<1>. QED
  BY <1>1, InitTypeInv, NextTypeInv, PTL DEF Spec

(***************************************************************************)
(* The queue is the end of what was sent, and the answers are taken from   *)
(* what left it, in its order.                                             *)
(***************************************************************************)

\* A read takes lines off the front of the queue and keeps the first of them.
LEMMA ReadLineEffect ==
    ASSUME TypeInv, ReadLine
    PROVE  /\ 1 \in 1 .. Len(toServer) /\ buffer' = toServer[1]
           /\ toServer' \in Seq(Lines) /\ UNCHANGED toClient
           /\ Len(toServer') < Len(toServer)
           /\ \A i \in 1 .. Len(toServer') :
                  toServer'[i] = toServer[i + (Len(toServer) - Len(toServer'))]
<1>1. PICK n \in ReadSizes : ServerReads(n) /\ buffer' = Head(toServer)
  BY DEF ReadLine
<1>2. toServer \in Seq(Lines) /\ Len(toServer) \in Nat /\ n \in 1 .. Len(toServer)
  BY <1>1, Typed DEF ReadSizes
<1>3. Head(toServer) = toServer[1]
  BY <1>2, HeadOfQueue
<1>. DEFINE t == SubSeq(toServer, n + 1, Len(toServer))
<1>4. /\ t \in Seq(Lines) /\ Len(t) = Len(toServer) - n
      /\ \A i \in 1 .. Len(t) : t[i] = toServer[i + n]
  BY <1>2, DropProperties
<1>5. toServer' = t /\ UNCHANGED toClient
  BY <1>1 DEF ServerReads
<1>. HIDE DEF t
<1>6. n = Len(toServer) - Len(toServer')
  BY <1>2, <1>4, <1>5
<1>7. \A i \in 1 .. Len(toServer') :
          toServer'[i] = toServer[i + (Len(toServer) - Len(toServer'))]
  BY <1>4, <1>5, <1>6
<1>. QED
  BY <1>1, <1>2, <1>3, <1>4, <1>5, <1>6, <1>7

\* The thread's other steps leave the queue or, closing the socket, drop it.
LEMMA ServerQueueEffect ==
    ASSUME ServerNext
    PROVE  toServer' = toServer \/ toServer' = <<>> \/ ReadLine
<1>1. ASSUME NEW m, NEW next, Send(m, next) \/ ProcessDies
      PROVE  toServer' = toServer \/ toServer' = <<>>
  BY <1>1 DEF Send, ProcessDies, ServerSends, ServerCloses
<1>2. CASE AskQuestion \/ SendResult \/ SendTransition \/ AskFollowup \/ GptClosing
           \/ StaticClosing
  BY <1>1, <1>2 DEF AskQuestion, SendResult, SendTransition, AskFollowup, FollowupFails,
     GptClosing, StaticClosing, linkVars
<1>3. CASE CreateSession \/ LoseAnswer \/ LoseReady \/ LoseFollowup \/ Cleanup
  BY <1>3 DEF CreateSession, LoseAnswer, LoseReady, LoseFollowup, Cleanup, linkVars,
     ServerReadFails, ServerCloses
<1>4. CASE ReadAnswer \/ ReadReady \/ ReadFollowup
  BY <1>4 DEF ReadAnswer, ReadReady, ReadFollowup
<1>. QED
  BY <1>2, <1>3, <1>4 DEF ServerNext

\* Lines leave the queue in the order sent, and none comes back.
LEMMA ServerQueueStep ==
    ASSUME TypeInv, QueueInv, ServerNext, UNCHANGED sent
    PROVE  /\ QueueInv' /\ Consumed \in Nat /\ Consumed' \in Nat
           /\ Consumed <= Consumed' /\ Consumed' <= Len(sent)
<1>0. Len(sent) \in Nat /\ Len(toServer) \in Nat /\ Len(toServer) <= Len(sent)
  BY Typed DEF QueueInv
<1>1. CASE toServer' = toServer
  BY <1>0, <1>1 DEF QueueInv, Consumed
<1>2. CASE toServer' = <<>>
  <2>1. Len(toServer') = 0
    BY <1>2
  <2>. QED
    BY <1>0, <2>1 DEF QueueInv, Consumed
<1>3. CASE ReadLine
  <2>1. /\ Len(toServer') \in Nat /\ Len(toServer') < Len(toServer)
        /\ \A i \in 1 .. Len(toServer') :
               toServer'[i] = toServer[i + (Len(toServer) - Len(toServer'))]
    BY <1>3, ReadLineEffect
  <2>2. \A i \in 1 .. Len(toServer') : toServer'[i] = sent[Consumed' + i]
    <3>1. TAKE i \in 1 .. Len(toServer')
    <3>. DEFINE j == i + (Len(toServer) - Len(toServer'))
    <3>2. j \in 1 .. Len(toServer) /\ Consumed + j = Consumed' + i
      BY <1>0, <2>1 DEF Consumed
    <3>3. toServer'[i] = toServer[j]
      BY <2>1
    <3>. HIDE DEF j
    <3>. QED
      BY <3>2, <3>3 DEF QueueInv
  <2>3. /\ Consumed \in Nat /\ Consumed' \in Nat
        /\ Consumed <= Consumed' /\ Consumed' <= Len(sent)
    BY <1>0, <2>1 DEF Consumed
  <2>4. QueueInv'
    <3>1. Len(toServer') <= Len(sent')
      BY <1>0, <2>1
    <3>2. \A i \in 1 .. Len(toServer') : toServer'[i] = sent'[Consumed' + i]
      BY <2>2
    <3>. QED
      BY <3>1, <3>2, Zenon DEF QueueInv
  <2>. QED
    BY <2>3, <2>4
<1>. QED
  BY <1>1, <1>2, <1>3, ServerQueueEffect

\* Nor does a step of the client take anything back.
LEMMA PeerQueueStep ==
    ASSUME TypeInv, QueueInv, PeerConnects \/ (\E piece \in SendablePieces : PeerSends(piece))
                              \/ PeerHangsUp
    PROVE  /\ QueueInv' /\ Consumed \in Nat /\ Consumed' \in Nat
           /\ Consumed <= Consumed' /\ Consumed' <= Len(sent')
           /\ Len(sent') \in Nat /\ Len(sent) <= Len(sent')
           /\ \A k \in 1 .. Len(sent) : sent'[k] = sent[k]
<1>0. /\ Len(sent) \in Nat /\ Len(toServer) \in Nat /\ Len(toServer) <= Len(sent)
      /\ sent \in Seq(SendablePieces) /\ toServer \in Seq(Lines)
  BY Typed DEF QueueInv
<1>1. CASE PeerConnects \/ PeerHangsUp
  <2>1. UNCHANGED <<toServer, sent>>
    BY <1>1 DEF PeerConnects, Connect, PeerHangsUp, ClientCloses
  <2>. QED
    BY <1>0, <2>1 DEF QueueInv, Consumed
<1>2. CASE \E piece \in SendablePieces : PeerSends(piece)
  <2>0. PICK piece \in SendablePieces : PeerSends(piece)
    BY <1>2
  <2>1. /\ piece \in Lines /\ sent' = Append(sent, piece)
        /\ toServer' = IF serverOpen THEN Append(toServer, piece) ELSE toServer
    BY <2>0, PeerSendsEffect, Zenon
  <2>2. /\ Len(sent') = Len(sent) + 1 /\ sent'[Len(sent) + 1] = piece
        /\ \A k \in 1 .. Len(sent) : sent'[k] = sent[k]
    BY <1>0, <2>1, AppendProperties
  <2>3. CASE serverOpen
    <3>1. /\ Len(toServer') = Len(toServer) + 1 /\ toServer'[Len(toServer) + 1] = piece
          /\ \A i \in 1 .. Len(toServer) : toServer'[i] = toServer[i]
      BY <1>0, <2>1, <2>3, AppendProperties
    <3>2. Consumed' = Consumed /\ Consumed \in Nat
      BY <1>0, <2>2, <3>1 DEF Consumed
    <3>3. ASSUME NEW i \in 1 .. Len(toServer') PROVE toServer'[i] = sent'[Consumed' + i]
      <4>1. CASE i = Len(toServer) + 1
        <5>1. Consumed' + i = Len(sent) + 1
          BY <1>0, <3>2, <4>1 DEF Consumed
        <5>. QED
          BY <2>2, <3>1, <4>1, <5>1
      <4>2. CASE i # Len(toServer) + 1
        <5>1. i \in 1 .. Len(toServer) /\ Consumed + i \in 1 .. Len(sent)
          BY <1>0, <3>1, <4>2 DEF Consumed
        <5>2. toServer'[i] = toServer[i] /\ toServer[i] = sent[Consumed + i]
          BY <3>1, <5>1 DEF QueueInv
        <5>. QED
          BY <2>2, <3>2, <5>1, <5>2
      <4>. QED
        BY <4>1, <4>2
    <3>. QED
      BY <1>0, <2>2, <3>1, <3>2, <3>3 DEF QueueInv, Consumed
  <2>4. CASE ~serverOpen
    <3>1. toServer' = <<>> /\ Len(toServer) = 0 /\ Len(toServer') = 0
      BY <2>1, <2>4 DEF TypeInv
    <3>. QED
      BY <1>0, <2>2, <3>1 DEF QueueInv, Consumed
  <2>. QED
    BY <2>3, <2>4
<1>. QED
  BY <1>1, <1>2

\* What was found among the first lines is found among more of them.
LEMMA SubSeqGrows ==
    ASSUME NEW n \in Nat, NEW s, NEW m \in Nat, NEW t, NEW m2 \in Nat, NEW t2,
           m <= m2, \A k \in 1 .. m : t2[k] = t[k], IsSubSeqOf(n, s, m, t)
    PROVE  IsSubSeqOf(n, s, m2, t2)
<1>1. PICK f \in [1 .. n -> 1 .. m] :
        /\ \A i, j \in 1 .. n : i < j => f[i] < f[j]
        /\ \A i \in 1 .. n : s[i - 1] = t[f[i]].value
  BY DEF IsSubSeqOf
<1>2. f \in [1 .. n -> 1 .. m2]
  OBVIOUS
<1>3. \A i \in 1 .. n : s[i - 1] = t2[f[i]].value
  BY <1>1
<1>. QED
  BY <1>1, <1>2, <1>3 DEF IsSubSeqOf

\* One more answer, taken from a line behind all those taken so far.
LEMMA SubSeqExtends ==
    ASSUME NEW n \in Nat, NEW s, NEW s2, NEW m \in Nat, NEW t, NEW k \in Nat,
           m < k, \A i \in 1 .. n : s2[i - 1] = s[i - 1], s2[n] = t[k].value,
           IsSubSeqOf(n, s, m, t)
    PROVE  IsSubSeqOf(n + 1, s2, k, t)
<1>1. PICK f \in [1 .. n -> 1 .. m] :
        /\ \A i, j \in 1 .. n : i < j => f[i] < f[j]
        /\ \A i \in 1 .. n : s[i - 1] = t[f[i]].value
  BY DEF IsSubSeqOf
<1>. DEFINE g == [i \in 1 .. n + 1 |-> IF i = n + 1 THEN k ELSE f[i]]
<1>2. \A i \in 1 .. n + 1 : i = n + 1 \/ i \in 1 .. n
  OBVIOUS
<1>3. \A i \in 1 .. n : f[i] \in 1 .. m /\ g[i] = f[i]
  OBVIOUS
<1>4. g \in [1 .. n + 1 -> 1 .. k] /\ g[n + 1] = k
  BY <1>2, <1>3
<1>. HIDE DEF g
<1>5. \A i, j \in 1 .. n + 1 : i < j => g[i] < g[j]
  BY <1>1, <1>2, <1>3, <1>4, SMTT(30)
<1>6. \A i \in 1 .. n + 1 : s2[i - 1] = t[g[i]].value
  <2>1. TAKE i \in 1 .. n + 1
  <2>2. CASE i = n + 1
    <3>1. i - 1 = n
      BY <2>2
    <3>. QED
      BY <1>4, <2>2, <3>1
  <2>3. CASE i \in 1 .. n
    BY <1>1, <1>3, <2>3
  <2>. QED
    BY <1>2, <2>2, <2>3
<1>. QED
  BY <1>4, <1>5, <1>6 DEF IsSubSeqOf

\* Only an accepted reply changes the answers.
LEMMA AnswersChange ==
    ASSUME ServerNext
    PROVE  \/ UNCHANGED <<questionIndex, responses>>
           \/ ReadAnswer /\ IsRating(buffer')
BY DEF ServerNext, CreateSession, AskQuestion, ReadAnswer, RejectAnswer, LoseAnswer,
   SendResult, SendTransition, ReadReady, LoseReady, AskFollowup, ReadFollowup,
   LoseFollowup, GptClosing, StaticClosing, Cleanup, sessionVars

LEMMA ServerRecordStep ==
    ASSUME TypeInv, QueueInv, RecordInv, ServerNext, UNCHANGED sent
    PROVE  RecordInv'
<1>0. /\ Consumed \in Nat /\ Consumed' \in Nat /\ Consumed <= Consumed'
      /\ Consumed' <= Len(sent) /\ Len(sent) \in Nat
      /\ questionIndex \in Nat /\ IsSubSeqOf(questionIndex, responses, Consumed, sent)
  BY ServerQueueStep, Typed DEF RecordInv
<1>1. CASE UNCHANGED <<questionIndex, responses>>
  <2>1. IsSubSeqOf(questionIndex, responses, Consumed', sent)
    BY <1>0, SubSeqGrows
  <2>. QED
    BY <1>1, <2>1 DEF RecordInv
<1>2. CASE ReadAnswer /\ IsRating(buffer')
  <2>1. RecordAnswer(buffer'.value) /\ pc = "readAnswer" /\ ReadLine
    BY <1>2 DEF ReadAnswer
  <2>2. /\ 1 \in 1 .. Len(toServer) /\ buffer' = toServer[1]
        /\ Len(toServer') < Len(toServer) /\ Len(toServer') \in Nat /\ Len(toServer) \in Nat
    BY <2>1, ReadLineEffect, Typed
  <2>3. buffer' = sent[Consumed + 1] /\ Consumed + 1 <= Consumed'
    BY <1>0, <2>2 DEF QueueInv, Consumed
  <2>4. questionIndex \in Questions /\ responses \in [Questions -> Ratings \cup {Unanswered}]
    BY <2>1, Typed DEF TypeInv, LoopInv, Assessing, Questions
  <2>5. /\ questionIndex' = questionIndex + 1
        /\ responses' = [responses EXCEPT ![questionIndex] = sent[Consumed + 1].value]
    BY <2>1, <2>3 DEF RecordAnswer
  <2>6. /\ responses'[questionIndex] = sent[Consumed + 1].value
        /\ \A i \in 1 .. questionIndex : responses'[i - 1] = responses[i - 1]
    <3>1. responses'[questionIndex] = sent[Consumed + 1].value
      BY <2>4, <2>5
    <3>2. ASSUME NEW i \in 1 .. questionIndex PROVE responses'[i - 1] = responses[i - 1]
      <4>1. i - 1 \in Questions /\ i - 1 # questionIndex
        BY <2>4 DEF Questions
      <4>. QED
        BY <2>4, <2>5, <4>1
    <3>. QED
      BY <3>1, <3>2
  <2>7. IsSubSeqOf(questionIndex + 1, responses', Consumed + 1, sent)
    <3>1. Consumed + 1 \in Nat /\ Consumed < Consumed + 1
      BY <1>0
    <3>. QED
      BY <1>0, <2>6, <3>1, SubSeqExtends, Zenon
  <2>8. IsSubSeqOf(questionIndex + 1, responses', Consumed', sent)
    BY <1>0, <2>3, <2>7, SubSeqGrows
  <2>. QED
    BY <2>5, <2>8 DEF RecordInv
<1>. QED
  BY <1>1, <1>2, AnswersChange

LEMMA PeerRecordStep ==
    ASSUME TypeInv, QueueInv, RecordInv, UNCHANGED serverVars,
           PeerConnects \/ (\E piece \in SendablePieces : PeerSends(piece)) \/ PeerHangsUp
    PROVE  RecordInv'
<1>0. /\ Consumed \in Nat /\ Consumed' \in Nat /\ Consumed <= Consumed'
      /\ \A k \in 1 .. Len(sent) : sent'[k] = sent[k]
      /\ questionIndex \in Nat /\ IsSubSeqOf(questionIndex, responses, Consumed, sent)
      /\ Consumed <= Len(sent) /\ Len(sent) \in Nat
  BY PeerQueueStep, Typed DEF RecordInv, QueueInv, Consumed
<1>1. \A k \in 1 .. Consumed : sent'[k] = sent[k]
  BY <1>0
<1>2. IsSubSeqOf(questionIndex, responses, Consumed', sent')
  BY <1>0, <1>1, SubSeqGrows
<1>. QED
  BY <1>2 DEF RecordInv, serverVars, sessionVars

(***************************************************************************)
(* The transcript.                                                         *)
(***************************************************************************)

Transcript == TranscriptInOrder /\ ResultIsComplete /\ FollowUpIsConfirmed
SpeechInv == LastInv /\ PhaseInv /\ Transcript

\* A client that has gone has no transcript.
LEMMA NothingSent ==
    ASSUME toClient' = <<>>
    PROVE  Transcript' /\ \A i \in 1 .. Len(toClient') : FALSE
<1>1. \A i \in 1 .. Len(toClient') : FALSE
  BY EmptySeq
<1>. QED
  BY <1>1 DEF Transcript, TranscriptInOrder, ResultIsComplete, FollowUpIsConfirmed

LEMMA SentStays ==
    ASSUME NEW line, Len(sent) \in Nat, Len(sent') \in Nat, Len(sent) <= Len(sent'),
           \A k \in 1 .. Len(sent) : sent'[k] = sent[k]
    PROVE  Sent(line) => Sent(line)'
BY DEF Sent

\* A message that fits behind the last one, agrees with the answers, and waits
\* for the confirmation if it has to.
Fits(m) ==
    /\ IF toClient = <<>> THEN m.type = "ask" /\ m.num = 1 ELSE Follows(Last, m)
    /\ m.type \in {"result", "state_change", "closing"} =>
           questionIndex = NumQuestions /\ m.style = StyleOf(responses)
    /\ m.type \in {"followup", "closing"} => Sent(Ready)

\* A send appends what fits, or there is nobody to receive it.
LEMMA SendTranscript ==
    ASSUME TypeInv, Transcript, NEW m \in Messages, NEW next, Send(m, next),
           UNCHANGED <<questionIndex, responses, sent>>, clientOpen => Fits(m)
    PROVE  /\ Transcript' /\ UNCHANGED clientOpen
           /\ clientOpen => /\ pc' = next /\ UNCHANGED toServer
                            /\ toClient' # <<>> /\ toClient'[Len(toClient')] = m
                            /\ \A i \in 1 .. Len(toClient') :
                                   \/ toClient'[i] = m
                                   \/ i \in 1 .. Len(toClient) /\ toClient'[i] = toClient[i]
           /\ ~clientOpen => pc' \in {next, "killed"} /\ toClient' = <<>>
<1>0. EndsInv /\ LinkTypeOK /\ toClient \in Seq(Messages) /\ Len(toClient) \in Nat
  BY Typed DEF TypeInv
<1>1. /\ UNCHANGED clientOpen
      /\ \/ pc' = "killed" /\ ~clientOpen /\ toClient' = <<>> /\ toServer' = <<>>
         \/ /\ pc' = next /\ UNCHANGED toServer
            /\ \/ clientOpen /\ toClient' = Append(toClient, m)
               \/ ~clientOpen /\ toClient' = <<>>
  <2>. HIDE DEF EndsInv
  <2>. QED
    BY <1>0, SendReaches
<1>2. CASE ~clientOpen
  BY <1>1, <1>2, NothingSent
<1>3. CASE clientOpen
  <2>1. toClient' = Append(toClient, m) /\ pc' = next /\ UNCHANGED toServer
    BY <1>1, <1>3
  <2>2. /\ Len(toClient') = Len(toClient) + 1 /\ toClient' # <<>>
        /\ toClient'[Len(toClient) + 1] = m
        /\ \A i \in 1 .. Len(toClient) : toClient'[i] = toClient[i]
    BY <1>0, <2>1, AppendProperties
  <2>3. \A i \in 1 .. Len(toClient') : i = Len(toClient) + 1 \/ i \in 1 .. Len(toClient)
    BY <1>0, <2>2
  <2>4. TranscriptInOrder'
    <3>. SUFFICES ASSUME NEW i \in 1 .. Len(toClient')
                  PROVE  IF i = 1 THEN toClient'[i].type = "ask" /\ toClient'[i].num = 1
                         ELSE Follows(toClient'[i - 1], toClient'[i])
      BY DEF TranscriptInOrder, Follows
    <3>1. CASE i \in 1 .. Len(toClient)
      <4>1. i # 1 => i - 1 \in 1 .. Len(toClient)
        BY <1>0, <3>1
      <4>2. toClient'[i] = toClient[i] /\ (i # 1 => toClient'[i - 1] = toClient[i - 1])
        BY <2>2, <3>1, <4>1
      <4>3. IF i = 1 THEN toClient[i].type = "ask" /\ toClient[i].num = 1
            ELSE Follows(toClient[i - 1], toClient[i])
        BY <3>1 DEF Transcript, TranscriptInOrder
      <4>. QED
        BY <4>2, <4>3
    <3>2. CASE i = Len(toClient) + 1 /\ toClient = <<>>
      <4>1. i = 1
        BY <3>2
      <4>. QED
        BY <1>3, <2>2, <3>2, <4>1 DEF Fits
    <3>3. CASE i = Len(toClient) + 1 /\ toClient # <<>>
      <4>1. i # 1 /\ i - 1 = Len(toClient) /\ Len(toClient) \in 1 .. Len(toClient)
        BY <1>0, <3>3, EmptySeq
      <4>2. toClient'[i - 1] = Last /\ toClient'[i] = m
        BY <2>2, <3>3, <4>1 DEF Last
      <4>3. Follows(Last, m)
        BY <1>3, <3>3 DEF Fits
      <4>. QED
        BY <4>1, <4>2, <4>3
    <3>. QED
      BY <2>3, <3>1, <3>2, <3>3
  <2>5. ResultIsComplete'
    BY <1>3, <2>2, <2>3 DEF Transcript, ResultIsComplete, Fits
  <2>6. FollowUpIsConfirmed'
    BY <1>3, <2>2, <2>3 DEF Transcript, FollowUpIsConfirmed, Fits, Sent
  <2>7. \A i \in 1 .. Len(toClient') :
          \/ toClient'[i] = m
          \/ i \in 1 .. Len(toClient) /\ toClient'[i] = toClient[i]
    BY <2>2, <2>3
  <2>. QED
    BY <1>1, <1>3, <2>1, <2>2, <2>4, <2>5, <2>6, <2>7 DEF Transcript
<1>. QED
  BY <1>2, <1>3

\* A step that sends nothing.
LEMMA QuietTranscript ==
    ASSUME Transcript, UNCHANGED <<toClient, sent>>,
           \/ UNCHANGED <<questionIndex, responses>>
           \/ \A i \in 1 .. Len(toClient) : toClient[i].type = "ask"
    PROVE  Transcript'
<1>1. TranscriptInOrder'
  BY DEF Transcript, TranscriptInOrder, Follows
<1>2. ResultIsComplete'
  BY DEF Transcript, ResultIsComplete
<1>3. FollowUpIsConfirmed'
  BY DEF Transcript, FollowUpIsConfirmed, Sent
<1>. QED
  BY <1>1, <1>2, <1>3 DEF Transcript

\* A failed read means that the client has gone.
LEMMA FailedReadGone ==
    ASSUME TypeInv, ServerReadFails
    PROVE  ~clientOpen /\ toClient = <<>> /\ UNCHANGED <<toClient, clientOpen>>
BY DEF TypeInv, ServerReadFails

\* The steps of the questions and the answers.
LEMMA AssessmentSpeech ==
    ASSUME TypeInv, SpeechInv, UNCHANGED sent, LoopInv',
           CreateSession \/ AskQuestion \/ ReadAnswer \/ LoseAnswer
    PROVE  SpeechInv'
<1>0. /\ questionIndex \in 0 .. NumQuestions /\ Assessing /\ Transcript
      /\ \A i \in 1 .. Len(toClient) : toClient[i].type = "ask"
  BY Typed DEF SpeechInv, PhaseInv, Assessing, CreateSession, AskQuestion, ReadAnswer,
               LoseAnswer
<1>1. CASE CreateSession
  <2>1. /\ pc = "start" /\ pc' = "ask" /\ questionIndex = 0
        /\ UNCHANGED <<toClient, clientOpen, questionIndex, responses>>
    BY <1>1 DEF CreateSession, sessionVars, linkVars, TypeInv, LoopInv
  <2>2. Transcript'
    BY <1>0, <2>1, QuietTranscript
  <2>3. LastInv' /\ PhaseInv'
    BY <1>0, <2>1 DEF SpeechInv, LastInv, PhaseInv, Assessing
  <2>. QED
    BY <2>2, <2>3 DEF SpeechInv
<1>2. CASE AskQuestion
  <2>0. pc = "ask" /\ UNCHANGED <<questionIndex, responses>>
    BY <1>2 DEF AskQuestion
  <2>1. CASE ProcessDies
    <3>1. pc' = "killed" /\ UNCHANGED <<toClient, clientOpen>>
      BY <2>1 DEF ProcessDies, ServerCloses
    <3>2. Transcript'
      BY <1>0, <2>0, <3>1, QuietTranscript
    <3>3. LastInv' /\ PhaseInv'
      BY <3>1 DEF LastInv, PhaseInv, Assessing
    <3>. QED
      BY <3>2, <3>3 DEF SpeechInv
  <2>2. ASSUME NEW outcome \in GptOutcomes,
               Send(Ask(questionIndex + 1, outcome # "longReply"), "readAnswer")
        PROVE  SpeechInv'
    <3>. DEFINE m == Ask(questionIndex + 1, outcome # "longReply")
    <3>1. questionIndex + 1 \in Nat /\ (outcome # "longReply") \in BOOLEAN
      BY <1>0
    <3>2. m \in Messages
      BY <3>1, MessageTypes, Zenon
    <3>3. m.type = "ask" /\ m.num = questionIndex + 1
      BY DEF Ask, Message
    <3>4. Send(m, "readAnswer")
      BY <2>2
    <3>. HIDE DEF m
    <3>5. clientOpen => Fits(m)
      <4>. SUFFICES ASSUME clientOpen PROVE Fits(m)
        OBVIOUS
      <4>1. IF toClient = <<>> THEN questionIndex = 0
            ELSE Last.type = "ask" /\ Last.num \in {questionIndex, questionIndex + 1}
        BY <2>0 DEF SpeechInv, LastInv
      <4>2. toClient # <<>> => Follows(Last, m)
        BY <3>3, <4>1 DEF Follows
      <4>3. toClient = <<>> => m.num = 1
        BY <3>3, <4>1
      <4>. QED
        BY <3>3, <4>2, <4>3 DEF Fits
    <3>6. /\ Transcript' /\ UNCHANGED clientOpen
          /\ clientOpen => /\ pc' = "readAnswer" /\ toClient' # <<>>
                           /\ toClient'[Len(toClient')] = m
                           /\ \A i \in 1 .. Len(toClient') :
                                  \/ toClient'[i] = m
                                  \/ i \in 1 .. Len(toClient) /\ toClient'[i] = toClient[i]
          /\ ~clientOpen => pc' \in {"readAnswer", "killed"} /\ toClient' = <<>>
      BY <1>0, <2>0, <3>2, <3>4, <3>5, SendTranscript
    <3>7. \A i \in 1 .. Len(toClient') : toClient'[i].type = "ask"
      BY <1>0, <3>3, <3>6, NothingSent
    <3>8. LastInv' /\ PhaseInv'
      BY <2>0, <3>3, <3>6, <3>7 DEF LastInv, Last, PhaseInv, Assessing
    <3>. QED
      BY <3>6, <3>8 DEF SpeechInv
  <2>. QED
    BY <1>2, <2>1, <2>2 DEF AskQuestion
<1>3. CASE ReadAnswer
  <2>1. UNCHANGED <<toClient, clientOpen>> /\ pc = "readAnswer"
    BY <1>3, ReadLineLink, Typed DEF ReadAnswer
  <2>2. Transcript'
    BY <1>0, <2>1, QuietTranscript
  <2>3. \/ pc' = "ask" /\ questionIndex' \in {questionIndex, questionIndex + 1}
        \/ /\ pc' = "sendResult" /\ questionIndex' = questionIndex + 1
           /\ questionIndex' = NumQuestions
    BY <1>0, <1>3 DEF ReadAnswer, RecordAnswer, RejectAnswer, TypeInv, LoopInv
  <2>4. clientOpen => toClient # <<>> /\ Last.type = "ask" /\ Last.num = questionIndex + 1
    BY <2>1 DEF SpeechInv, LastInv
  <2>5. Last' = Last
    BY <2>1 DEF Last
  <2>6. LastInv' /\ PhaseInv'
    BY <1>0, <2>1, <2>3, <2>4, <2>5 DEF LastInv, PhaseInv, Assessing
  <2>. QED
    BY <2>2, <2>6 DEF SpeechInv
<1>4. CASE LoseAnswer
  <2>1. /\ ~clientOpen' /\ pc' = "sendResult"
        /\ UNCHANGED <<toClient, questionIndex, responses>>
    BY <1>4, FailedReadGone DEF LoseAnswer, sessionVars
  <2>2. Transcript'
    BY <1>0, <2>1, QuietTranscript
  <2>3. LastInv' /\ PhaseInv'
    BY <2>1 DEF LastInv, PhaseInv, Assessing
  <2>. QED
    BY <2>2, <2>3 DEF SpeechInv
<1>. QED
  BY <1>1, <1>2, <1>3, <1>4

\* The steps after the questions leave the answers alone; so what they send is
\* all that has to be looked at.
LEMMA LateSpeech ==
    ASSUME TypeInv, SpeechInv, ~Assessing, UNCHANGED sent,
           UNCHANGED <<questionIndex, responses>>, pc \notin {"done", "killed"},
           NEW m \in Messages, NEW next \in {"sendTransition", "readReady", "followRead",
                                             "cleanup"},
           clientOpen => Fits(m), Send(m, next),
           next = "sendTransition" => m = Result(StyleOf(responses)),
           next = "readReady" => m.type = "state_change",
           next = "followRead" => /\ m.type = "followup" /\ m.num = followup_index' + 1
                                  /\ Sent(Ready)
    PROVE  SpeechInv'
<1>1. /\ Transcript' /\ UNCHANGED clientOpen
      /\ clientOpen => /\ pc' = next /\ toClient' # <<>>
                       /\ toClient'[Len(toClient')] = m
      /\ ~clientOpen => pc' \in {next, "killed"} /\ toClient' = <<>>
  BY SendTranscript DEF SpeechInv
<1>2. clientOpen => questionIndex = NumQuestions
  BY DEF SpeechInv, PhaseInv
<1>3. LastInv'
  BY <1>1 DEF LastInv, Last
<1>4. PhaseInv'
  <2>1. ~Assessing' /\ pc' \in {next, "killed"}
    BY <1>1 DEF Assessing
  <2>2. pc' = "followRead" => Sent(Ready)'
    BY <2>1 DEF Sent
  <2>. QED
    BY <1>1, <1>2, <2>1, <2>2 DEF PhaseInv
<1>. QED
  BY <1>1, <1>3, <1>4 DEF SpeechInv

\* Steps after the questions that send nothing.
LEMMA SilentSpeech ==
    ASSUME TypeInv, SpeechInv, ~Assessing, UNCHANGED <<toClient, clientOpen, sent>>,
           UNCHANGED <<questionIndex, responses>>, pc \notin {"done", "killed"},
           \/ pc' \in {"cleanup", "done", "killed"}
           \/ /\ pc' \in {"followAsk", "gptClosing", "staticClosing"} /\ Sent(Ready)
              /\ clientOpen =>
                   /\ toClient # <<>>
                   /\ Last.type \in {"state_change", "followup"}
                   /\ pc' = "followAsk" =>
                        IF followup_index' = 0 THEN Last.type = "state_change"
                        ELSE Last.type = "followup" /\ Last.num = followup_index'
    PROVE  SpeechInv'
<1>1. Transcript'
  BY QuietTranscript DEF SpeechInv
<1>2. Last' = Last /\ (Sent(Ready) => Sent(Ready)')
  BY DEF Last, Sent
<1>3. LastInv'
  BY <1>2 DEF SpeechInv, LastInv, Assessing
<1>4. PhaseInv'
  BY <1>2 DEF SpeechInv, PhaseInv, Assessing
<1>. QED
  BY <1>1, <1>3, <1>4 DEF SpeechInv

\* Up to the confirmation.
LEMMA ConfirmationSpeech ==
    ASSUME TypeInv, QueueInv, SpeechInv, UNCHANGED sent,
           SendResult \/ SendTransition \/ ReadReady \/ LoseReady
    PROVE  SpeechInv'
<1>0. /\ ~Assessing /\ pc \notin {"done", "killed"}
      /\ UNCHANGED <<questionIndex, responses>>
      /\ clientOpen => questionIndex = NumQuestions /\ toClient # <<>>
      /\ StyleOf(responses) \in Styles
  BY Typed DEF SendResult, SendTransition, ReadReady, LoseReady, sessionVars, Assessing,
               SpeechInv, PhaseInv, LastInv
<1>1. CASE SendResult
  <2>. DEFINE m == Result(StyleOf(responses))
  <2>1. pc = "sendResult" /\ Send(m, "sendTransition")
    BY <1>1 DEF SendResult
  <2>2. m \in Messages
    BY <1>0, MessageTypes, Zenon
  <2>3. m.type = "result" /\ m.style = StyleOf(responses)
    BY DEF Result, Message
  <2>4. m = Result(StyleOf(responses))
    OBVIOUS
  <2>. HIDE DEF m
  <2>5. clientOpen => Fits(m)
    BY <1>0, <2>1, <2>3 DEF SpeechInv, LastInv, Fits, Follows
  <2>. QED
    BY <1>0, <2>1, <2>2, <2>4, <2>5, LateSpeech
<1>2. CASE SendTransition
  <2>. DEFINE m == StateChange(StyleOf(responses))
  <2>1. pc = "sendTransition" /\ Send(m, "readReady")
    BY <1>2 DEF SendTransition
  <2>2. m \in Messages
    BY <1>0, MessageTypes, Zenon
  <2>3. m.type = "state_change" /\ m.style = StyleOf(responses)
    BY DEF StateChange, Message
  <2>. HIDE DEF m
  <2>4. clientOpen => Last.type = "result" /\ Last.style = StyleOf(responses)
    BY <2>1 DEF SpeechInv, LastInv, Result, Message
  <2>5. clientOpen => Fits(m)
    BY <1>0, <2>3, <2>4 DEF Fits, Follows
  <2>. QED
    BY <1>0, <2>1, <2>2, <2>3, <2>5, LateSpeech
<1>3. CASE ReadReady
  <2>1. /\ pc = "readReady" /\ ReadLine /\ UNCHANGED <<toClient, clientOpen, followup_index>>
        /\ pc' = IF buffer'.kind # "ready" THEN "cleanup"
                 ELSE IF gpt_session THEN "followAsk" ELSE "staticClosing"
    BY <1>3, ReadLineLink, Typed DEF ReadReady
  <2>2. CASE buffer'.kind # "ready"
    BY <1>0, <2>1, <2>2, SilentSpeech
  <2>3. CASE buffer'.kind = "ready"
    <3>1. 1 \in 1 .. Len(toServer) /\ buffer' = toServer[1]
      BY <2>1, ReadLineEffect
    <3>2. buffer' = sent[Consumed + 1] /\ Consumed + 1 \in 1 .. Len(sent)
      BY <3>1, Typed DEF QueueInv, Consumed
    <3>3. sent[Consumed + 1] \in SendablePieces
      BY <3>2, Typed, ElementOfSeq
    <3>4. buffer' = Ready
      BY <2>3, <3>2, <3>3, SendableAreLines
    <3>5. Sent(Ready)
      BY <3>2, <3>4 DEF Sent
    <3>6. followup_index = 0 /\ (clientOpen => Last.type = "state_change")
      BY <2>1 DEF TypeInv, LoopInv, SpeechInv, LastInv
    <3>7. pc' \in {"followAsk", "staticClosing"}
      BY <2>1, <2>3
    <3>. QED
      BY <1>0, <2>1, <3>5, <3>6, <3>7, SilentSpeech
  <2>. QED
    BY <2>2, <2>3
<1>4. CASE LoseReady
  <2>1. pc' = "cleanup" /\ UNCHANGED <<toClient, clientOpen>>
    BY <1>4 DEF LoseReady, ServerReadFails
  <2>. QED
    BY <1>0, <2>1, SilentSpeech
<1>. QED
  BY <1>1, <1>2, <1>3, <1>4

\* After it.
LEMMA FollowupSpeech ==
    ASSUME TypeInv, SpeechInv, UNCHANGED sent,
           AskFollowup \/ ReadFollowup \/ LoseFollowup \/ GptClosing \/ StaticClosing
    PROVE  SpeechInv'
<1>0. /\ ~Assessing /\ pc \notin {"done", "killed"} /\ Sent(Ready)
      /\ UNCHANGED <<questionIndex, responses>>
      /\ clientOpen => questionIndex = NumQuestions /\ toClient # <<>>
      /\ StyleOf(responses) \in Styles
      /\ followup_index \in Nat
  <2>1. /\ pc \in {"followAsk", "followRead", "gptClosing", "staticClosing"}
        /\ UNCHANGED <<questionIndex, responses>>
    BY DEF AskFollowup, ReadFollowup, LoseFollowup, GptClosing, StaticClosing, sessionVars
  <2>2. StyleOf(responses) \in Styles /\ followup_index \in Nat
    BY Typed
  <2>3. Sent(Ready) /\ (clientOpen => questionIndex = NumQuestions /\ toClient # <<>>)
    BY <2>1 DEF Assessing, SpeechInv, PhaseInv, LastInv
  <2>. QED
    BY <2>1, <2>2, <2>3 DEF Assessing
<1>1. ASSUME ProcessDies PROVE SpeechInv'
  <2>1. pc' = "killed" /\ UNCHANGED <<toClient, clientOpen>>
    BY <1>1 DEF ProcessDies, ServerCloses
  <2>. QED
    BY <1>0, <2>1, SilentSpeech
<1>2. ASSUME NEW whole \in BOOLEAN, Send(Closing(StyleOf(responses), whole), "cleanup"),
             pc \in {"gptClosing", "staticClosing"}
      PROVE  SpeechInv'
  <2>. DEFINE m == Closing(StyleOf(responses), whole)
  <2>1. m \in Messages
    BY <1>0, MessageTypes, Zenon
  <2>2. m.type = "closing" /\ m.style = StyleOf(responses)
    BY DEF Closing, Message
  <2>3. Send(m, "cleanup")
    BY <1>2
  <2>. HIDE DEF m
  <2>4. clientOpen => Fits(m)
    BY <1>0, <1>2, <2>2 DEF SpeechInv, LastInv, Fits, Follows
  <2>. QED
    BY <1>0, <2>1, <2>3, <2>4, LateSpeech
<1>3. CASE AskFollowup
  <2>1. /\ pc = "followAsk" /\ UNCHANGED followup_index
        /\ clientOpen => IF followup_index = 0 THEN Last.type = "state_change"
                         ELSE Last.type = "followup" /\ Last.num = followup_index
    BY <1>3 DEF AskFollowup, SpeechInv, LastInv
  <2>2. PICK outcome \in GptOutcomes :
          \/ ProcessDies
          \/ Send(Followup(followup_index + 1, outcome # "longReply"), "followRead")
          \/ FollowupFails
    BY <1>3 DEF AskFollowup
  <2>3. CASE Send(Followup(followup_index + 1, outcome # "longReply"), "followRead")
    <3>. DEFINE m == Followup(followup_index + 1, outcome # "longReply")
    <3>1. followup_index + 1 \in Nat /\ (outcome # "longReply") \in BOOLEAN
      BY <1>0
    <3>2. m \in Messages
      BY <3>1, MessageTypes, Zenon
    <3>3. m.type = "followup" /\ m.num = followup_index + 1
      BY DEF Followup, Message
    <3>4. Send(m, "followRead")
      BY <2>3
    <3>. HIDE DEF m
    <3>5. clientOpen => Fits(m)
      BY <1>0, <2>1, <3>3 DEF Fits, Follows
    <3>. QED
      BY <1>0, <2>1, <3>2, <3>3, <3>4, <3>5, LateSpeech
  <2>4. CASE FollowupFails
    <3>1. pc' = "gptClosing" /\ UNCHANGED <<toClient, clientOpen>>
      BY <2>4 DEF FollowupFails, linkVars
    <3>. QED
      BY <1>0, <2>1, <3>1, SilentSpeech
  <2>. QED
    BY <1>1, <2>2, <2>3, <2>4
<1>4. CASE ReadFollowup
  <2>1. /\ pc = "followRead" /\ UNCHANGED <<toClient, clientOpen>>
        /\ followup_index' = followup_index + 1 /\ pc' \in {"followAsk", "gptClosing"}
    BY <1>4, ReadLineLink, Typed DEF ReadFollowup, CountFollowup
  <2>2. clientOpen => Last.type = "followup" /\ Last.num = followup_index'
    BY <2>1 DEF SpeechInv, LastInv
  <2>3. followup_index' # 0
    BY <1>0, <2>1
  <2>. QED
    BY <1>0, <2>1, <2>2, <2>3, SilentSpeech
<1>5. CASE LoseFollowup
  <2>1. pc' = "gptClosing" /\ ~clientOpen /\ UNCHANGED <<toClient, clientOpen>>
    BY <1>5, FailedReadGone DEF LoseFollowup
  <2>. QED
    BY <1>0, <2>1, SilentSpeech
<1>6. CASE GptClosing
  <2>1. PICK outcome \in GptOutcomes :
          \/ ProcessDies
          \/ Send(Closing(StyleOf(responses), outcome # "longReply"), "cleanup")
          \/ pc' = "staticClosing" /\ UNCHANGED linkVars
    BY <1>6 DEF GptClosing
  <2>2. pc = "gptClosing" /\ (outcome # "longReply") \in BOOLEAN
    BY <1>6 DEF GptClosing
  <2>3. CASE pc' = "staticClosing" /\ UNCHANGED linkVars
    <3>1. clientOpen => Last.type \in {"state_change", "followup"}
      BY <2>2 DEF SpeechInv, LastInv
    <3>2. UNCHANGED <<toClient, clientOpen>>
      BY <2>3 DEF linkVars
    <3>. QED
      BY <1>0, <2>3, <3>1, <3>2, SilentSpeech
  <2>. QED
    BY <1>1, <1>2, <2>1, <2>2, <2>3
<1>7. CASE StaticClosing
  BY <1>2, <1>7 DEF StaticClosing
<1>. QED
  BY <1>3, <1>4, <1>5, <1>6, <1>7

LEMMA ServerSpeechStep ==
    ASSUME TypeInv, QueueInv, SpeechInv, UNCHANGED sent, LoopInv', ServerNext
    PROVE  SpeechInv'
<1>1. CASE Cleanup
  <2>1. /\ pc = "cleanup" /\ pc' = "done"
        /\ UNCHANGED <<toClient, clientOpen, questionIndex, responses>>
    BY <1>1 DEF Cleanup, ServerCloses, sessionVars
  <2>. QED
    BY <2>1, SilentSpeech DEF Assessing
<1>. QED
  BY <1>1, AssessmentSpeech, ConfirmationSpeech, FollowupSpeech DEF ServerNext

LEMMA PeerSpeechStep ==
    ASSUME TypeInv, QueueInv, SpeechInv, UNCHANGED serverVars,
           PeerConnects \/ (\E piece \in SendablePieces : PeerSends(piece)) \/ PeerHangsUp
    PROVE  SpeechInv'
<1>0. /\ UNCHANGED <<pc, questionIndex, responses, followup_index>>
      /\ Len(sent) \in Nat /\ Len(sent') \in Nat /\ Len(sent) <= Len(sent')
      /\ \A k \in 1 .. Len(sent) : sent'[k] = sent[k]
  BY PeerQueueStep, Typed DEF serverVars, sessionVars
<1>1. Sent(Ready) => Sent(Ready)'
  BY <1>0, SentStays
<1>2. CASE UNCHANGED toClient
  <2>1. TranscriptInOrder' /\ ResultIsComplete'
    BY <1>0, <1>2 DEF SpeechInv, Transcript, TranscriptInOrder, ResultIsComplete, Follows
  <2>2. FollowUpIsConfirmed'
    BY <1>1, <1>2 DEF SpeechInv, Transcript, FollowUpIsConfirmed
  <2>3. CASE UNCHANGED clientOpen
    <3>1. LastInv'
      BY <1>0, <1>2, <2>3 DEF SpeechInv, LastInv, Last
    <3>2. PhaseInv'
      BY <1>0, <1>1, <1>2, <2>3 DEF SpeechInv, PhaseInv, Assessing
    <3>. QED
      BY <2>1, <2>2, <3>1, <3>2 DEF SpeechInv, Transcript
  <2>4. CASE PeerConnects \/ PeerHangsUp
    <3>1. CASE PeerConnects
      <4>1. pc = "start" /\ pc' = "start" /\ toClient' = <<>>
        BY <1>0, <1>2, <3>1 DEF PeerConnects, TypeInv, DialInv
      <4>2. LastInv' /\ PhaseInv'
        BY <4>1, NothingSent DEF LastInv, PhaseInv, Assessing
      <4>. QED
        BY <2>1, <2>2, <4>2 DEF SpeechInv, Transcript
    <3>2. CASE PeerHangsUp
      <4>1. ~clientOpen'
        BY <3>2 DEF PeerHangsUp, ClientCloses
      <4>2. LastInv' /\ PhaseInv'
        BY <1>0, <1>1, <1>2, <4>1 DEF SpeechInv, LastInv, PhaseInv, Assessing
      <4>. QED
        BY <2>1, <2>2, <4>2 DEF SpeechInv, Transcript
    <3>. QED
      BY <2>4, <3>1, <3>2
  <2>. QED
    BY <2>3, <2>4 DEF PeerSends, ClientSends
<1>3. CASE ~UNCHANGED toClient
  <2>1. toClient' = <<>> /\ ~clientOpen'
    BY <1>3 DEF PeerConnects, Connect, PeerSends, ClientSends, PeerHangsUp, ClientCloses
  <2>2. LastInv' /\ PhaseInv'
    BY <1>0, <1>1, <2>1, NothingSent DEF SpeechInv, LastInv, PhaseInv, Assessing
  <2>. QED
    BY <2>1, <2>2, NothingSent DEF SpeechInv
<1>. QED
  BY <1>2, <1>3

(***************************************************************************)
(* The length of the GPT history.                                          *)
(***************************************************************************)

\* What a call appends.
LEMMA CallAppends ==
    ASSUME TypeInv, NEW outcome \in GptOutcomes, gpt_send_message(outcome)
    PROVE  /\ message_count' \in Nat /\ message_count <= message_count'
           /\ message_count' <= message_count + 2
           /\ ~Replied(outcome) => message_count' <= message_count + 1
BY AppendedBound, Typed, SMTT(30) DEF gpt_send_message

LEMMA ServerHistoryStep ==
    ASSUME TypeInv, QueueInv, HistoryInv, ServerNext, UNCHANGED sent
    PROVE  HistoryInv'
<1>0. /\ Consumed \in Nat /\ Consumed' \in Nat /\ Consumed <= Consumed'
      /\ Consumed' <= Len(sent) /\ Len(sent) \in Nat /\ message_count \in Nat
      /\ Consumed <= Len(sent) /\ Len(toServer) \in Nat /\ Len(toServer') \in Nat
  <2>1. LinkTypeOK'
    BY Typed, ServerTypeStep DEF TypeInv
  <2>2. Len(toServer') \in Nat
    BY <2>1 DEF LinkTypeOK
  <2>. QED
    BY <2>2, ServerQueueStep, Typed
<1>r. ASSUME ReadLine
      PROVE  /\ Consumed + 1 <= Consumed' /\ toServer # <<>>
             /\ UNCHANGED <<toClient, clientOpen>>
  <2>1. /\ Len(toServer') < Len(toServer) /\ Len(toServer') \in Nat
        /\ Len(toServer) \in Nat /\ 1 \in 1 .. Len(toServer)
    BY <1>r, ReadLineEffect, Typed
  <2>. QED
    BY <1>0, <1>r, <2>1, ReadLineLink, Typed DEF Consumed
<1>s. ASSUME NEW m, NEW next, Send(m, next)
      PROVE  /\ pc' \in {next, "killed"} /\ UNCHANGED clientOpen
             /\ toServer = <<>> => toServer' = <<>>
  BY <1>s DEF Send, ProcessDies, ServerSends, ServerCloses
<1>d. ASSUME ProcessDies PROVE pc' = "killed"
  BY <1>d DEF ProcessDies
<1>1. CASE CreateSession
  <2>1. pc' = "ask" /\ message_count' \in 0 .. 1
    BY <1>1 DEF CreateSession, gpt_create_session
  <2>. QED
    BY <1>0, <2>1 DEF HistoryInv, Consumed
<1>2. CASE AskQuestion
  <2>1. PICK outcome \in GptOutcomes :
          /\ gpt_send_message(outcome)
          /\ \/ ProcessDies
             \/ Send(Ask(questionIndex + 1, outcome # "longReply"), "readAnswer")
    BY <1>2 DEF AskQuestion
  <2>2. pc = "ask" /\ pc' \in {"readAnswer", "killed"}
    BY <1>2, <1>s, <1>d, <2>1 DEF AskQuestion
  <2>3. message_count' \in Nat /\ message_count' <= message_count + 2
    BY <2>1, CallAppends
  <2>. QED
    BY <1>0, <2>2, <2>3 DEF HistoryInv, Consumed
<1>3. CASE ReadAnswer
  <2>1. /\ pc = "readAnswer" /\ pc' \in {"ask", "sendResult"} /\ UNCHANGED message_count
        /\ Consumed + 1 <= Consumed'
    BY <1>3, <1>r DEF ReadAnswer, RecordAnswer, RejectAnswer, gptVars
  <2>. QED
    BY <1>0, <2>1 DEF HistoryInv, Consumed
<1>4. CASE LoseAnswer
  <2>1. /\ pc = "readAnswer" /\ pc' = "sendResult" /\ UNCHANGED message_count
        /\ ~clientOpen' /\ toServer' = <<>>
    BY <1>4, FailedReadGone DEF LoseAnswer, ServerReadFails, gptVars
  <2>. QED
    BY <1>0, <2>1 DEF HistoryInv, Consumed
<1>5. CASE SendResult \/ SendTransition
  <2>1. /\ pc \in {"sendResult", "sendTransition"}
        /\ pc' \in {"sendTransition", "readReady", "killed"}
        /\ UNCHANGED <<message_count, clientOpen>> /\ (toServer = <<>> => toServer' = <<>>)
    BY <1>5, <1>s DEF SendResult, SendTransition, gptVars
  <2>. QED
    BY <1>0, <2>1 DEF HistoryInv, Consumed
<1>6. CASE ReadReady
  <2>1. /\ pc = "readReady" /\ pc' \in {"cleanup", "followAsk", "staticClosing"}
        /\ UNCHANGED message_count /\ Consumed + 1 <= Consumed' /\ toServer # <<>>
    BY <1>6, <1>r DEF ReadReady, gptVars
  <2>. QED
    BY <1>0, <2>1 DEF HistoryInv, Consumed
<1>7. CASE LoseReady \/ StaticClosing \/ Cleanup
  <2>1. pc' \in {"cleanup", "done", "killed"} /\ UNCHANGED message_count
    BY <1>7, <1>s DEF LoseReady, StaticClosing, Cleanup, gpt_destroy_session, gptVars
  <2>. QED
    BY <1>0, <2>1 DEF HistoryInv, Consumed
<1>8. CASE AskFollowup
  <2>1. PICK outcome \in GptOutcomes :
          /\ gpt_send_message(outcome)
          /\ \/ ProcessDies
             \/ Send(Followup(followup_index + 1, outcome # "longReply"), "followRead")
             \/ FollowupFails /\ ~Replied(outcome)
    BY <1>8 DEF AskFollowup
  <2>2. /\ pc = "followAsk"
        /\ \/ pc' \in {"killed", "followRead"}
           \/ pc' = "gptClosing" /\ ~Replied(outcome)
    BY <1>8, <1>s, <1>d, <2>1 DEF AskFollowup, FollowupFails
  <2>3. /\ message_count' \in Nat /\ message_count' <= message_count + 2
        /\ ~Replied(outcome) => message_count' <= message_count + 1
    BY <2>1, CallAppends
  <2>. QED
    BY <1>0, <2>2, <2>3 DEF HistoryInv, Consumed
<1>9. CASE ReadFollowup
  <2>1. /\ pc = "followRead" /\ pc' \in {"followAsk", "gptClosing"}
        /\ UNCHANGED message_count /\ Consumed + 1 <= Consumed'
    BY <1>9, <1>r DEF ReadFollowup, CountFollowup, gptVars
  <2>. QED
    BY <1>0, <2>1 DEF HistoryInv, Consumed
<1>10. CASE LoseFollowup
  <2>1. pc = "followRead" /\ pc' = "gptClosing" /\ UNCHANGED message_count
    BY <1>10 DEF LoseFollowup, gptVars
  <2>. QED
    BY <1>0, <2>1 DEF HistoryInv, Consumed
<1>11. CASE GptClosing
  <2>1. PICK outcome \in GptOutcomes :
          /\ gpt_send_message(outcome)
          /\ \/ ProcessDies
             \/ Send(Closing(StyleOf(responses), outcome # "longReply"), "cleanup")
             \/ pc' = "staticClosing"
    BY <1>11 DEF GptClosing
  <2>2. pc = "gptClosing" /\ pc' \in {"killed", "cleanup", "staticClosing"}
    BY <1>11, <1>s, <1>d, <2>1 DEF GptClosing
  <2>3. message_count' \in Nat /\ message_count' <= message_count + 2
    BY <2>1, CallAppends
  <2>. QED
    BY <1>0, <2>2, <2>3 DEF HistoryInv, Consumed
<1>. QED
  BY <1>1, <1>2, <1>3, <1>4, <1>5, <1>6, <1>7, <1>8, <1>9, <1>10, <1>11 DEF ServerNext

LEMMA PeerHistoryStep ==
    ASSUME TypeInv, QueueInv, HistoryInv, UNCHANGED serverVars,
           PeerConnects \/ (\E piece \in SendablePieces : PeerSends(piece)) \/ PeerHangsUp
    PROVE  HistoryInv'
<1>1. /\ Consumed \in Nat /\ Consumed' \in Nat /\ Consumed <= Consumed'
      /\ Len(sent) \in Nat /\ Len(sent') \in Nat /\ Len(sent) <= Len(sent')
      /\ message_count \in Nat /\ UNCHANGED <<pc, message_count>>
      /\ Len(toServer) \in Nat /\ Len(toServer') \in Nat
  <2>1. TypeInv'
    BY NextTypeInv DEF Next
  <2>2. Len(toServer') \in Nat
    BY <2>1 DEF TypeInv, TypeOK, LinkTypeOK
  <2>. QED
    BY <2>2, PeerQueueStep, Typed DEF serverVars, gptVars
<1>2. pc = "start" \/ clientOpen
  BY DEF PeerConnects, PeerSends, ClientCanSend, PeerHangsUp
<1>. QED
  BY <1>1, <1>2 DEF HistoryInv, Consumed

(***************************************************************************)
(* All of it.                                                              *)
(***************************************************************************)

SessionInv == TypeInv /\ QueueInv /\ RecordInv /\ SpeechInv /\ HistoryInv

LEMMA InitSessionInv == Init => SessionInv
<1>. SUFFICES ASSUME Init PROVE SessionInv
  OBVIOUS
<1>0. TypeInv /\ pc = "start" /\ questionIndex = 0 /\ message_count = 0
  BY InitTypeInv DEF Init, ServerInit, GptInit
<1>1. toClient = <<>> /\ toServer = <<>> /\ sent = <<>> /\ ~clientOpen
  BY DEF Init, LinkInit
<1>2. Len(toClient) = 0 /\ Len(toServer) = 0 /\ Len(sent) = 0 /\ Consumed = 0
  BY <1>1 DEF Consumed
<1>3. QueueInv /\ HistoryInv
  BY <1>0, <1>2 DEF QueueInv, HistoryInv
<1>4. RecordInv
  <2>. DEFINE f == [i \in 1 .. 0 |-> 0]
  <2>1. f \in [1 .. 0 -> 1 .. 0] /\ \A i \in 1 .. 0 : FALSE
    OBVIOUS
  <2>. HIDE DEF f
  <2>2. IsSubSeqOf(0, responses, 0, sent)
    BY <2>1 DEF IsSubSeqOf
  <2>. QED
    BY <1>0, <1>2, <2>2 DEF RecordInv
<1>5. SpeechInv
  BY <1>0, <1>1, <1>2 DEF SpeechInv, LastInv, PhaseInv, Transcript, TranscriptInOrder,
     ResultIsComplete, FollowUpIsConfirmed, Assessing
<1>. QED
  BY <1>0, <1>3, <1>4, <1>5 DEF SessionInv

LEMMA NextSessionInv == SessionInv /\ [Next]_vars => SessionInv'
<1>. SUFFICES ASSUME SessionInv, [Next]_vars PROVE SessionInv'
  OBVIOUS
<1>0. TypeInv /\ QueueInv /\ RecordInv /\ SpeechInv /\ HistoryInv
  BY DEF SessionInv
<1>1. TypeInv' /\ LoopInv'
  BY <1>0, NextTypeInv DEF TypeInv
<1>2. CASE ServerNext /\ UNCHANGED sent
  BY <1>0, <1>1, <1>2, ServerQueueStep, ServerRecordStep, ServerSpeechStep,
     ServerHistoryStep DEF SessionInv
<1>3. CASE PeerConnects \/ (\E piece \in SendablePieces : PeerSends(piece)) \/ PeerHangsUp
  <2>1. UNCHANGED serverVars
    BY <1>3 DEF PeerConnects, PeerSends, PeerHangsUp
  <2>. QED
    BY <1>0, <1>1, <1>3, <2>1, PeerQueueStep, PeerRecordStep, PeerSpeechStep,
       PeerHistoryStep DEF SessionInv
<1>4. CASE UNCHANGED vars
  <2>. USE <1>0, <1>4 DEF vars, serverVars, sessionVars, gptVars, linkVars
  <2>1. QueueInv' /\ RecordInv'
    BY DEF QueueInv, RecordInv, Consumed
  <2>2. LastInv' /\ PhaseInv'
    BY DEF SpeechInv, LastInv, Last, PhaseInv, Assessing, Sent
  <2>3. Transcript'
    BY QuietTranscript DEF SpeechInv
  <2>4. HistoryInv'
    BY DEF HistoryInv, Consumed
  <2>. QED
    BY <1>1, <2>1, <2>2, <2>3, <2>4 DEF SessionInv, SpeechInv
<1>. QED
  BY <1>2, <1>3, <1>4 DEF Next

\* The inductive invariant the run `session' checks holds for every size: loop
\* bounds, what each end knows, the queue, the answers, the last message, and
\* the history.
THEOREM InvariantHolds == Spec => [](TypeOK /\ IInv)
<1>1. SessionInv => TypeOK /\ IInv
  BY DEF SessionInv, TypeInv, SpeechInv, IInv
<1>. QED
  BY <1>1, InitSessionInv, NextSessionInv, PTL DEF Spec

\* Whatever a client sends, lines longer than a read included, the recorded
\* ratings are those of some of the pieces read, in the order sent, none used
\* twice (connection.c:153-197).
THEOREM RecordedSent == Spec => []RecordedWereSent
<1>1. SessionInv => RecordedWereSent
  <2>. SUFFICES ASSUME SessionInv PROVE RecordedWereSent
    OBVIOUS
  <2>1. /\ Consumed \in Nat /\ Consumed <= Len(sent) /\ Len(sent) \in Nat
        /\ questionIndex \in Nat /\ IsSubSeqOf(questionIndex, responses, Consumed, sent)
    BY Typed DEF SessionInv, QueueInv, RecordInv, Consumed
  <2>2. IsSubSeqOf(questionIndex, responses, Len(sent), sent)
    BY <2>1, SubSeqGrows
  <2>. QED
    BY <2>2 DEF RecordedWereSent
<1>. QED
  BY <1>1, InitSessionInv, NextSessionInv, PTL DEF Spec

\* Each message of the server is one that may follow the message before it
\* (connection.c:111-198, 226-249, 277-373).
THEOREM TranscriptOrdered == Spec => []TranscriptInOrder
<1>1. SessionInv => TranscriptInOrder
  BY DEF SessionInv, SpeechInv, Transcript
<1>. QED
  BY <1>1, InitSessionInv, NextSessionInv, PTL DEF Spec

\* A client that is there to receive a result has answered every question, and
\* result, state_change and closing agree (connection.c:200-249, 329-373).
THEOREM ResultComplete == Spec => []ResultIsComplete
<1>1. SessionInv => ResultIsComplete
  BY DEF SessionInv, SpeechInv, Transcript
<1>. QED
  BY <1>1, InitSessionInv, NextSessionInv, PTL DEF Spec

\* Nothing of the second phase is sent before READY_FOR_FOLLOWUP
\* (connection.c:251-263).
THEOREM FollowUpConfirmed == Spec => []FollowUpIsConfirmed
<1>1. SessionInv => FollowUpIsConfirmed
  BY DEF SessionInv, SpeechInv, Transcript
<1>. QED
  BY <1>1, InitSessionInv, NextSessionInv, PTL DEF Spec

\* The message array holds at most three messages and two more for each piece
\* sent, a line longer than a read counting once for every read it takes
\* (gpt_client.c:220-223, 307).
THEOREM HistoryBoundedByReads == Spec => []HistoryPerRead
<1>1. SessionInv => HistoryPerRead
  BY DEF SessionInv, HistoryInv, HistoryPerRead
<1>. QED
  BY <1>1, InitSessionInv, NextSessionInv, PTL DEF Spec
=============================================================================
