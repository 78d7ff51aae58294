------------------------------ MODULE Session ------------------------------
(***************************************************************************)
(* The server's thread (HandleClient) before a client nobody vouches for:  *)
(* one that dials port 5555 and sends lines of any kind and length at any  *)
(* time, in up to MaxPieces pieces, and may hang up at any time, as        *)
(* server/test.py and a terminal do.  A line up to the size of the         *)
(* server's read is one piece; a longer one is several, all but the last   *)
(* with more = TRUE, and the server's atoi and strcmp look at each piece.  *)
(* The client never takes a message off the connection, so toClient is the *)
(* transcript of what the server sent.                                     *)
(***************************************************************************)
EXTENDS HandleClient, FiniteSets

CONSTANTS PeerLines,   \* this instance's lines, or last pieces of one, by kind
          PeerParts,   \* the pieces that fill a read and belong to a longer line
          MaxPieces,   \* how many pieces the client sends at most
          MaxQueued    \* how many of them wait unread at most

ASSUME SessionAssumption ==
    /\ PeerLines \subseteq {"low", "high", "ready", "junk"}
    /\ PeerParts \subseteq {"low", "high", "junk"}    \* READY_FOR_FOLLOWUP is short
    /\ MaxPieces \in Nat /\ MaxQueued \in Nat

VARIABLE sent    \* ghost: every piece the client has sent

vars == <<serverVars, linkVars, sent>>

Init == ServerInit /\ LinkInit /\ sent = <<>>

Piece(kind, more) ==
    CASE kind = "low"   -> Line("rating", 1, 0, more)
      [] kind = "high"  -> Line("rating", 7, 0, more)
      [] kind = "ready" -> Line("ready", 0, 0, more)
      [] kind = "junk"  -> Line("junk", 0, 0, more)
SendablePieces ==
    {Piece(kind, FALSE) : kind \in PeerLines} \cup {Piece(kind, TRUE) : kind \in PeerParts}

PeerConnects ==
    /\ pc = "start" /\ ~serverOpen
    /\ Connect
    /\ UNCHANGED <<serverVars, sent>>

PeerSends(piece) ==
    /\ ClientCanSend
    /\ Len(sent) < MaxPieces /\ Len(toServer) < MaxQueued
    /\ ClientSends(<<piece>>)
    /\ sent' = Append(sent, piece)
    /\ UNCHANGED serverVars

PeerHangsUp ==
    /\ clientOpen
    /\ ClientCloses
    /\ UNCHANGED <<serverVars, sent>>

Next ==
    \/ ServerNext /\ UNCHANGED sent
    \/ PeerConnects
    \/ \E piece \in SendablePieces : PeerSends(piece)
    \/ PeerHangsUp

Spec == Init /\ [][Next]_vars

\* The thread is scheduled and its GPT calls return; the client owes nothing.
FairSpec == Spec /\ WF_vars(ServerNext /\ UNCHANGED sent)

----------------------------------------------------------------------------
TypeOK ==
    /\ ServerTypeOK /\ LinkTypeOK
    /\ sent \in Seq(SendablePieces)

(* The inductive invariant, in named parts. *)

Sent(line) == \E k \in 1 .. Len(sent) : sent[k] = line
Consumed == Len(sent) - Len(toServer)    \* pieces that left the queue

\* Before the client dials nothing has happened on the connection.
DialInv ==
    pc = "start" /\ ~serverOpen =>
        /\ toServer = <<>> /\ toClient = <<>> /\ ~clientOpen
        /\ serverErr = "none" /\ clientErr = "none"

\* What is queued is the end of what was sent.
QueueInv ==
    /\ Len(toServer) <= Len(sent)
    /\ \A i \in 1 .. Len(toServer) : toServer[i] = sent[Consumed + i]

\* The answers recorded so far are among the pieces that left the queue.
IsSubSeqOf(n, s, m, t) ==     \* the first n of s, in their order among the first m of t
    \E f \in [1 .. n -> 1 .. m] :
        /\ \A i, j \in 1 .. n : i < j => f[i] < f[j]
        /\ \A i \in 1 .. n : s[i - 1] = t[f[i]].value
RecordInv == IsSubSeqOf(questionIndex, responses, Consumed, sent)

\* The last message says where the thread is.
Last == toClient[Len(toClient)]
LastInv ==
    clientOpen =>
        /\ pc = "start" => toClient = <<>>
        /\ pc = "ask" =>
               IF toClient = <<>> THEN questionIndex = 0
               ELSE Last.type = "ask" /\ Last.num \in {questionIndex, questionIndex + 1}
        /\ pc \notin {"start", "ask", "done", "killed"} => toClient # <<>>
        /\ pc = "readAnswer" => Last.type = "ask" /\ Last.num = questionIndex + 1
        /\ pc = "sendResult" => Last.type = "ask" /\ Last.num = NumQuestions
        /\ pc = "sendTransition" => Last = Result(StyleOf(responses))
        /\ pc = "readReady" => Last.type = "state_change"
        /\ pc = "followAsk" =>
               IF followup_index = 0 THEN Last.type = "state_change"
               ELSE Last.type = "followup" /\ Last.num = followup_index
        /\ pc = "followRead" => Last.type = "followup" /\ Last.num = followup_index + 1
        /\ pc \in {"gptClosing", "staticClosing"} =>
               Last.type \in {"state_change", "followup"}

\* Only questions are sent before the answers are complete; what follows the
\* confirmation has one.
PhaseInv ==
    /\ Assessing => \A i \in 1 .. Len(toClient) : toClient[i].type = "ask"
    /\ clientOpen /\ ~Assessing /\ pc \notin {"done", "killed"} =>
           questionIndex = NumQuestions
    /\ pc \in {"followAsk", "followRead", "gptClosing", "staticClosing"} => Sent(Ready)

\* Two messages per call, and no call without a read since the last one but
\* the call under way; a lost answer adds one, and nothing can be read after.
HistoryInv ==
    /\ pc = "ask" => message_count <= 1 + 2 * Consumed
    /\ pc = "readAnswer" => message_count <= 1 + 2 * (Consumed + 1)
    /\ pc \in {"sendResult", "sendTransition", "readReady"} =>
           \/ message_count <= 1 + 2 * Consumed
           \/ message_count <= 1 + 2 * (Consumed + 1) /\ ~clientOpen /\ toServer = <<>>
    /\ pc = "followAsk" => message_count <= 1 + 2 * (Consumed - 1)
    /\ pc \in {"followRead", "gptClosing"} => message_count <= 1 + 2 * Consumed
    /\ message_count <= 1 + 2 * (Len(sent) + 1)

IInv == /\ LoopInv /\ EndsInv /\ DialInv /\ QueueInv /\ RecordInv
        /\ LastInv /\ PhaseInv /\ HistoryInv

----------------------------------------------------------------------------
\* The recorded answers are ratings the client's pieces hold, in the order it
\* sent them, none used twice: bad replies and lines lost to a coalesced read
\* leave gaps, never a shift (connection.c:153-197).
RecordedWereSent == IsSubSeqOf(questionIndex, responses, Len(sent), sent)

\* The protocol a client can rely on, as a relation between one message and
\* the next: a question is repeated or followed by the next one, the last one
\* by the result, that by a state_change of the same style, then the
\* follow-ups, numbered from one without a gap, and one closing at most
\* (connection.c:111-198, 226-249, 277-373).
Follows(m, next) ==
    \/ m.type = "ask" /\ next.type = "ask" /\ next.num \in {m.num, m.num + 1}
    \/ m.type = "ask" /\ m.num = NumQuestions /\ next.type = "result"
    \/ m.type = "result" /\ next.type = "state_change" /\ next.style = m.style
    \/ m.type = "state_change" /\ next.type = "followup" /\ next.num = 1
    \/ m.type = "followup" /\ next.type = "followup" /\ next.num = m.num + 1
    \/ m.type \in {"state_change", "followup"} /\ next.type = "closing"
TranscriptInOrder ==
    \A i \in 1 .. Len(toClient) :
        IF i = 1 THEN toClient[i].type = "ask" /\ toClient[i].num = 1
        ELSE Follows(toClient[i - 1], toClient[i])

\* A client that is still there when a result is sent has answered every
\* question, and the result, the state_change and the closing agree on the
\* style (connection.c:200-249, 329-373).
ResultIsComplete ==
    \A i \in 1 .. Len(toClient) :
        toClient[i].type \in {"result", "state_change", "closing"} =>
            /\ questionIndex = NumQuestions
            /\ toClient[i].style = StyleOf(responses)

\* Nothing of the second phase is sent before READY_FOR_FOLLOWUP
\* (connection.c:251-263).
FollowUpIsConfirmed ==
    \A i \in 1 .. Len(toClient) :
        toClient[i].type \in {"followup", "closing"} => Sent(Ready)

\* What bounds the message array: two messages per call, and at most one call
\* more than the pieces sent, each of which costs the server a read
\* (gpt_client.c:220-223, 307).  A line is no such bound: a long one is read in
\* many pieces.
HistoryPerRead == message_count <= 1 + 2 * (Len(sent) + 1)

\* The same array has room for a whole conversation, so it should not fill
\* (gpt_client.h:11): false, because a reply that is not a number from one to
\* seven repeats the question, and the call, without end (connection.c:195-197).
HistoryFits ==
    MaxHistory >= 1 + 2 * (NumQuestions + NumFollowups + 1) =>
        message_count <= MaxHistory

\* One reply, one answer ("Attendi risposta", connection.c:153): false, because
\* a line longer than one read is recorded once per piece whose atoi is a
\* rating (connection.c:154, 176-179).
LinesBegun == {k \in 1 .. Len(sent) : k = 1 \/ ~sent[k - 1].more}
OneAnswerPerLine == questionIndex <= Cardinality(LinesBegun)

\* What an assessment prompt quotes as the last reply is the answer accepted for
\* the previous question (gpt_client.c:191): false, after a rejected reply the
\* prompt for the repeated question quotes that reply (connection.c:121).
PromptQuotesAcceptedAnswer ==
    pc = "readAnswer" /\ gpt_session /\ questionIndex > 0 =>
        quoted.value = responses[questionIndex - 1]

\* A thread whose client is gone ends, however many pieces were left unread
\* (connection.c:154-170, 251-255, 309-313).
ThreadEnds == ~clientOpen /\ serverOpen ~> ~serverOpen
=============================================================================
