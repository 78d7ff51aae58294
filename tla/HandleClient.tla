---------------------------- MODULE HandleClient ----------------------------
(***************************************************************************)
(* The thread that serves one robot: clientHandlerThread and handleClient  *)
(* of server/connection.c.  One action per stretch of code between two     *)
(* reads; a GPT call and the send that follows it are one action, because  *)
(* the thread looks at nothing shared in between.                          *)
(*                                                                         *)
(* Lines are abstracted to what the code tells apart: `kind' and `value'   *)
(* stand for strcmp and atoi, `more' marks a fragment (TcpLink), and `num' *)
(* is a ghost: the question the line answers.  `style' in a closing and    *)
(* `num' in a question are contents the robot speaks, not decisions.       *)
(***************************************************************************)
EXTENDS Scoring, GptClient, TcpLink

CONSTANT NumFollowups      \* followup_questions, 3 in the code

ASSUME NumFollowupsAssumption == NumFollowups \in Nat \ {0}

VARIABLES pc,              \* where the thread is
          questionIndex, responses, followup_index,
          buffer,          \* the last line read
          quoted           \* the reply the last GPT prompt quotes as the last one

sessionVars == <<questionIndex, responses, followup_index, buffer, quoted>>
serverVars  == <<pc, sessionVars, gptVars>>

Line(kind, value, num, more) ==
    [kind |-> kind, value |-> value, num |-> num, more |-> more]
Rating(r, num)  == Line("rating", r, num, FALSE)
Ready           == Line("ready", 0, 0, FALSE)
Text(num, more) == Line("text", 0, num, more)
Junk            == Line("junk", 0, 0, FALSE)
NoLine          == Line("none", 0, 0, FALSE)   \* buffer before any read, "nullo",
                                               \* "prima_domanda"
Message(type, num, style, whole) ==
    [type |-> type, num |-> num, style |-> style, whole |-> whole]
Ask(num, whole)       == Message("ask", num, "", whole)       \* ask and gpt_ask
FollowupUncut(num, whole) ==         \* mutant: sent without its newline
    Message("followup", num, "", FALSE)
Followup(num, whole)  == Message("followup", num, "", whole)  \* gpt_ask, phase 2
Result(style)         == Message("result", 0, style, TRUE)
StateChange(style)    == Message("state_change", 0, style, TRUE)
Closing(style, whole) == Message("closing", 0, style, whole)  \* and gpt_closing

ServerInit ==
    /\ pc = "start"
    /\ questionIndex = 0 /\ followup_index = 0
    /\ responses = [i \in Questions |-> Unanswered]
    /\ buffer = NoLine /\ quoted = NoLine
    /\ GptInit

\* SIGPIPE is not handled (main.c:72-73: SIGINT, SIGTERM only), and neither is
\* a NULL handed to libc: either ends the process, and the kernel closes its
\* sockets.
ProcessDies == pc' = "killed" /\ ServerCloses

\* send(fd, ...): its result is not looked at.
Send(m, next) ==
    IF serverErr = "pipe" THEN ProcessDies
    ELSE pc' = next /\ ServerSends(m)

\* read(fd, buffer, BUFFER_SIZE - 1) and the cut at the first line end: what
\* came after the first line in the same read is gone.
ReadLineTwice ==                  \* mutant: the last line read stays queued
    \E n \in ReadSizes : ServerReads(n - 1) /\ buffer' = Head(toServer)
ReadLine ==
    \E n \in ReadSizes : ServerReads(n) /\ buffer' = Head(toServer)

\* Start of the thread: a session with GPT, or static questions.
CreateSession ==
    /\ pc = "start" /\ serverOpen
    /\ gpt_create_session
    /\ pc' = "ask"
    /\ UNCHANGED <<sessionVars, linkVars>>

\* What the prompt for the next question calls the reply to the last one.
LastReplyOffByOne == IF questionIndex <= 1 THEN NoLine ELSE buffer    \* mutant
LastReply == IF questionIndex = 0 THEN NoLine ELSE buffer

\* The question loop up to its read.  Without a reply from GPT the question
\* is the static one.
AskQuestion ==
    /\ pc = "ask"
    /\ quoted' = IF gpt_session THEN LastReply ELSE quoted
    /\ \E outcome \in GptOutcomes :
        /\ gpt_send_message(outcome)
        /\ IF outcome = "nullContent" THEN ProcessDies
           ELSE Send(Ask(questionIndex + 1, outcome # "longReply"), "readAnswer")
    /\ UNCHANGED <<questionIndex, responses, followup_index, buffer>>

IsRating(line) == line.value \in Ratings

RecordShifted(value) ==           \* mutant: the index is moved before its use
    /\ responses' = [responses EXCEPT ![questionIndex + 1] = value]
    /\ questionIndex' = questionIndex + 1
    /\ pc' = IF questionIndex' < NumQuestions THEN "ask" ELSE "sendResult"
RecordStopsEarly(value) ==        \* mutant: the last question is skipped
    /\ responses' = [responses EXCEPT ![questionIndex] = value]
    /\ questionIndex' = questionIndex + 1
    /\ pc' = IF questionIndex' < NumQuestions - 1 THEN "ask" ELSE "sendResult"
RecordAnswer(value) ==
    /\ responses' = [responses EXCEPT ![questionIndex] = value]
    /\ questionIndex' = questionIndex + 1
    /\ pc' = IF questionIndex' < NumQuestions THEN "ask" ELSE "sendResult"

RejectGivesUp == pc' = "sendResult" /\ UNCHANGED <<responses, questionIndex>>  \* mutant
RejectAnswer  == pc' = "ask" /\ UNCHANGED <<responses, questionIndex>>

\* A reply in 1..7 is recorded, any other makes the loop ask again.
ReadAnswer ==
    /\ pc = "readAnswer"
    /\ ReadLine
    /\ IF IsRating(buffer') THEN RecordAnswer(buffer'.value) ELSE RejectAnswer
    /\ UNCHANGED <<followup_index, quoted, gptVars>>

\* A failed read leaves the question loop, and the code below it runs all the
\* same.
LoseAnswerAsksAgain ==            \* mutant: continue instead of break
    /\ pc = "readAnswer"
    /\ ServerReadFails
    /\ pc' = "ask"
    /\ UNCHANGED <<sessionVars, gptVars>>
LoseAnswer ==
    /\ pc = "readAnswer"
    /\ ServerReadFails
    /\ pc' = "sendResult"
    /\ UNCHANGED <<sessionVars, gptVars>>

SendResult ==
    /\ pc = "sendResult"
    /\ Send(Result(StyleOf(responses)), "sendTransition")
    /\ UNCHANGED <<sessionVars, gptVars>>

SendTransition ==
    /\ pc = "sendTransition"
    /\ Send(StateChange(StyleOf(responses)), "readReady")
    /\ UNCHANGED <<sessionVars, gptVars>>

ReadReadyUnchecked ==             \* mutant: the confirmation is not compared
    /\ pc = "readReady"
    /\ ReadLine
    /\ pc' = IF gpt_session THEN "followAsk" ELSE "staticClosing"
    /\ UNCHANGED <<questionIndex, responses, followup_index, quoted, gptVars>>
ReadReady ==
    /\ pc = "readReady"
    /\ ReadLine
    /\ pc' = IF buffer'.kind # "ready" THEN "cleanup"
             ELSE IF gpt_session THEN "followAsk" ELSE "staticClosing"
    /\ UNCHANGED <<questionIndex, responses, followup_index, quoted, gptVars>>

LoseReadyRetries ==               \* mutant: the read is tried again for ever
    /\ pc = "readReady"
    /\ ServerReadFails
    /\ UNCHANGED <<pc, sessionVars, gptVars>>
LoseReady ==
    /\ pc = "readReady"
    /\ ServerReadFails
    /\ pc' = "cleanup"
    /\ UNCHANGED <<sessionVars, gptVars>>

FollowupRetried == pc' = "followAsk" /\ UNCHANGED linkVars    \* mutant
FollowupFails   == pc' = "gptClosing" /\ UNCHANGED linkVars

\* The follow-up loop up to its read; a call that fails ends the loop.
AskFollowup ==
    /\ pc = "followAsk"
    /\ quoted' = IF followup_index > 0 THEN buffer ELSE NoLine
    /\ \E outcome \in GptOutcomes :
        /\ gpt_send_message(outcome)
        /\ IF outcome = "nullContent" THEN ProcessDies
           ELSE IF Replied(outcome)
           THEN Send(Followup(followup_index + 1, outcome # "longReply"), "followRead")
           ELSE FollowupFails
    /\ UNCHANGED <<questionIndex, responses, followup_index, buffer>>

CountFollowupTooLong ==           \* mutant: one follow-up too many
    /\ followup_index' = followup_index + 1
    /\ pc' = IF followup_index' <= NumFollowups THEN "followAsk" ELSE "gptClosing"
CountFollowupNot ==               \* mutant: the increment is missing
    /\ UNCHANGED followup_index
    /\ pc' = "followAsk"
CountFollowup ==
    /\ followup_index' = followup_index + 1
    /\ pc' = IF followup_index' < NumFollowups THEN "followAsk" ELSE "gptClosing"

ReadFollowup ==
    /\ pc = "followRead"
    /\ ReadLine
    /\ CountFollowup
    /\ UNCHANGED <<questionIndex, responses, quoted, gptVars>>

LoseFollowupRetries ==            \* mutant: the read is tried again for ever
    /\ pc = "followRead"
    /\ ServerReadFails
    /\ UNCHANGED <<pc, sessionVars, gptVars>>
LoseFollowup ==
    /\ pc = "followRead"
    /\ ServerReadFails
    /\ pc' = "gptClosing"
    /\ UNCHANGED <<sessionVars, gptVars>>

\* The closing GPT words; a call that fails falls through to the static one.
GptClosing ==
    /\ pc = "gptClosing"
    /\ quoted' = buffer
    /\ \E outcome \in GptOutcomes :
        /\ gpt_send_message(outcome)
        /\ IF outcome = "nullContent" THEN ProcessDies
           ELSE IF Replied(outcome)
           THEN Send(Closing(StyleOf(responses), outcome # "longReply"), "cleanup")
           ELSE pc' = "staticClosing" /\ UNCHANGED linkVars
    /\ UNCHANGED <<questionIndex, responses, followup_index, buffer>>

StaticClosingUnstyled ==          \* mutant: one text for every style
    /\ pc = "staticClosing"
    /\ Send(Closing("neutro", TRUE), "cleanup")
    /\ UNCHANGED <<sessionVars, gptVars>>
StaticClosing ==
    /\ pc = "staticClosing"
    /\ Send(Closing(StyleOf(responses), TRUE), "cleanup")
    /\ UNCHANGED <<sessionVars, gptVars>>

\* cleanup: of handleClient, then close() in clientHandlerThread.
Cleanup ==
    /\ pc = "cleanup"
    /\ gpt_destroy_session
    /\ ServerCloses
    /\ pc' = "done"
    /\ UNCHANGED sessionVars

ServerNext ==
    \/ CreateSession
    \/ AskQuestion \/ ReadAnswer \/ LoseAnswer
    \/ SendResult \/ SendTransition \/ ReadReady \/ LoseReady
    \/ AskFollowup \/ ReadFollowup \/ LoseFollowup
    \/ GptClosing \/ StaticClosing \/ Cleanup

----------------------------------------------------------------------------
PCs == {"start", "ask", "readAnswer", "sendResult", "sendTransition",
        "readReady", "followAsk", "followRead", "gptClosing", "staticClosing",
        "cleanup", "done", "killed"}

Lines == [kind : {"rating", "ready", "text", "junk", "none"},
          value : Nat, num : Nat, more : BOOLEAN]

Messages ==
    [type : {"ask", "followup"}, num : Nat, style : {""}, whole : BOOLEAN]
    \cup [type : {"result", "state_change", "closing"}, num : {0}, style : Styles,
          whole : BOOLEAN]

ServerTypeOK ==
    /\ pc \in PCs
    /\ questionIndex \in 0 .. NumQuestions
    /\ responses \in [Questions -> Ratings \cup {Unanswered}]
    /\ followup_index \in 0 .. NumFollowups
    /\ buffer \in Lines /\ quoted \in Lines
    /\ gpt_session \in BOOLEAN /\ message_count \in Nat

LinkTypeOK ==
    /\ toClient \in Seq(Messages) /\ toServer \in Seq(Lines)
    /\ serverOpen \in BOOLEAN /\ clientOpen \in BOOLEAN
    /\ serverErr \in {"none", "reset", "pipe"}
    /\ clientErr \in {"none", "broken"}

(* Parts of an inductive invariant that no client can disturb. *)

Assessing == pc \in {"start", "ask", "readAnswer"}

\* The loops' conditions hold in their bodies.
LoopInv ==
    /\ pc = "start" => questionIndex = 0 /\ message_count = 0
    /\ Assessing => questionIndex < NumQuestions
    /\ Assessing \/ pc \in {"sendResult", "sendTransition", "readReady"} =>
           followup_index = 0
    /\ pc \in {"followAsk", "followRead"} => followup_index < NumFollowups

\* What each end's sockets and errors say of the other end.
EndsInv ==
    /\ ~clientOpen => toClient = <<>>
    /\ ~serverOpen => toServer = <<>>
    /\ serverErr # "none" => ~clientOpen
    /\ clientErr # "none" => ~serverOpen
    /\ pc = "start" /\ clientOpen => serverOpen
    /\ pc \in {"done", "killed"} => ~serverOpen
    /\ pc \notin {"start", "done", "killed"} => serverOpen
=============================================================================
