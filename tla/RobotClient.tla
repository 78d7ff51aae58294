---------------------------- MODULE RobotClient ----------------------------
(***************************************************************************)
(* The Furhat application: the states of flow/*.kt and ServerConnection.   *)
(* A state whose entry or response handler reads the server's messages is  *)
(* split in two: ".read", the flow thread is inside readJson, and          *)
(* ".listen", the handler is over and the state waits for an event.  An    *)
(* uncaught exception in a handler ends the handler and nothing else, so   *)
(* it leads to ".listen".  The person in front of the robot is part of the *)
(* environment; replies that change no state (an unrecognised number, no   *)
(* reply at all) are steps that stutter and are left out.                  *)
(*                                                                         *)
(* PeerFaults names what this instance's environment may do: "leave" the   *)
(* last user walks away, "crash" the application dies, "longAnswer" a      *)
(* spoken reply longer than the server's read buffer, "refused" no server  *)
(* answers the first connection.                                           *)
(***************************************************************************)
EXTENDS HandleClient

CONSTANTS PeerFaults, UserRatings   \* the ratings the users of this instance give

ASSUME PeerAssumption ==
    /\ PeerFaults \subseteq {"leave", "crash", "longAnswer", "refused"}
    /\ UserRatings \subseteq Ratings

VARIABLES flow, isWaitingForAnswer, isWaitingForResponse,
          currentPersonality,
          currentQuestion,   \* the message the robot last put into words
          given,     \* ghost: the rating the user gave for each question
          goodbye    \* ghost: the style of the goodbye that was spoken

robotVars == <<flow, isWaitingForAnswer, isWaitingForResponse,
               currentPersonality, currentQuestion, given, goodbye>>

NoQuestion == Message("ask", 0, "", TRUE)

RobotInit ==
    /\ flow = "Init"
    /\ isWaitingForAnswer = FALSE /\ isWaitingForResponse = FALSE
    /\ currentPersonality = ""
    /\ currentQuestion = NoQuestion
    /\ given = [i \in Questions |-> Unanswered]
    /\ goodbye = "none"

\* Init.onEntry: with nobody in view the flow idles.
ConnectToServer ==
    /\ flow = "Init"
    /\ Connect
    /\ flow' \in {"Idle", "Greeting"}
    /\ UNCHANGED <<isWaitingForAnswer, isWaitingForResponse,
                   currentPersonality, currentQuestion, given, goodbye>>

\* Init.onEntry: `server' stays uninitialised, and nobody tries again.
ConnectionRefused ==
    /\ flow = "Init" /\ "refused" \in PeerFaults
    /\ flow' = "Idle"
    /\ UNCHANGED <<isWaitingForAnswer, isWaitingForResponse,
                   currentPersonality, currentQuestion, given, goodbye, linkVars>>

\* Idle: a user enters, or speaks.
Engage ==
    /\ flow = "Idle"
    /\ flow' = "Greeting"
    /\ UNCHANGED <<isWaitingForAnswer, isWaitingForResponse,
                   currentPersonality, currentQuestion, given, goodbye, linkVars>>

\* Greeting: No.
Decline ==
    /\ flow = "Greeting"
    /\ flow' = "Idle"
    /\ UNCHANGED <<isWaitingForAnswer, isWaitingForResponse,
                   currentPersonality, currentQuestion, given, goodbye, linkVars>>

\* Greeting: Yes.  The assessment is a state entered afresh, whatever was
\* being asked before.
Consent ==
    /\ flow = "Greeting"
    /\ flow' = "Assessment.read"
    /\ isWaitingForAnswer' = FALSE
    /\ UNCHANGED <<isWaitingForResponse, currentPersonality, currentQuestion,
                   given, goodbye, linkVars>>

\* Parent.onUserLeave, when nobody is left; the handler runs between the other
\* handlers, never inside a blocked readJson.
LastUserLeaves ==
    /\ "leave" \in PeerFaults
    /\ flow \in {"Greeting", "Assessment.listen", "FollowUp.listen"}
    /\ flow' = "Idle"
    /\ UNCHANGED <<isWaitingForAnswer, isWaitingForResponse,
                   currentPersonality, currentQuestion, given, goodbye, linkVars>>

----------------------------------------------------------------------------
(* PersonalityAssessment. *)

\* The `when' of the read loop, in onEntry and in onResponse alike.
HandleAssessmentMessage(m) ==
    /\ isWaitingForAnswer' = IF m.type \in {"ask", "followup"} THEN TRUE
                             ELSE isWaitingForAnswer
    /\ currentQuestion' = IF m.type \in {"ask", "followup"} THEN m ELSE currentQuestion
    /\ currentPersonality' = IF m.type \in {"result", "state_change"} THEN m.style
                             ELSE currentPersonality
    /\ flow' = IF m.type \in {"ask", "followup"} THEN "Assessment.listen"
               ELSE IF m.type = "result"       THEN "Assessment.read"
               ELSE IF m.type = "state_change" THEN "Assessment.confirm"
               ELSE "FollowUp.read"

\* One turn of the read loop that gets a line.  A line made of a truncated
\* message and the next one is no JSON, and its exception ends the handler.
AssessmentReads(n) ==
    /\ flow = "Assessment.read" /\ LineEnds(n)
    /\ ClientReads(n)
    /\ IF n = 1 THEN HandleAssessmentMessage(Head(toClient))
       ELSE /\ flow' = "Assessment.listen"
            /\ UNCHANGED <<isWaitingForAnswer, currentPersonality, currentQuestion>>
    /\ UNCHANGED <<isWaitingForResponse, given, goodbye>>

\* The rest of the state_change branch: READY_FOR_FOLLOWUP, then goto.
ConfirmForgotten ==               \* mutant: goto without sendLine
    /\ flow = "Assessment.confirm"
    /\ flow' = "FollowUp.read"
    /\ UNCHANGED <<isWaitingForAnswer, isWaitingForResponse,
                   currentPersonality, currentQuestion, given, goodbye, linkVars>>
ConfirmTransition ==
    /\ flow = "Assessment.confirm"
    /\ IF ClientCanSend THEN ClientSends(<<Ready>>) /\ flow' = "FollowUp.read"
       ELSE UNCHANGED linkVars /\ flow' = "Assessment.listen"
    /\ UNCHANGED <<isWaitingForAnswer, isWaitingForResponse,
                   currentPersonality, currentQuestion, given, goodbye>>

\* readJson returns null, and the follow-up starts all the same; or it throws.
AssessmentReadEnds ==
    /\ flow = "Assessment.read" /\ ClientReadEnds
    /\ flow' = IF NullRead THEN "FollowUp.read" ELSE "Assessment.listen"
    /\ ClientDrains
    /\ UNCHANGED <<isWaitingForAnswer, isWaitingForResponse,
                   currentPersonality, currentQuestion, given, goodbye>>

\* onResponse with a number from one to seven.  When sendLine throws, the
\* question stays the one awaiting an answer: no change, hence the guard.
AnswerQuestion(r) ==
    /\ flow = "Assessment.listen" /\ isWaitingForAnswer
    /\ ClientCanSend
    /\ ClientSends(<<Rating(r, currentQuestion.num)>>)
    /\ flow' = "Assessment.read"
    /\ isWaitingForAnswer' = FALSE
    /\ given' = IF currentQuestion.type = "ask"
                THEN [given EXCEPT ![currentQuestion.num - 1] = r] ELSE given
    /\ UNCHANGED <<isWaitingForResponse, currentPersonality, currentQuestion, goodbye>>

----------------------------------------------------------------------------
(* FollowUpConversation. *)

\* endConversationWithPersonality: the goodbye, close, exitProcess(0).
EndConversation(style) ==
    /\ goodbye' = style
    /\ isWaitingForResponse' = FALSE
    /\ flow' = "exited"
    /\ ClientCloses
    /\ UNCHANGED <<isWaitingForAnswer, currentPersonality, currentQuestion, given>>

\* requestNextQuestion with a line: a question is asked, a closing is spoken,
\* and anything else, a broken line included, ends with the default goodbye.
FollowUpReads(n) ==
    /\ flow = "FollowUp.read" /\ LineEnds(n)
    /\ LET m == Head(toClient)
       IN  IF n = 1 /\ m.type \in {"ask", "followup"}
           THEN /\ isWaitingForResponse' = TRUE
                /\ currentQuestion' = m
                /\ flow' = "FollowUp.listen"
                /\ ClientReads(1)
                /\ UNCHANGED <<isWaitingForAnswer, currentPersonality, given, goodbye>>
           ELSE EndConversation(IF n = 1 /\ m.type = "closing" THEN m.style ELSE "default")

\* requestNextQuestion without one: null and exceptions both end it.
FollowUpReadEnds ==
    /\ flow = "FollowUp.read" /\ ClientReadEnds
    /\ EndConversation("default")

\* onResponse: any reply goes to the server, in two pieces when it is too long
\* for one read there.  A sendLine that throws changes nothing.
AnswerFollowUp(long) ==
    /\ flow = "FollowUp.listen" /\ isWaitingForResponse
    /\ ClientCanSend
    /\ LET num == currentQuestion.num
       IN  ClientSends(IF long THEN <<Text(num, TRUE), Text(num, FALSE)>>
                       ELSE <<Text(num, FALSE)>>)
    /\ isWaitingForResponse' = FALSE
    /\ flow' = "FollowUp.read"
    /\ UNCHANGED <<isWaitingForAnswer, currentPersonality, currentQuestion,
                   given, goodbye>>

\* The application dies.
RobotCrash ==
    /\ "crash" \in PeerFaults
    /\ flow # "exited"
    /\ flow' = "exited"
    /\ ClientCloses
    /\ UNCHANGED <<isWaitingForAnswer, isWaitingForResponse,
                   currentPersonality, currentQuestion, given, goodbye>>

----------------------------------------------------------------------------
\* Where the robot reads, where it waits for the person.
RobotReads ==
    \/ \E n \in 1 .. Len(toClient) : AssessmentReads(n) \/ FollowUpReads(n)
    \/ AssessmentReadEnds \/ ConfirmTransition \/ FollowUpReadEnds

UserAnswers ==
    \/ \E r \in UserRatings : AnswerQuestion(r)
    \/ \E long \in IF "longAnswer" \in PeerFaults THEN BOOLEAN ELSE {FALSE} :
            AnswerFollowUp(long)

RobotNext ==
    \/ ConnectToServer \/ ConnectionRefused
    \/ Engage \/ Decline \/ Consent \/ LastUserLeaves
    \/ RobotReads \/ UserAnswers
    \/ RobotCrash

Flows == {"Init", "Idle", "Greeting", "Assessment.read", "Assessment.listen",
          "Assessment.confirm", "FollowUp.read", "FollowUp.listen", "exited"}

RobotTypeOK ==
    /\ flow \in Flows
    /\ isWaitingForAnswer \in BOOLEAN /\ isWaitingForResponse \in BOOLEAN
    /\ currentPersonality \in Styles \cup {""}
    /\ currentQuestion \in Messages
    /\ given \in [Questions -> Ratings \cup {Unanswered}]
    /\ goodbye \in Styles \cup {"none", "default"}
=============================================================================
