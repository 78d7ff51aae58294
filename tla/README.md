# IoRobot: a verification project

TLA+ models of the personality-assessment robot in this repository: a Furhat
application in Kotlin (`client/`) that talks over TCP to a multi-threaded server
in C (`server/`), which scores a questionnaire and words its questions with GPT.
TLC checks the models on small instances; TLAPS proves, for every size, every safety
property of a passing run and the refinement. `PROJECT.json` maps each definition to
the lines it models.

## 1. Inventory

| Part | Source | State | Operations |
|---|---|---|---|
| Session thread | `server/connection.c` `handleClient`, `clientHandlerThread` | position in the code, `questionIndex`, `responses[10]`, `followup_index`, `buffer`, `gpt_session` | ask, read, record or reject, score, send result and state_change, wait for READY_FOR_FOLLOWUP, three follow-ups, closing, clean-up |
| Scoring and tone | `connection.c` 176-224, 385-423 | none | score with reversed items, style, `determine_behavior_style` |
| Text of a reply | `connection.c` 449-489 | input, output and their positions | `sanitize_for_json`: copy, replace, escape, cut, trim |
| GPT client | `server/gpt_client.c` | per session `messages[50]`, `message_count`; global configuration | load configuration and template, create, initialise, send, destroy |
| Connection | `ServerConnection.kt`, `read`/`send`/`close` in C | bytes under way each way, which ends are open, pending errors | connect, readJson, sendLine, read, send, close, process exit |
| Robot dialogue | `client/.../flow/*.kt` | Furhat state, `isWaitingForAnswer`, `isWaitingForResponse`, `currentPersonality`, `currentQuestion` | Init, Idle, Greeting, PersonalityAssessment, FollowUpConversation, user enters or leaves |
| Accept loop, shutdown | `server/server.c`, `main.c` 59-64 | listening socket, `serverRunning`, detached threads, the process's descriptors | accept, create thread, close, signal handler, exit |
| Start-up | `main.c`, `gpt_client.c` 32-121 | configuration | load, test, fall back or exit |
| Logger | `server/logger.c` | level, `logMutex` | log |
| Test, prompts, gestures, deployment | `test.py`, `gpt_prompt.txt`, gesture functions, scripts | - | - |

How they interact. Each accepted connection gets a detached thread that runs
`handleClient` to its end; threads share only the logger, the GPT configuration
and the process. Robot and thread alternate over one TCP connection: the thread
sends JSON lines, the robot answers with plain lines; each blocks in a read
without a time-out. Inside its turn the thread calls GPT (HTTP, 30 s at most).
On the robot, Furhat runs one event handler at a time; a handler that reads
blocks all others, and an exception ends only the handler.

What is hard here:

* both ends must agree, without any sequence number, on which question is
  pending, while users leave and return, replies are rejected, lines are split or
  coalesced by `read`, and GPT calls fail;
* the code after the question loop runs also when the loop was left by a failed
  read, on a connection that may be closed or reset;
* neither side has a time-out, so any disagreement blocks both for ever;
* fixed buffers: 1024-byte lines, 50 messages;
* the threads of the server share a process: a descriptor closed twice, a signal,
  a broken pipe or a NULL handed to libc in one of them is felt by all;
* a signal handler that logs, closes, cleans up and exits on top of any thread.

Correctness, per part:

* session thread: records what was answered, in order; sends phases in order;
  ends when its client is gone; does not take other sessions with it;
* scoring: opposite persons, opposite styles; monotone; reversals cancel;
* GPT client: never stores past its array; a prompt quotes the right reply;
* dialogue: a person who keeps answering is led to the goodbye that fits their
  own answers; robot and server never wait for each other;
* text of a reply: stays within its buffer, stays a JSON string, keeps its words;
* server: no descriptor leaks or is closed under its owner, `main` itself never
  cuts a session, whoever dials in is served, a signal ends it;
* start-up: the settings it cannot do without end it, and no others;
* logger: whoever takes the mutex gives it back.

## 2. The modules

| Module | Models |
|---|---|
| `Scoring` | the arithmetic of the assessment, as operators |
| `GptClient` | one GPT session: does it exist, how many messages does it hold, how can a call end |
| `TcpLink` | the connection as both programs' calls see it (external to the repository) |
| `HandleClient` | the session thread, extends the three above |
| `RobotClient` | the Furhat application and the person, extends `HandleClient` |
| `Conversation` | robot, person, thread, GPT and connection interleaved: `Spec`, `FairSpec`, properties, inductive invariant |
| `Interview` | the abstract specification that `Conversation` implements: answers in turn, one profile, one goodbye |
| `Session` | the same thread before an arbitrary client (`test.py`, a terminal), with its inductive invariant |
| `Questionnaire` | scoring and tone, reply by reply, accepted or rejected |
| `Sanitize` | `sanitize_for_json`, byte by byte |
| `Logger` | the logger's mutex |
| `Server` | the process: start-up, accept loop, session threads, descriptors, what a session can die of, signal handler; uses `Logger` |
| `HandleClientProofs` | lemmas about the thread and the connection, whoever the client is |
| `ConversationProofs`, `InterviewProofs`, `TurnProofs` | the theorems about `Conversation`, each extends the one before; turns and prompts are in the last |
| `SessionProofs`, `QuestionnaireProofs`, `ServerProofs`, `SanitizeProofs` | the theorems about the module of that name |

`HandleClient` has one action per stretch of code between two reads. A GPT call
and the `send` after it are one action: the thread looks at nothing shared
between them, and what the robot does meanwhile commutes with the call, because
the outcome of a call does not depend on the connection. `pc` names the stretch:
`ask` is the top of the question loop, `readAnswer` its read, `sendResult` and
`sendTransition` the code after it, `readReady` the wait for the confirmation,
`followAsk` and `followRead` the second loop, `gptClosing` and `staticClosing`
the two ways to close, `cleanup` the label, `done` the ended thread, `killed` the
process ended by SIGPIPE or a NULL in libc.

`RobotClient` splits a Furhat state whose handler reads the server in two:
`.read` is inside `readJson`, `.listen` is after the handler. `.confirm` is the
place between receiving `state_change` and sending `READY_FOR_FOLLOWUP`, where a
write can throw.

Data. A line from the robot is a record of its kind, the value `atoi` gives, a
flag for "more of it follows", and a ghost: the number of the question it
answers. A line longer than the server's 1023-byte read is several such records,
as `read` cuts it, and the code looks at each of them. A message from the server is
its type, number, style, and whether it kept its newline. `ask` and `gpt_ask`, `closing` and `gpt_closing` are handled
alike by the client and are one type each. `longReply` is a GPT reply whose JSON
line does not fit: both `sanitize_for_json` and the `snprintf` after it cut it
there. A reply cut by `sanitize_for_json` cannot still fit, its buffer being as
large as the line. `style` in a closing is the style the wording is asked for;
the robot only speaks it. `given` and `goodbye` are ghosts as well: what the
person answered, what was spoken last. Averages compared with 3.0 and 5.0 are
sums compared with multiples, which for at most ten ratings is exact.

`TcpLink` promises what POSIX sockets on the loopback promise: in order, no loss;
a `read` returns one piece or several; a `send` to a closed peer succeeds and
may be answered by RST; the next call after an RST reports ECONNRESET and a
later `send` raises SIGPIPE; closing with unread input sends RST instead of FIN;
input the kernel already handed to Java's `BufferedReader` is not unread.

`Interview` knows nothing of servers and lines. `Conversation` maps its `answers`
to `given`, its `profile` to `currentPersonality` and its `farewell` to `goodbye`;
the answer step is the person's, adopting is the robot's handler of `result`.

`Server` has one action per stretch of code that ends with lines in the log: the
next step of that thread waits until they are written (`LogIdle`). `mainAt` is
where `main` is, `session` how far the server is with each client, `fds` the
descriptor table with the use of each number and its owner. A `close` frees
whatever the number stands for by then, so that a second `close` of a number
given out again is seen. Linux's `accept` reserves its number before it waits
(`EnterAccept`). A session opens a descriptor for the template file or for a GPT
connection (`StartCall`), logs, and ends; what it says is `HandleClient`'s matter.
That it can die, taking the process along, is `BrokenPipe` (a send to a client that
has gone) and `NullReply` (a reply of GPT without a body or a content). The
signal handler runs on top of any thread (`handlerOn`), which stands still
meanwhile; if that thread holds `logMutex`, neither moves again.

`Session`'s client is any program that dials the port. It sends pieces: `PeerLines`
are whole lines and last pieces of longer ones, `PeerParts` the pieces that fill a
read. Where a long line is cut when it waits behind a short one depends on how much
of it fitted into the read that dropped its beginning; another division of the same
line, which the client may choose as well, stands for that.

`Questionnaire` is the question loop without its reads and sends: `Accept` and
`Reject` are the two branches after `atoi`, `Reply` a turn of the loop up to the
tone of the question asked next, which a rejected reply decides too.

`Sanitize` tells bytes apart as the code does: line break, quote, backslash,
space, anything else. "Anything else" is called a letter, whether it is one or a
tab, a control byte or part of a UTF-8 sequence: the code copies them all, and a
JSON parser that forbids raw control bytes, or a sequence cut in half, is outside
the model. Positions count from one.

## 3. What each run checks

Passing runs:

* `conversation` (`Conversation.cfg`). Every fault: no GPT session, no handle,
  failed calls, long replies, NULL contents; a person who leaves, an application
  that dies, answers longer than a read, a first connection that is refused. Four
  questions, three follow-ups, ratings 1 and 7. Four questions contain both
  kinds of item twice and reach all three styles; ratings 1 and 7 are the
  extremes between which every shift of an answer shows. `MaxHistory = 17` is the
  room `HistoryRoom` asks for; the conversation uses 16 of it, so the second message
  too many is the first to be seen.
  Shows that recorded answers, adopted personality and spoken goodbye are the
  person's own, that the message array suffices, the inductive invariant, that
  all this implements `Interview` (`ImplementsInterview`), and that a thread whose
  client is gone ends.
* `conversation_live` (`ConversationLive.cfg`). The code's sizes (10, 3, 50), a
  person who stays and keeps answering, GPT that may be missing or fail at any
  call. Shows that no two reads wait for each other, that the prompts for questions,
  for follow-ups and for a closing after them quote the reply before, and that a
  started assessment leads to the goodbye and the end of the thread. A closing
  without a follow-up before it is left out: what it quotes is wrong (below).
* `session` (`Session.cfg`). The thread before a client that sends whatever it
  likes whenever it likes, long lines included, up to five pieces (`MaxPieces`), two
  of them unread at once (`MaxQueued`, enough for coalesced reads), and hangs up at
  any time. Ratings are 7 in a short line and 1 in a long one. Two questions and one
  follow-up need four pieces, so one is left for a rejected or lost one. Shows the
  inductive invariant, which message may follow which (`TranscriptInOrder`), that
  answers are pieces the client sent, in order, that a client that is still there
  gets a result only for a finished questionnaire, that nothing of phase two
  precedes the confirmation, and the bound on the history. It may stop when the
  client does, so deadlock is not checked.
* `questionnaire` (`Questionnaire.cfg`). All 3^10 questionnaires over {1, 4, 6}
  with the code's ten items, and before every answer the replies 0 and 8, which are
  no ratings: that exactly the questions below the index have an answer (`TypeOK`),
  mirror images, equal answers, monotonicity, and after every reply the symmetry of
  the tone GPT is asked for. With these ratings every score near the thresholds 30
  and 50 occurs, the thresholds included ({1, 4, 7} would step over them in threes),
  and `MirrorImage` says which side a threshold belongs to. It ends with the last
  answer, so deadlock is not checked. The reading of the statements
  (`IntrovertStatements`) comes from their Italian wording, not from the code.
* `sanitize` (`Sanitize.cfg`). Every text of up to six bytes of each kind, and a
  buffer of six. Six is room for two escapes and a zero and one more, so that each
  kind of byte meets each of the last positions; texts are cut with and without
  escapes. Shows that no write leaves the buffer, that the output stays a JSON
  string wherever it is cut and trimmed, and that a text that fits keeps its words.
  The function returns, so deadlock is not checked.
* `server` (`Server.cfg`). Two clients and three descriptors, one of which is the
  listening socket's: two sessions, or a session and its GPT call, leave none for
  `accept`. Libcurl, the key, the prompt template and the port may be missing at
  start-up (a missing URL or model is handled as the template is); threads fail,
  pipes break, GPT replies without a content, a signal comes at any moment on any
  thread. Shows the inductive invariant, that descriptors neither leak nor are closed
  under their owner, that `main` never cuts a session, which missing settings are
  fatal and that they are the only ones, that whoever dials in is
  served although `accept` fails meanwhile (`ClientsServed`), and that a signal ends
  the process unless it met a thread inside the logger. A server nobody dials
  waits, and an ended one stops: deadlock is not checked.

Runs that find a disagreement between the code and what its comments or docs say;
`PROJECT.json` "findings" quotes them:

* `conversation_crash`: the robot dies before a question is sent; the question draws
  a reset, the thread's read fails, the code below the loop sends the result, and
  SIGPIPE ends the server process. (A robot that dies with the question unread
  resets the connection itself, and the read reports it: then the result is the first
  send, and kills as well. One that dies with nothing unread or under way is closed
  in order, the result draws the reset, and the `state_change` kills.)
* `conversation_leave`: the person leaves during a question and returns; the new
  assessment reads, the server still waits for the old answer.
* `conversation_long_reply`: a question cut at 1024 bytes has no newline, and both
  ends wait.
* `session_overflow`: with the code's sizes and 25 replies that are no rating, the
  user's message is stored past `messages[50]`. The state reached has
  `message_count` 51; the store that precedes it is to index 50. As every read is a
  reply, one line of some 25 kilobytes is enough.
* `session_stale_prompt`: after a rejected reply the prompt quotes it as the
  answer to the previous question.
* `server_signal`: the signal meets a thread that holds `logMutex`; the handler logs
  as well, and waits for the thread it stands on.

Further disagreements. The properties are stated in the modules, and TLC refutes each
of them in seconds with the configuration named; they are not among the runs of
`PROJECT.json`.

| Configuration | Property | What the code does, and what it says |
|---|---|---|
| `ConversationClosing` | `ClosingQuotesTheUser` | when the first follow-up call fails, the closing prompt presents READY_FOR_FOLLOWUP (`connection.c:332`) as the "ultima_risposta" (`gpt_prompt.txt:19`) |
| `SessionLongLine` | `OneAnswerPerLine` | a line longer than one read (`connection.c:154`) is recorded as the answers to two questions, each logged as the "response to Q%d" (174) |
| `ConversationLongAnswer` | `FollowupAnswersMatch` | a spoken answer longer than one read (310) is counted as the answers to two of the "3 domande" (`gpt_prompt.txt:12`) |
| `ConversationNullReply` | `ServerSurvives` | a reply of GPT without a body or a content ends the process (`gpt_client.c:284`, 303) instead of leading to the "Fallback alle domande statiche" (`connection.c:140`) |
| `ConversationRefused` | `ConversationEnds` | a robot whose connection was refused (`init.kt:27`) greets people all the same, and the flow of `README.md:116-122` stops after the consent |
| `QuestionnaireTone` | `EmpathyForShyness` | the tone is chosen from the raw reply, the average beside it is of reversed items: a reserved person who gives the shy reply to a statement worded the introverted way is met with curiosity, not with the empathy "per risposte che indicano timidezza" (`connection.c:402`) |
| `ServerNoKey` | `FallbackWithoutKey` | without a key the server does not start (`main.c:76-79`), although `main.c:20-24` and 83 announce "fallback mode only", and `README.md:22` static questions |
| `ServerShutdown` | `ShutdownWaits` | the shutdown sleeps a second and exits (`server.c:81`, `main.c:63`), although `server.c:80` logs "waiting for threads to complete" |

And a byte that needs an escape is dropped, and the next one copied, when
`sanitize_for_json` has one position left, so a text that is cut may miss a quote
before its last letter.

Each property of a passing run has a mutant: a plausible slip in the code
(`... \* mutant` in the modules) under which TLC finds the property violated.

### Fairness

`FairSpec` of `Conversation` has three weak-fairness conjuncts. The thread: the
operating system schedules it, and a GPT call returns (`CURLOPT_TIMEOUT`, 30 s).
The robot's reads and the code after them: Furhat's flow thread runs, and bytes
sent on the loopback arrive. The person: once asked, answers with a number; only
`ConversationEnds` needs this. Nothing is assumed about leaving, crashing,
consenting or greeting. `FairSpec` of `Session` has the first conjunct only.
`FairSpec` of `Server`: `main` and the handler are scheduled (weak fairness), whoever
writes a line finishes it, and `main` and the handler, who compete for the mutex
with threads that may log for ever, get it now and then (strong fairness of their
log steps: Linux's mutexes promise no order, but starve nobody for ever). Sessions
need not go on or end: a client may stay connected for good.
`ThreadEnds` is checked with every fault; a process that dies satisfies it as well, as
the kernel then closes the socket (`ServerSurvives` is about that).
`ConversationEnds` is checked only without the faults that refute it (leaving,
crashing, long and missing replies, a refused connection): these are the findings.

### Bounds

`NumQuestions`, `NumFollowups`, `MaxHistory` are the code's constants, smaller
where the run says so; `GptFaults`, `PeerFaults` choose the faults;
`UserRatings`, `PeerLines`, `PeerParts`, `PersonReplies` choose inputs; `MaxPieces`,
`MaxQueued` bound the arbitrary client. `RobotClient` needs no bound: each side
waits for the other, so the queues stay short by themselves. Person and robot
leave out steps that change nothing (no reply, an unrecognised word).

`Server`: `Clients`, `NumDescriptors`; each client dials once, and one signal is
delivered. `Sanitize`: `OutputSize`, `MaxInput`.

## 4. What is proved

For every value of the constants that satisfies the named `ASSUME`s: every
`NumQuestions` in 1..10 (the reversed items are written out for ten), every
`NumFollowups` and `MaxHistory` above zero, every set of faults, ratings, lines and
clients, every `MaxPieces`, `MaxQueued` and `NumDescriptors`, every `OutputSize` from
two on, every `MaxInput`.

| Module | Theorem | States |
|---|---|---|
| `ConversationProofs` | `TypeCorrect` | `Spec => []TypeOK` |
| | `InvariantHolds` | `Spec => [](TypeOK /\ IInv)` |
| | `AnswersRecorded` | `Spec => []AnswersAreTheUsers` |
| | `ProfileCorrect` | `Spec => []ProfileIsTheUsers` |
| | `GoodbyeCorrect` | `Spec => []GoodbyeFitsPersonality` |
| | `HistoryBounded` | `Spec => []HistoryFits` |
| `InterviewProofs` | `ConversationImplementsInterview` | `Spec => ImplementsInterview` |
| `TurnProofs` | `NobodyWaits` | `Spec => []NoMutualWait`, if nobody may leave and no GPT reply may be too long |
| | `PromptsQuoteTheReply` | `Spec => []PromptQuotesLastAnswer`, if no spoken answer is longer than one read |
| | `FollowupsMatch` | `Spec => []FollowupAnswersMatch`, if no spoken answer is longer than one read |
| `SessionProofs` | `TypeCorrect`, `InvariantHolds` | `Spec => []TypeOK`, `Spec => [](TypeOK /\ IInv)` |
| | `RecordedSent` | `Spec => []RecordedWereSent` |
| | `TranscriptOrdered` | `Spec => []TranscriptInOrder` |
| | `ResultComplete` | `Spec => []ResultIsComplete` |
| | `FollowUpConfirmed` | `Spec => []FollowUpIsConfirmed` |
| | `HistoryBoundedByReads` | `Spec => []HistoryPerRead` |
| `ServerProofs` | `TypeCorrect`, `InvariantHolds` | `Spec => []TypeOK`, `Spec => [](TypeOK /\ IInv)` |
| | `NoLeak` | `Spec => []NoDescriptorLeak` |
| | `SessionsOwnTheirs` | `Spec => []DescriptorsStayOwn` |
| | `SessionsGoOn` | `Spec => []MainCutsNoSession` |
| | `RequiredIsFatal` | `Spec => []OnlyTheRequiredIsFatal` |
| `QuestionnaireProofs` | `TypeCorrect` | `Spec => []TypeOK` |
| | `OppositeStyles` | `Spec => []MirrorImage` |
| | `SameAnswersNeutral` | `Spec => []SameAnswersAreNeutral`, if `NumQuestions` is even |
| | `MoreExtroverted` | `Spec => []ExtroversionIsMonotone` |
| | `OppositeTones` | `Spec => []MirrorTone` |
| `SanitizeProofs` | `TypeCorrect`, `OutputFits`, `OutputWellFormed` | `Spec => []TypeOK`, `Spec => []FitsBuffer`, `Spec => []WellFormed` |
| | `FittingTextSurvives` | `Spec => []TextSurvives` |

**Conversation.** The argument goes in layers, each inductive relative to those
before it:

1. `TypeInv`: types, with `LoopInv` (an index is below its bound inside its loop,
   without which the index would leave its type). The thread's share of it is
   proved once, in `HandleClientProofs`, for any client.
2. `LinkInv`: what each end's socket implies of the other (`EndsInv`, again for any
   client). For instance, a failed read means the client is gone, and a client
   that is gone has an empty queue.
3. `TokenInv`: while the assessment lasts there is at most one trace of the
   question being asked: on its way to the robot, in the robot that listens, or
   its answer on its way back. This is what replaces sequence numbers, and why
   the answer read belongs to the index it is stored at. It holds although
   users leave, because the robot then drops the token and nobody creates
   another: the price is the mutual wait of `conversation_leave`.
   With it, `AnswersInv` and `StyleInv`: a style that reached the robot is the
   style of a finished questionnaire. The result computed from an unfinished one
   goes to a closed connection only.
4. `HistoryInv`: two messages per call so far; a rating is always accepted
   (`TokenInv` again), so no call is repeated.

**Refinement.** For `Interview` three more facts are needed: nothing is answered
ahead of the server (`PendingInv`), nothing follows the goodbye (`PartingInv`), and
whoever confirms has adopted a style (`ConfirmedInv`). With them each step maps to
one of `Interview` or to a stutter.

**Turns.** `TokenInv` says that there is at most one token; `NobodyWaits` needs at
least one. `AnsweringInv`, `ResultInv`, `ConfirmationInv` and `FollowInv` say whose
turn it is in each phase, `HeardInv` that who listens has been asked, `WholeInv` that
no line lost its newline. The hypothesis excludes exactly the two faults for which
`conversation_leave` and `conversation_long_reply` find a mutual wait.

**Prompts.** That a prompt quotes the right reply is the equality of what the thread's
buffer holds with the reply to the question before (`QuoteInv`). It is inductive only
when it is known which lines can be waiting for the thread at each read, and so
where the robot is: `LinesInv` (only the answer to what was asked), `HushInv` (no
rating and no follow-up is left over from before), `TransitionInv` (what precedes
`state_change` does not lead the robot on), `RepliesInv` (the follow-up being asked
is on its way, heard, answered, or dropped by a robot whose person left). The
hypothesis is about `read`: of an answer longer than one read the second half is
taken for the answer to the next question, as `ConversationLongAnswer.cfg` shows. People
may leave, robots die and GPT fail. Of the closing nothing is claimed unless a
follow-up was answered: what it quotes otherwise is wrong (section 3).

**Session.** Before a client that sends what it likes there is no token. `QueueInv`:
what is queued is the end of what was sent. `RecordInv`: what is recorded is a
subsequence of what was consumed, by an increasing function that grows with each
answer; lines lost to a coalesced read are skipped by it. A piece is what counts: that
a line is one answer is false (`SessionLongLine.cfg`). `LastInv` ties the
thread's position to the last message, which makes `TranscriptInOrder` inductive;
`PhaseInv` says that only questions precede the result. `HistoryInv` counts messages
per consumed piece; the one call that no piece pays for is followed by a failed
read, after which nothing can be read. `DialInv` is the state before the dial.

**Questionnaire.** `Score` is a recursive function, so what it says of two related
questionnaires needs induction over the number of answers summed. `SetInduction`
has it for sets of numbers: `WFMin` of the library gives the least number outside
the set, and there is none. With it, the sums of a questionnaire and of its mirror
come to `8 * n` (`ScoreMirrored`), a changed answer changes the sum by its own
change (`ScoreChanged`), and equal answers sum to `4 * n`, plus one unpaired item
when `n` is odd (`ScoreConstant`). The properties then compare multiples. With an
odd number of questions the unpaired item decides, hence the hypothesis; the
code's ten are five pairs. `ToneInv` ties the tone to the last reply, accepted or
rejected, for `OppositeTones`.

**Server.** `StartInv`: nothing is shared before the socket exists. `CallInv` and
`ReservedInv`: only a serving session has a call, only one number waits with
`accept`. With these `NoDescriptorLeak` and `DescriptorsStayOwn` are inductive
together: each number in use points to its owner, and until the shutdown each
owner's number points back. After it they need not: handler and `main` both
close `serverFileDescriptor`, and in between a session may have got the number.
`LoopInv`: without a signal `main` stays in its loop and libcurl ready, and it is in the
loop only with all it requires.

**Sanitize.** `WellFormed` names the set of positions at which escapes begin; a plain
byte leaves the set as it is, an escape adds one, the trimming takes a space, which
is in no escape. `SurvivalInv`, for `TextSurvives`, compares the output with the text
read so far: they spell the same, and the output is no longer, so that there is
room for every escape of a text that fits. What a text spells is again a recursive
function, and the same induction shows that it depends on the bytes alone, grows
byte by byte, and loses nothing when spaces at the end go.

Every `IInv` is checked by TLC in the run of its module. `TurnInv`, `PromptInv` and
`SurvivalInv`, which belong to single theorems, are stated beside their proofs.

Only model-checked: the liveness properties `ThreadEnds`, `ConversationEnds`,
`ClientsServed` and `SignalEndsUnlessLogging`, as liveness under fairness is out of
the prover's reach. Each disagreement is a violation TLC shows on its instance.

## 5. Not modelled

* In the GPT client: the HTTP request and its JSON, roles and contents of the
  stored messages, the syntax of `.env` (`strtok` cuts a value at a second `=`), the
  bytes of over-long strings. `gpt_prompt.txt` has 6923 bytes and is cut to 4095, and
  `strncpy` leaves the last byte of a message uninitialised; no decision of the code
  depends on either.
* Wording, gestures, speech; JSON lines as strings. `onUserLeave` is instant
  (`parent.kt:16`) and may interrupt an utterance, the goodbye for instance;
  `LastUserLeaves` happens between two handlers only.
* In the server: failures of `pthread_attr_init` and its companions
  (`server.c:21-33`); a second signal while the first is handled; signals before
  `main.c:72-73`; locks inside `malloc` and libcurl that the interrupted thread may hold
  and the handler then wants, like `logMutex`. The logger's level is set to the lowest
  before anything is logged.
* Message types the server never sends (`transition`, `behavior`, `reaction`, a
  `style` in a question).
* Half-closed connections, network partitions: both ends are on one host
  (`127.0.0.1`, `init.kt:26`).
* `deployer.sh`, Docker and Gradle files, assets; `test.py` is one of the clients of
  `Session`.

## 6. Plan

Done, and their safety proved: the conversation between robot, person, thread and
GPT, the abstract interview it implements, whose turn it is and what a prompt
quotes; the thread before an arbitrary client; the scoring; the text of a reply;
the server process with its start-up, descriptors, logger and signals.

Left, in this order:

1. The seam between robot and arbitrary client: `Conversation`'s robot and
   connection as one of the clients of `Session`, as a refinement.
2. The seam between `Server` and `HandleClient` (which actions of the thread are
   `SessionLogs`, `StartCall`, `BrokenPipe`, `NullReply`), likewise; clients that dial
   again.
3. `GptClient`: roles and order of the stored messages, and what a failed call
   leaves behind for the next request.
