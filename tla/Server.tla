------------------------------- MODULE Server -------------------------------
(***************************************************************************)
(* The server process: start-up, accept loop and return of main.c and      *)
(* server.c, the detached session threads, the descriptors they share, the *)
(* logger's mutex and the signal handler.  What a session says to its      *)
(* client is HandleClient's matter; here it logs, opens descriptors for    *)
(* GPT calls and ends.                                                     *)
(*                                                                         *)
(* A step of a thread ends with the lines it logs, and the next one waits  *)
(* for them.  The handler runs on top of a thread, which stands still.  It *)
(* runs once: a second signal during the first one's handler is left out.  *)
(***************************************************************************)
EXTENDS Integers

CONSTANTS Clients,         \* those who dial port 5555, once each
          NumDescriptors,  \* how many descriptors the process may open
          Missing,         \* what may be missing at start-up in this instance
          ServerFaults     \* what else may go wrong

Setup == {"curl", "key", "url", "model", "template", "port"}

ASSUME ServerAssumption ==
    /\ Clients \cap {"main", "handler", "none"} = {}
    /\ NumDescriptors \in Nat \ {0}
    /\ Missing \subseteq Setup
    /\ ServerFaults \subseteq {"thread", "sigpipe", "nullContent", "signal"}

Threads     == {"main"} \cup Clients
LogUsers    == Threads \cup {"handler"}
Descriptors == 1 .. NumDescriptors
NoFd        == 0           \* the initial value of serverFileDescriptor
BadFd       == -1          \* what createSocket returns when it fails

VARIABLES process,         \* "running", "exited" (0), "failed" (1), "killed"
          provided,        \* what of Setup there is; fixed at the start
          mainAt,          \* where main is
          curlReady,       \* between curl_global_init and curl_global_cleanup
          serverRunning, serverFileDescriptor,
          fds,             \* the descriptor table
          session,         \* per client, how far the server is with it
          clientFd, callFd,  \* per session, its socket and what it opened for
                             \* a GPT call (the template file, a connection)
          handlerAt, handlerOn,  \* the handler's next step, and its thread
          log

INSTANCE Logger

mainVars    == <<mainAt, curlReady, serverRunning, serverFileDescriptor>>
sessionVars == <<session, clientFd, callFd>>
handlerVars == <<handlerAt, handlerOn>>
vars == <<process, provided, mainVars, fds, sessionVars, handlerVars, log>>

Use(use, by) == [use |-> use, by |-> by]
Free         == Use("free", "main")
Listening    == Use("listen", "main")
Reserved     == Use("reserved", "main")   \* by an accept that is blocked
Socket(c)    == Use("socket", c)
Call(c)      == Use("call", c)

Full == \A n \in Descriptors : fds[n] # Free
LowestFree(n) ==
    /\ n \in Descriptors /\ fds[n] = Free
    /\ \A m \in Descriptors : m < n => fds[m] # Free
Open(n, use) == fds' = [fds EXCEPT ![n] = use]
\* Whatever the number stands for now.
close(n) == fds' = IF n \in Descriptors THEN [fds EXCEPT ![n] = Free] ELSE fds

Runs(u) == process = "running" /\ handlerOn # u

Init ==
    /\ process = "running"
    /\ provided \in {Setup \ m : m \in SUBSET Missing}
    /\ mainAt = "init" /\ curlReady = FALSE
    /\ serverRunning = TRUE /\ serverFileDescriptor = NoFd
    /\ fds = [n \in Descriptors |-> Free]
    /\ session = [c \in Clients |-> "absent"]
    /\ clientFd = [c \in Clients |-> NoFd] /\ callFd = [c \in Clients |-> NoFd]
    /\ handlerAt = "none" /\ handlerOn = "none"
    /\ LogInit

----------------------------------------------------------------------------
(* main: start-up. *)

MainAt(at) == Runs("main") /\ LogIdle("main") /\ mainAt = at

\* An .env that can be opened and sets a key; the other settings may be missing.
gpt_load_config == "key" \in provided

gpt_init_global ==
    /\ MainAt("init")
    /\ curlReady' = ("curl" \in provided /\ gpt_load_config)
    /\ mainAt' = IF curlReady' THEN "test" ELSE "fail"
    /\ logMessage({"main"})
    /\ UNCHANGED <<serverRunning, serverFileDescriptor, fds>>

testIsFatal ==             \* mutant: the test's failure ends the program
    /\ MainAt("test")
    /\ mainAt' = IF {"url", "model", "template"} \subseteq provided THEN "bind" ELSE "fail"
    /\ logMessage({"main"})
    /\ UNCHANGED <<curlReady, serverRunning, serverFileDescriptor, fds>>
\* Whatever the test finds is logged, "fallback mode only" included.
test_gpt_configuration ==
    /\ MainAt("test")
    /\ mainAt' = "bind"
    /\ logMessage({"main"})
    /\ UNCHANGED <<curlReady, serverRunning, serverFileDescriptor, fds>>

\* What it has opened is closed again when a later call fails.
createSocket(fd) ==
    IF "port" \in provided THEN LowestFree(fd) /\ Open(fd, Listening)
    ELSE fd = BadFd /\ UNCHANGED fds

initializeServer ==
    /\ MainAt("bind")
    /\ \E fd \in Descriptors \cup {BadFd} :
        /\ createSocket(fd)
        /\ serverFileDescriptor' = fd
        /\ mainAt' = IF fd = BadFd THEN "fail" ELSE "loop"
        /\ curlReady' = (curlReady /\ fd # BadFd)
    /\ logMessage({"main"})
    /\ UNCHANGED serverRunning

StartUp == gpt_init_global \/ test_gpt_configuration \/ initializeServer

ExitFailure ==
    /\ MainAt("fail")
    /\ process' = "failed"
    /\ UNCHANGED <<provided, mainVars, fds, sessionVars, handlerVars, log>>

----------------------------------------------------------------------------
(* main: the accept loop. *)

LoopHead ==
    /\ MainAt("loop")
    /\ mainAt' = IF serverRunning THEN "accept" ELSE "shutdown"
    /\ logMessage(IF serverRunning THEN {"main"} ELSE {})
    /\ UNCHANGED <<curlReady, serverRunning, serverFileDescriptor, fds>>

\* accept() takes its number before it waits.
EnterAccept ==
    /\ MainAt("accept")
    /\ fds[serverFileDescriptor] = Listening
    /\ \E n \in Descriptors : LowestFree(n) /\ Open(n, Reserved)
    /\ mainAt' = "blocked"
    /\ UNCHANGED <<curlReady, serverRunning, serverFileDescriptor, log>>

AcceptFailsForGood ==      \* mutant: break for continue
    /\ MainAt("accept")
    /\ Full \/ fds[serverFileDescriptor] # Listening
    /\ mainAt' = "shutdown"
    /\ logMessage({"main"})
    /\ UNCHANGED <<curlReady, serverRunning, serverFileDescriptor, fds>>
\* No number left, or the listening socket was closed: the loop goes on.
AcceptFails ==
    /\ MainAt("accept")
    /\ Full \/ fds[serverFileDescriptor] # Listening
    /\ mainAt' = "loop"
    /\ logMessage({"main"})
    /\ UNCHANGED <<curlReady, serverRunning, serverFileDescriptor, fds>>

acceptConnection(c) ==
    /\ MainAt("blocked") /\ session[c] = "queued"
    /\ \E n \in Descriptors :
        /\ fds[n] = Reserved
        /\ Open(n, Socket(c))
        /\ clientFd' = [clientFd EXCEPT ![c] = n]
    /\ session' = [session EXCEPT ![c] = "accepted"]
    /\ mainAt' = "spawn"
    /\ logMessage({"main"})
    /\ UNCHANGED <<curlReady, serverRunning, serverFileDescriptor, callFd>>

\* The new thread logs that it has started, main that it was created.
CreateThread(c) ==
    /\ MainAt("spawn") /\ session[c] = "accepted"
    /\ session' = [session EXCEPT ![c] = "serving"]
    /\ mainAt' = "loop"
    /\ logMessage({"main", c})
    /\ UNCHANGED <<curlReady, serverRunning, serverFileDescriptor, fds, clientFd, callFd>>

ThreadFailsLeaks(c) ==     \* mutant: the error path forgets the socket
    /\ "thread" \in ServerFaults
    /\ MainAt("spawn") /\ session[c] = "accepted"
    /\ session' = [session EXCEPT ![c] = "dropped"]
    /\ mainAt' = "loop"
    /\ logMessage({"main"})
    /\ UNCHANGED <<curlReady, serverRunning, serverFileDescriptor, fds, clientFd, callFd>>
ThreadFailsResets(c) ==    \* mutant: the error path stores -1
    /\ "thread" \in ServerFaults
    /\ MainAt("spawn") /\ session[c] = "accepted"
    /\ close(clientFd[c])
    /\ clientFd' = [clientFd EXCEPT ![c] = BadFd]
    /\ session' = [session EXCEPT ![c] = "dropped"]
    /\ mainAt' = "loop"
    /\ logMessage({"main"})
    /\ UNCHANGED <<curlReady, serverRunning, serverFileDescriptor, callFd>>
ThreadFailsRetries(c) ==   \* mutant: the client is not given up
    /\ "thread" \in ServerFaults
    /\ MainAt("spawn") /\ session[c] = "accepted"
    /\ logMessage({"main"})
    /\ UNCHANGED <<mainVars, fds, sessionVars>>
\* malloc or pthread_create fails.
ThreadFails(c) ==
    /\ "thread" \in ServerFaults
    /\ MainAt("spawn") /\ session[c] = "accepted"
    /\ close(clientFd[c])
    /\ session' = [session EXCEPT ![c] = "dropped"]
    /\ mainAt' = "loop"
    /\ logMessage({"main"})
    /\ UNCHANGED <<curlReady, serverRunning, serverFileDescriptor, clientFd, callFd>>

shutdownServer == serverRunning' = FALSE /\ close(serverFileDescriptor)

\* main after runServer: shutdownServer, then the clean-up after its sleep.
MainShutsDown ==
    /\ MainAt("shutdown")
    /\ shutdownServer
    /\ mainAt' = "cleanup"
    /\ logMessage({"main"})
    /\ UNCHANGED <<curlReady, serverFileDescriptor>>

MainCleansUp ==
    /\ MainAt("cleanup")
    /\ curlReady' = FALSE
    /\ mainAt' = "return"
    /\ logMessage({"main"})
    /\ UNCHANGED <<serverRunning, serverFileDescriptor, fds>>

MainReturns ==
    /\ MainAt("return")
    /\ process' = "exited"
    /\ UNCHANGED <<provided, mainVars, fds, sessionVars, handlerVars, log>>

MainNext ==
    \/ /\ \/ StartUp \/ LoopHead \/ EnterAccept \/ AcceptFails
          \/ MainShutsDown \/ MainCleansUp
       /\ UNCHANGED <<process, provided, sessionVars, handlerVars>>
    \/ /\ \E c \in Clients : acceptConnection(c) \/ CreateThread(c) \/ ThreadFails(c)
       /\ UNCHANGED <<process, provided, handlerVars>>
    \/ ExitFailure \/ MainReturns

----------------------------------------------------------------------------
(* clientHandlerThread, one per client. *)

Serving(c) == Runs(c) /\ LogIdle(c) /\ session[c] = "serving"

SessionLogs(c) ==
    /\ Serving(c)
    /\ logMessage({c})
    /\ UNCHANGED <<fds, sessionVars>>

StartCall(c) ==
    /\ Serving(c) /\ callFd[c] = NoFd
    /\ \E n \in Descriptors :
        /\ LowestFree(n)
        /\ Open(n, Call(c))
        /\ callFd' = [callFd EXCEPT ![c] = n]
    /\ UNCHANGED <<session, clientFd, log>>

EndCallKeepsNumber(c) ==   \* mutant: the closed number is still used
    /\ Serving(c) /\ callFd[c] # NoFd
    /\ close(callFd[c])
    /\ logMessage({c})
    /\ UNCHANGED sessionVars
EndCall(c) ==
    /\ Serving(c) /\ callFd[c] # NoFd
    /\ close(callFd[c])
    /\ callFd' = [callFd EXCEPT ![c] = NoFd]
    /\ logMessage({c})
    /\ UNCHANGED <<session, clientFd>>

\* handleClient is over.
FinishSession(c) ==
    /\ Serving(c) /\ callFd[c] = NoFd
    /\ close(clientFd[c])
    /\ session' = [session EXCEPT ![c] = "closed"]
    /\ logMessage({c})
    /\ UNCHANGED <<clientFd, callFd>>

EndThread(c) ==
    /\ Runs(c) /\ LogIdle(c) /\ session[c] = "closed"
    /\ session' = [session EXCEPT ![c] = "ended"]
    /\ UNCHANGED <<fds, clientFd, callFd, log>>

\* A send to a client that has left (conversation_crash shows how).
BrokenPipe(c) ==
    /\ "sigpipe" \in ServerFaults
    /\ Serving(c) /\ callFd[c] = NoFd
    /\ process' = "killed"
    /\ UNCHANGED <<fds, sessionVars, log>>

\* A GPT call whose reply has no body or no content: a NULL goes to
\* json_tokener_parse or strncpy (conversation_null_reply shows how).
NullReply(c) ==
    /\ "nullContent" \in ServerFaults
    /\ Serving(c) /\ callFd[c] # NoFd
    /\ process' = "killed"
    /\ UNCHANGED <<fds, sessionVars, log>>

SessionNext(c) ==
    \/ /\ \/ SessionLogs(c) \/ StartCall(c) \/ EndCall(c)
          \/ FinishSession(c) \/ EndThread(c)
       /\ UNCHANGED <<process, provided, mainVars, handlerVars>>
    \/ /\ BrokenPipe(c) \/ NullReply(c)
       /\ UNCHANGED <<provided, mainVars, handlerVars>>

ClientConnects(c) ==
    /\ process = "running" /\ session[c] = "absent"
    /\ mainAt = "blocked" \/ \E n \in Descriptors : fds[n] = Listening
    /\ session' = [session EXCEPT ![c] = "queued"]
    /\ UNCHANGED <<process, provided, mainVars, fds, clientFd, callFd, handlerVars, log>>

----------------------------------------------------------------------------
(* signalHandler, on any thread. *)

AliveThreads == {"main"} \cup {c \in Clients : session[c] \in {"serving", "closed"}}

signalHandler(t) ==
    /\ "signal" \in ServerFaults
    /\ process = "running" /\ handlerAt = "none" /\ t \in AliveThreads
    /\ handlerAt' = "cleanup" /\ handlerOn' = t
    /\ logMessage({"handler"})
    /\ UNCHANGED <<curlReady, serverRunning, fds, process>>

HandlerAt(at) == process = "running" /\ LogIdle("handler") /\ handlerAt = at

gpt_cleanup_global ==
    /\ HandlerAt("cleanup")
    /\ curlReady' = FALSE
    /\ handlerAt' = "shutdown"
    /\ logMessage({"handler"})
    /\ UNCHANGED <<serverRunning, fds, process, handlerOn>>

HandlerShutsDown ==
    /\ HandlerAt("shutdown")
    /\ shutdownServer
    /\ handlerAt' = "exit"
    /\ logMessage({"handler"})
    /\ UNCHANGED <<curlReady, process, handlerOn>>

\* One second later, whatever the threads are doing.
HandlerExits ==
    /\ HandlerAt("exit")
    /\ process' = "exited"
    /\ UNCHANGED <<curlReady, serverRunning, fds, handlerVars, log>>

HandlerNext ==
    /\ gpt_cleanup_global \/ HandlerShutsDown \/ HandlerExits
    /\ UNCHANGED <<provided, mainAt, serverFileDescriptor, sessionVars>>

SignalArrives ==
    /\ \E t \in Threads : signalHandler(t)
    /\ UNCHANGED <<provided, mainAt, serverFileDescriptor, sessionVars>>

LogNext(u) ==
    /\ Runs(u)
    /\ LockLog(u) \/ UnlockLog(u)
    /\ UNCHANGED <<process, provided, mainVars, fds, sessionVars, handlerVars>>

Next ==
    \/ MainNext \/ HandlerNext \/ SignalArrives
    \/ \E c \in Clients : SessionNext(c) \/ ClientConnects(c)
    \/ \E u \in LogUsers : LogNext(u)

Spec == Init /\ [][Next]_vars

\* Threads are scheduled, who holds the mutex releases it, and main and the
\* handler do not starve at it.  Sessions need not end: a client may stay.
FairSpec ==
    /\ Spec
    /\ WF_vars(MainNext) /\ WF_vars(HandlerNext)
    /\ \A u \in {"main", "handler"} : SF_vars(LogNext(u))
    /\ \A c \in Clients : WF_vars(LogNext(c))

----------------------------------------------------------------------------
Uses == [use : {"free", "listen", "reserved"}, by : {"main"}]
        \cup [use : {"socket", "call"}, by : Clients]

TypeOK ==
    /\ process \in {"running", "exited", "failed", "killed"}
    /\ provided \subseteq Setup
    /\ mainAt \in {"init", "test", "bind", "fail", "loop", "accept", "blocked",
                   "spawn", "shutdown", "cleanup", "return"}
    /\ curlReady \in BOOLEAN /\ serverRunning \in BOOLEAN
    /\ serverFileDescriptor \in Descriptors \cup {NoFd, BadFd}
    /\ fds \in [Descriptors -> Uses]
    /\ session \in [Clients -> {"absent", "queued", "accepted", "serving",
                                "closed", "ended", "dropped"}]
    /\ clientFd \in [Clients -> Descriptors \cup {NoFd}]
    /\ callFd \in [Clients -> Descriptors \cup {NoFd}]
    /\ handlerAt \in {"none", "cleanup", "shutdown", "exit"}
    /\ handlerOn \in Threads \cup {"none"}
    /\ LogTypeOK

(* The inductive invariant, in named parts. *)

\* Until createSocket has succeeded there is nothing to share.
StartInv ==
    mainAt \in {"init", "test", "bind", "fail"} =>
        /\ \A n \in Descriptors : fds[n] = Free
        /\ \A c \in Clients : session[c] = "absent"

CallInv ==
    \A c \in Clients :
        /\ session[c] # "serving" => callFd[c] = NoFd
        /\ session[c] \in {"accepted", "serving"} => clientFd[c] \in Descriptors

ReservedInv == \A m, n \in Descriptors : fds[m] = Reserved /\ fds[n] = Reserved => m = n

\* Without a signal main never leaves its loop, and it is in it only with
\* libcurl, the key and the port.
LoopInv ==
    /\ handlerAt = "none" =>
           serverRunning /\ mainAt \notin {"shutdown", "cleanup", "return"}
    /\ handlerAt = "none" /\ mainAt \notin {"init", "fail"} => curlReady
    /\ mainAt \notin {"init", "fail"} => {"curl", "key"} \subseteq provided
    /\ mainAt \notin {"init", "test", "bind", "fail"} => "port" \in provided
    /\ mainAt = "fail" => ~({"curl", "key", "port"} \subseteq provided)
    /\ process = "failed" => mainAt = "fail"
    /\ process = "exited" => handlerAt # "none"

\* Every number in use is used by whoever is to close it: nothing leaks,
\* whichever call fails, whenever a client hangs up, and even while the server
\* shuts down (server.c:41-64, connection.c:436).
NoDescriptorLeak ==
    \A n \in Descriptors :
        LET c == fds[n].by
        IN  /\ fds[n].use = "socket" =>
                   session[c] \in {"accepted", "serving"} /\ clientFd[c] = n
            /\ fds[n].use = "call" => session[c] = "serving" /\ callFd[c] = n
            /\ fds[n].use = "listen" => serverFileDescriptor = n
            /\ fds[n].use = "reserved" => mainAt = "blocked"

\* Until the shutdown, the numbers a session holds are its own: nobody closes
\* them under it (connection.c:436, server.c:61-64).  After it they need not
\* be: the handler and main both close serverFileDescriptor (server.c:78), and
\* in between a session may be given the number for a GPT call.
DescriptorsStayOwn ==
    serverRunning =>
        \A c \in Clients :
            /\ session[c] \in {"accepted", "serving"} => fds[clientFd[c]] = Socket(c)
            /\ callFd[c] # NoFd => fds[callFd[c]] = Call(c)

IInv == /\ StartInv /\ CallInv /\ ReservedInv /\ LoopInv
        /\ NoDescriptorLeak /\ DescriptorsStayOwn

\* main itself never cuts a session: as long as no signal has come, whatever
\* fails (an accept, a thread, a descriptor), it neither leaves its loop, nor
\* exits, nor cleans libcurl up while a session is served (server.c:41-64,
\* main.c:96-104).  A session can still kill the process, by a broken pipe or a
\* NULL reply, and a signal can end it.
MainCutsNoSession ==
    handlerAt = "none" /\ (\E c \in Clients : session[c] = "serving") =>
        process \notin {"exited", "failed"} /\ serverRunning /\ curlReady

\* Libcurl, the key and the port are what the program cannot do without, and
\* nothing else is: it ends with a failure only when one of them is missing, and
\* never gets to its loop without all three; a missing URL, model or template
\* and later failures leave it running (main.c:76-93).  That a missing key is
\* fatal contradicts README.md:22 and main.c:83; see FallbackWithoutKey.
OnlyTheRequiredIsFatal ==
    LET Required == {"curl", "key", "port"}
    IN  /\ process = "failed" => ~(Required \subseteq provided)
        /\ mainAt \notin {"init", "test", "bind", "fail"} => Required \subseteq provided

\* A key that is missing alone leaves the server to its static questions
\* (README.md:22 "Static questions available when GPT is unavailable",
\* main.c:83 "server will run with fallback mode only"): false, main.c:76-79 ends it.
FallbackWithoutKey == process = "failed" => ~({"curl", "port"} \subseteq provided)

\* A server that exits has waited for its sessions (server.c:80 "Server socket
\* closed, waiting for threads to complete"): false, it waits a second (81).
ShutdownWaits == process = "exited" => \A c \in Clients : session[c] # "serving"

\* Who dials in is accepted, unless the process ends, a signal comes or the
\* descriptors run out again and again.  Failed accepts and a busy logger do not
\* keep the loop from it: once descriptors suffice it catches up (server.c:35-71).
ClientsServed ==
    \A c \in Clients :
        session[c] = "queued" ~>
            \/ session[c] # "queued" \/ process # "running" \/ handlerAt # "none"
            \/ []<>Full

\* A signal ends the process, unless it interrupted a thread inside the logger
\* (main.c:59-64, logger.c:37, 66).
SignalEndsUnlessLogging ==
    handlerAt = "cleanup" /\ log[handlerOn] # "writes" ~> process # "running"

\* A signal ends the process (main.c:60, README.md:21 "thread-safe logging").
SignalEnds == handlerAt # "none" ~> process # "running"
=============================================================================
