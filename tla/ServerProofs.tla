---------------------------- MODULE ServerProofs ----------------------------
(***************************************************************************)
(* Proofs about Server, for every set of clients, every number of          *)
(* descriptors, everything that may be missing and every fault.            *)
(***************************************************************************)
EXTENDS Server, TLAPS

USE ServerAssumption

Inv == TypeOK /\ IInv

LEMMA LogMessageType ==
    ASSUME LogTypeOK, NEW users, logMessage(users)
    PROVE  LogTypeOK'
BY DEF LogTypeOK, logMessage

LEMMA UsesParts ==
    /\ Free \in Uses /\ Listening \in Uses /\ Reserved \in Uses
    /\ \A c \in Clients : Socket(c) \in Uses /\ Call(c) \in Uses
    /\ Free # Listening /\ Free # Reserved /\ Listening # Reserved
    /\ \A c \in Clients : /\ Socket(c) \notin {Free, Listening, Reserved}
                          /\ Call(c) \notin {Free, Listening, Reserved}
                          /\ \A d \in Clients : Socket(c) # Call(d)
    /\ \A c, d \in Clients : Socket(c) = Socket(d) \/ Call(c) = Call(d) => c = d
BY DEF Uses, Use, Free, Listening, Reserved, Socket, Call

LEMMA CloseType ==
    ASSUME fds \in [Descriptors -> Uses], NEW n, close(n)
    PROVE  fds' \in [Descriptors -> Uses]
BY UsesParts DEF close

LEMMA OpenType ==
    ASSUME fds \in [Descriptors -> Uses], NEW n, NEW use \in Uses, Open(n, use)
    PROVE  fds' \in [Descriptors -> Uses]
BY DEF Open

LEMMA Numbers == NoFd \notin Descriptors /\ BadFd \notin Descriptors
BY DEF NoFd, BadFd, Descriptors

\* The initial state has the types and satisfies the invariant.
LEMMA InitInv == Init => Inv
<1>. SUFFICES ASSUME Init PROVE Inv
  OBVIOUS
<1>1. LogTypeOK
  BY DEF Init, LogInit, LogTypeOK
<1>2. provided \subseteq Setup
  BY DEF Init
<1>3. fds \in [Descriptors -> Uses]
  BY UsesParts DEF Init
<1>4. TypeOK
  BY <1>1, <1>2, <1>3 DEF Init, TypeOK, Threads
<1>5. StartInv /\ CallInv
  BY DEF Init, StartInv, CallInv
<1>6. ReservedInv
  BY UsesParts DEF Init, ReservedInv
<1>7. LoopInv
  BY DEF Init, LoopInv
<1>8. NoDescriptorLeak /\ DescriptorsStayOwn
  BY DEF Init, NoDescriptorLeak, DescriptorsStayOwn, Free, Use, NoFd
<1>. QED
  BY <1>4, <1>5, <1>6, <1>7, <1>8 DEF Inv, IInv

(***************************************************************************)
(* Types.                                                                  *)
(***************************************************************************)

\* Either createSocket has a listening socket or main gives up.
LEMMA ListensOrNot ==
    ASSUME TypeOK, initializeServer
    PROVE  /\ MainAt("bind") /\ logMessage({"main"}) /\ UNCHANGED serverRunning
           /\ \/ /\ "port" \in provided /\ mainAt' = "loop" /\ UNCHANGED curlReady
                 /\ \E n \in Descriptors : Open(n, Listening) /\ serverFileDescriptor' = n
              \/ /\ "port" \notin provided /\ mainAt' = "fail" /\ curlReady' = FALSE
                 /\ serverFileDescriptor' = BadFd /\ UNCHANGED fds
<1>1. PICK fd \in Descriptors \cup {BadFd} :
        /\ createSocket(fd)
        /\ serverFileDescriptor' = fd
        /\ mainAt' = IF fd = BadFd THEN "fail" ELSE "loop"
        /\ curlReady' = (curlReady /\ fd # BadFd)
  BY DEF initializeServer
<1>2. BadFd \notin Descriptors
  BY ServerAssumption DEF BadFd, Descriptors
<1>3. CASE "port" \in provided
  <2>1. fd \in Descriptors /\ Open(fd, Listening)
    BY <1>1, <1>3 DEF createSocket, LowestFree
  <2>2. mainAt' = "loop"
    BY <1>1, <1>2, <2>1
  <2>3. curlReady' = curlReady
    BY <1>1, <1>2, <2>1, Zenon DEF TypeOK
  <2>. QED
    BY <1>1, <1>3, <2>1, <2>2, <2>3 DEF initializeServer
<1>4. CASE "port" \notin provided
  <2>1. fd = BadFd /\ UNCHANGED fds
    BY <1>1, <1>4 DEF createSocket
  <2>2. mainAt' = "fail"
    BY <1>1, <2>1
  <2>3. curlReady' = FALSE
    BY <1>1, <2>1, Zenon
  <2>. QED
    BY <1>1, <1>4, <2>1, <2>2, <2>3 DEF initializeServer
<1>. QED
  BY <1>3, <1>4

LEMMA MainTypeStep ==
    ASSUME TypeOK, MainNext PROVE TypeOK'
<1>. USE LogMessageType, UsesParts DEF TypeOK, mainVars, sessionVars, handlerVars
<1>1. CASE StartUp /\ UNCHANGED <<process, provided, sessionVars, handlerVars>>
  <2>1. CASE gpt_init_global \/ test_gpt_configuration
    BY <1>1, <2>1 DEF gpt_init_global, test_gpt_configuration
  <2>2. CASE initializeServer
    <3>1. CASE "port" \in provided
      <4>1. PICK n \in Descriptors : Open(n, Listening) /\ serverFileDescriptor' = n
        BY <2>2, <3>1, ListensOrNot
      <4>2. fds' \in [Descriptors -> Uses]
        BY <4>1, OpenType
      <4>. QED
        BY <1>1, <2>2, <3>1, <4>1, <4>2, ListensOrNot
    <3>2. CASE "port" \notin provided
      BY <1>1, <2>2, <3>2, ListensOrNot
    <3>. QED
      BY <3>1, <3>2
  <2>. QED
    BY <1>1, <2>1, <2>2 DEF StartUp
<1>2. CASE (LoopHead \/ AcceptFails \/ MainCleansUp)
           /\ UNCHANGED <<process, provided, sessionVars, handlerVars>>
  BY <1>2 DEF LoopHead, AcceptFails, MainCleansUp
<1>3. CASE EnterAccept /\ UNCHANGED <<process, provided, sessionVars, handlerVars>>
  <2>1. PICK n \in Descriptors : Open(n, Reserved)
    BY <1>3 DEF EnterAccept
  <2>2. fds' \in [Descriptors -> Uses]
    BY <2>1, OpenType
  <2>. QED
    BY <1>3, <2>2 DEF EnterAccept, LogTypeOK
<1>4. CASE MainShutsDown /\ UNCHANGED <<process, provided, sessionVars, handlerVars>>
  <2>1. fds' \in [Descriptors -> Uses]
    BY <1>4, CloseType DEF MainShutsDown, shutdownServer
  <2>. QED
    BY <1>4, <2>1 DEF MainShutsDown, shutdownServer
<1>5. ASSUME NEW c \in Clients, acceptConnection(c),
             UNCHANGED <<process, provided, handlerVars>>
      PROVE  TypeOK'
  <2>1. PICK n \in Descriptors : /\ Open(n, Socket(c))
                                 /\ clientFd' = [clientFd EXCEPT ![c] = n]
    BY <1>5 DEF acceptConnection
  <2>2. fds' \in [Descriptors -> Uses]
    BY <2>1, OpenType
  <2>. QED
    BY <1>5, <2>1, <2>2 DEF acceptConnection
<1>6. ASSUME NEW c \in Clients, CreateThread(c) \/ ThreadFails(c),
             UNCHANGED <<process, provided, handlerVars>>
      PROVE  TypeOK'
  <2>1. fds' \in [Descriptors -> Uses]
    BY <1>6, CloseType DEF CreateThread, ThreadFails
  <2>. QED
    BY <1>6, <2>1 DEF CreateThread, ThreadFails
<1>7. CASE ExitFailure \/ MainReturns
  BY <1>7 DEF ExitFailure, MainReturns, LogTypeOK
<1>. QED
  BY <1>1, <1>2, <1>3, <1>4, <1>5, <1>6, <1>7 DEF MainNext

LEMMA SessionTypeStep ==
    ASSUME TypeOK, NEW c \in Clients, SessionNext(c) \/ ClientConnects(c)
    PROVE  TypeOK'
<1>. USE LogMessageType, UsesParts DEF TypeOK, mainVars, sessionVars, handlerVars
<1>1. CASE SessionLogs(c) /\ UNCHANGED <<process, provided, mainVars, handlerVars>>
  BY <1>1 DEF SessionLogs
<1>2. CASE StartCall(c) /\ UNCHANGED <<process, provided, mainVars, handlerVars>>
  <2>1. PICK n \in Descriptors : /\ Open(n, Call(c))
                                 /\ callFd' = [callFd EXCEPT ![c] = n]
    BY <1>2 DEF StartCall
  <2>2. fds' \in [Descriptors -> Uses]
    BY <2>1, OpenType
  <2>. QED
    BY <1>2, <2>1, <2>2 DEF StartCall, LogTypeOK
<1>3. CASE EndCall(c) /\ UNCHANGED <<process, provided, mainVars, handlerVars>>
  <2>1. fds' \in [Descriptors -> Uses]
    BY <1>3, CloseType DEF EndCall
  <2>. QED
    BY <1>3, <2>1 DEF EndCall
<1>4. CASE FinishSession(c) /\ UNCHANGED <<process, provided, mainVars, handlerVars>>
  <2>1. fds' \in [Descriptors -> Uses]
    BY <1>4, CloseType DEF FinishSession
  <2>. QED
    BY <1>4, <2>1 DEF FinishSession
<1>5. CASE EndThread(c) /\ UNCHANGED <<process, provided, mainVars, handlerVars>>
  BY <1>5 DEF EndThread, LogTypeOK
<1>6. CASE (BrokenPipe(c) \/ NullReply(c)) /\ UNCHANGED <<provided, mainVars, handlerVars>>
  BY <1>6 DEF BrokenPipe, NullReply, LogTypeOK
<1>7. CASE ClientConnects(c)
  BY <1>7 DEF ClientConnects, LogTypeOK
<1>. QED
  BY <1>1, <1>2, <1>3, <1>4, <1>5, <1>6, <1>7 DEF SessionNext

LEMMA HandlerTypeStep ==
    ASSUME TypeOK, HandlerNext \/ SignalArrives
    PROVE  TypeOK'
<1>. USE LogMessageType DEF TypeOK, sessionVars, handlerVars
<1>1. CASE SignalArrives
  BY <1>1 DEF SignalArrives, signalHandler
<1>2. CASE gpt_cleanup_global /\ HandlerNext
  BY <1>2 DEF gpt_cleanup_global, HandlerNext
<1>3. CASE HandlerShutsDown /\ HandlerNext
  <2>1. fds' \in [Descriptors -> Uses]
    BY <1>3, CloseType DEF HandlerShutsDown, shutdownServer
  <2>. QED
    BY <1>3, <2>1 DEF HandlerShutsDown, HandlerNext, shutdownServer
<1>4. CASE HandlerExits /\ HandlerNext
  BY <1>4 DEF HandlerExits, HandlerNext, LogTypeOK
<1>. QED
  BY <1>1, <1>2, <1>3, <1>4 DEF HandlerNext

LEMMA LogTypeStep ==
    ASSUME TypeOK, NEW u \in LogUsers, LogNext(u)
    PROVE  TypeOK'
BY DEF LogNext, LockLog, UnlockLog, LogTypeOK, TypeOK, mainVars, sessionVars, handlerVars

LEMMA NextType == TypeOK /\ [Next]_vars => TypeOK'
<1>. SUFFICES ASSUME TypeOK, [Next]_vars PROVE TypeOK'
  OBVIOUS
<1>1. CASE MainNext
  BY <1>1, MainTypeStep
<1>2. CASE HandlerNext \/ SignalArrives
  BY <1>2, HandlerTypeStep
<1>3. ASSUME NEW c \in Clients, SessionNext(c) \/ ClientConnects(c) PROVE TypeOK'
  BY <1>3, SessionTypeStep
<1>4. ASSUME NEW u \in LogUsers, LogNext(u) PROVE TypeOK'
  BY <1>4, LogTypeStep
<1>5. CASE UNCHANGED vars
  BY <1>5 DEF vars, TypeOK, LogTypeOK, mainVars, sessionVars, handlerVars
<1>. QED
  BY <1>1, <1>2, <1>3, <1>4, <1>5 DEF Next

(***************************************************************************)
(* Start-up, the loop and the end of the process.                          *)
(***************************************************************************)

PhaseInv == StartInv /\ LoopInv

LEMMA MainPhaseStep ==
    ASSUME TypeOK, PhaseInv, MainNext PROVE PhaseInv'
<1>. USE DEF PhaseInv, StartInv, LoopInv, MainAt, Runs, sessionVars, mainVars, handlerVars
<1>1. CASE (gpt_init_global \/ test_gpt_configuration)
           /\ UNCHANGED <<process, provided, sessionVars, handlerVars>>
  BY <1>1 DEF gpt_init_global, gpt_load_config, test_gpt_configuration
<1>2. CASE initializeServer /\ UNCHANGED <<process, provided, sessionVars, handlerVars>>
  BY <1>2, ListensOrNot
<1>3. CASE (LoopHead \/ EnterAccept \/ AcceptFails)
           /\ UNCHANGED <<process, provided, sessionVars, handlerVars>>
  BY <1>3 DEF LoopHead, EnterAccept, AcceptFails
<1>4. CASE (MainShutsDown \/ MainCleansUp)
           /\ UNCHANGED <<process, provided, sessionVars, handlerVars>>
  BY <1>4 DEF MainShutsDown, MainCleansUp, shutdownServer
<1>5. ASSUME NEW c \in Clients, acceptConnection(c) \/ CreateThread(c) \/ ThreadFails(c),
             UNCHANGED <<process, provided, handlerVars>>
      PROVE  PhaseInv'
  BY <1>5 DEF acceptConnection, CreateThread, ThreadFails
<1>6. CASE ExitFailure
  BY <1>6 DEF ExitFailure
<1>7. CASE MainReturns
  BY <1>7 DEF MainReturns
<1>. QED
  BY <1>1, <1>2, <1>3, <1>4, <1>5, <1>6, <1>7 DEF MainNext, StartUp

LEMMA OtherPhaseStep ==
    ASSUME TypeOK, PhaseInv, NoDescriptorLeak,
           \/ HandlerNext \/ SignalArrives
           \/ \E c \in Clients : SessionNext(c) \/ ClientConnects(c)
           \/ \E u \in LogUsers : LogNext(u)
    PROVE  PhaseInv'
<1>. USE DEF PhaseInv, StartInv, LoopInv, sessionVars, mainVars, handlerVars
<1>1. CASE SignalArrives
  BY <1>1 DEF SignalArrives, signalHandler
<1>2. CASE HandlerNext
  <2>1. CASE gpt_cleanup_global
    BY <1>2, <2>1 DEF HandlerNext, gpt_cleanup_global, HandlerAt
  <2>2. CASE HandlerShutsDown
    BY <1>2, <2>2 DEF HandlerNext, HandlerShutsDown, HandlerAt, shutdownServer, close, TypeOK
  <2>3. CASE HandlerExits
    BY <1>2, <2>3 DEF HandlerNext, HandlerExits, HandlerAt
  <2>. QED
    BY <1>2, <2>1, <2>2, <2>3 DEF HandlerNext
<1>3. ASSUME NEW c \in Clients, SessionNext(c) PROVE PhaseInv'
  <2>1. CASE SessionLogs(c) /\ UNCHANGED <<process, provided, mainVars, handlerVars>>
    BY <2>1 DEF SessionLogs
  <2>2. CASE (StartCall(c) \/ EndCall(c) \/ FinishSession(c))
             /\ UNCHANGED <<process, provided, mainVars, handlerVars>>
    BY <2>2 DEF StartCall, EndCall, FinishSession, Serving, TypeOK
  <2>3. CASE EndThread(c) /\ UNCHANGED <<process, provided, mainVars, handlerVars>>
    BY <2>3 DEF EndThread, TypeOK
  <2>4. CASE (BrokenPipe(c) \/ NullReply(c)) /\ UNCHANGED <<provided, mainVars, handlerVars>>
    BY <2>4 DEF BrokenPipe, NullReply
  <2>. QED
    BY <1>3, <2>1, <2>2, <2>3, <2>4 DEF SessionNext
<1>4. ASSUME NEW c \in Clients, ClientConnects(c) PROVE PhaseInv'
  BY <1>4 DEF ClientConnects, TypeOK, Free, Listening, Use
<1>5. ASSUME NEW u \in LogUsers, LogNext(u) PROVE PhaseInv'
  BY <1>5 DEF LogNext
<1>. QED
  BY <1>1, <1>2, <1>3, <1>4, <1>5

(***************************************************************************)
(* The descriptor table.                                                   *)
(***************************************************************************)

TableInv == CallInv /\ ReservedInv /\ NoDescriptorLeak /\ DescriptorsStayOwn

\* A step that leaves the table and the sessions alone.
LEMMA QuietTable ==
    ASSUME TableInv, UNCHANGED <<fds, sessionVars, serverFileDescriptor>>,
           mainAt = "blocked" => mainAt' = "blocked",
           serverRunning' => serverRunning
    PROVE  TableInv'
BY DEF TableInv, CallInv, ReservedInv, NoDescriptorLeak, DescriptorsStayOwn, sessionVars

\* shutdownServer, by main or by the handler, frees a number whoever has it.
LEMMA ShutdownTable ==
    ASSUME TypeOK, TableInv, shutdownServer,
           UNCHANGED <<sessionVars, serverFileDescriptor>>,
           mainAt = "blocked" => mainAt' = "blocked"
    PROVE  TableInv'
<1>1. \A n \in Descriptors : fds'[n] = fds[n] \/ fds'[n] = Free
  BY DEF shutdownServer, close, TypeOK
<1>2. CallInv'
  BY DEF TableInv, CallInv, sessionVars
<1>3. ReservedInv'
  BY <1>1, UsesParts DEF TableInv, ReservedInv
<1>4. NoDescriptorLeak'
  BY <1>1 DEF TableInv, NoDescriptorLeak, sessionVars, Free, Use
<1>5. DescriptorsStayOwn'
  BY DEF DescriptorsStayOwn, shutdownServer
<1>. QED
  BY <1>2, <1>3, <1>4, <1>5 DEF TableInv

LEMMA OpenTable ==
    ASSUME TypeOK, NEW n \in Descriptors, NEW use \in Uses, Open(n, use)
    PROVE  /\ fds'[n] = use
           /\ \A m \in Descriptors : m # n => fds'[m] = fds[m]
BY DEF Open, TypeOK

LEMMA CloseTable ==
    ASSUME TypeOK, NEW n \in Descriptors, close(n)
    PROVE  /\ fds'[n] = Free
           /\ \A m \in Descriptors : m # n => fds'[m] = fds[m]
BY DEF close, TypeOK

\* A session that is over gives up its socket, and nobody else's.
LEMMA GivesUpSocket ==
    ASSUME TypeOK, TableInv, NEW c \in Clients,
           session[c] \in {"accepted", "serving"}, callFd[c] = NoFd,
           session'[c] \notin {"accepted", "serving"},
           \A d \in Clients : d # c => session'[d] = session[d],
           close(clientFd[c]),
           UNCHANGED <<clientFd, callFd, serverFileDescriptor, serverRunning>>,
           mainAt = "blocked" => mainAt' = "blocked"
    PROVE  TableInv'
<1>1. \A m \in Descriptors : fds[m] \in Uses /\ (fds'[m] = fds[m] \/ fds'[m] = Free)
  BY DEF close, TypeOK
<1>2. \A m \in Descriptors : fds[m].use = "socket" /\ fds[m].by = c => fds'[m] = Free
  BY CloseTable DEF TableInv, NoDescriptorLeak
<1>3. \A m \in Descriptors : ~(fds[m].use = "call" /\ fds[m].by = c)
  BY Numbers DEF TableInv, NoDescriptorLeak
<1>4. CallInv'
  BY DEF TableInv, CallInv
<1>5. ReservedInv'
  BY <1>1, UsesParts DEF TableInv, ReservedInv
<1>6. NoDescriptorLeak'
  BY <1>1, <1>2, <1>3 DEF TableInv, NoDescriptorLeak, Uses, Free, Use
<1>7. DescriptorsStayOwn'
  <2>. SUFFICES ASSUME serverRunning, NEW d \in Clients
                PROVE  /\ session'[d] \in {"accepted", "serving"} =>
                              fds'[clientFd[d]] = Socket(d)
                       /\ callFd[d] # NoFd => fds'[callFd[d]] = Call(d)
    BY DEF DescriptorsStayOwn
  <2>1. fds[clientFd[c]] = Socket(c) /\ clientFd[c] \in Descriptors \cup {NoFd}
    BY DEF TableInv, DescriptorsStayOwn, TypeOK
  <2>2. ASSUME session'[d] \in {"accepted", "serving"}
        PROVE  fds'[clientFd[d]] = Socket(d)
    <3>1. d # c /\ fds[clientFd[d]] = Socket(d)
      BY <2>2 DEF TableInv, DescriptorsStayOwn
    <3>2. clientFd[d] # clientFd[c]
      BY <3>1, <2>1, UsesParts
    <3>. QED
      BY <3>1, <3>2, <2>1 DEF close, TypeOK
  <2>3. ASSUME callFd[d] # NoFd PROVE fds'[callFd[d]] = Call(d)
    <3>1. fds[callFd[d]] = Call(d)
      BY <2>3 DEF TableInv, DescriptorsStayOwn
    <3>2. callFd[d] # clientFd[c]
      BY <3>1, <2>1, UsesParts
    <3>. QED
      BY <3>1, <3>2, <2>1, <2>3 DEF close, TypeOK
  <2>. QED
    BY <2>2, <2>3
<1>. QED
  BY <1>4, <1>5, <1>6, <1>7 DEF TableInv

LEMMA MainTableStep ==
    ASSUME TypeOK, PhaseInv, TableInv, MainNext PROVE TableInv'
<1>. USE DEF MainAt, Runs
<1>1. CASE (gpt_init_global \/ test_gpt_configuration \/ LoopHead \/ AcceptFails
            \/ MainCleansUp) /\ UNCHANGED <<process, provided, sessionVars, handlerVars>>
  BY <1>1, QuietTable
  DEF gpt_init_global, test_gpt_configuration, LoopHead, AcceptFails, MainCleansUp
<1>2. CASE ExitFailure \/ MainReturns
  BY <1>2, QuietTable DEF ExitFailure, MainReturns, mainVars
<1>3. CASE MainShutsDown /\ UNCHANGED <<process, provided, sessionVars, handlerVars>>
  BY <1>3, ShutdownTable DEF MainShutsDown
<1>4. CASE initializeServer /\ UNCHANGED <<process, provided, sessionVars, handlerVars>>
  <2>1. /\ \A m \in Descriptors : fds[m] = Free
        /\ \A c \in Clients : session[c] = "absent" /\ callFd[c] = NoFd
    BY <1>4 DEF initializeServer, PhaseInv, StartInv, TableInv, CallInv
  <2>2. CASE "port" \in provided
    <3>1. PICK n \in Descriptors : Open(n, Listening) /\ serverFileDescriptor' = n
      BY <1>4, <2>2, ListensOrNot
    <3>2. /\ fds'[n] = Listening
          /\ \A m \in Descriptors : m # n => fds'[m] = Free
      BY <3>1, <2>1, OpenTable, UsesParts
    <3>3. CallInv' /\ DescriptorsStayOwn'
      BY <1>4, <2>1 DEF CallInv, DescriptorsStayOwn, sessionVars
    <3>4. ReservedInv'
      BY <3>2, UsesParts DEF ReservedInv
    <3>5. NoDescriptorLeak'
      BY <3>1, <3>2 DEF NoDescriptorLeak, Free, Listening, Use
    <3>. QED
      BY <3>3, <3>4, <3>5 DEF TableInv
  <2>3. CASE "port" \notin provided
    <3>1. UNCHANGED <<fds, sessionVars>>
      BY <1>4, <2>3, ListensOrNot
    <3>2. CallInv' /\ DescriptorsStayOwn'
      BY <3>1, <2>1 DEF CallInv, DescriptorsStayOwn, sessionVars
    <3>3. ReservedInv' /\ NoDescriptorLeak'
      BY <3>1, <2>1, UsesParts DEF ReservedInv, NoDescriptorLeak, Free, Use
    <3>. QED
      BY <3>2, <3>3 DEF TableInv
  <2>. QED
    BY <2>2, <2>3
<1>5. CASE EnterAccept /\ UNCHANGED <<process, provided, sessionVars, handlerVars>>
  <2>1. PICK n \in Descriptors : fds[n] = Free /\ Open(n, Reserved)
    BY <1>5 DEF EnterAccept, LowestFree
  <2>2. /\ fds'[n] = Reserved
        /\ \A m \in Descriptors : m # n => fds'[m] = fds[m]
    BY <2>1, OpenTable, UsesParts
  <2>3. \A m \in Descriptors : fds[m] # Reserved
    BY <1>5 DEF EnterAccept, TableInv, NoDescriptorLeak, Reserved, Use
  <2>4. mainAt' = "blocked" /\ UNCHANGED <<serverFileDescriptor, serverRunning, sessionVars>>
    BY <1>5 DEF EnterAccept
  <2>5. CallInv' /\ ReservedInv'
    BY <2>2, <2>3, <2>4 DEF TableInv, CallInv, ReservedInv, sessionVars
  <2>6. NoDescriptorLeak'
    BY <2>2, <2>4 DEF TableInv, NoDescriptorLeak, sessionVars, Reserved, Use
  <2>7. DescriptorsStayOwn'
    BY <2>1, <2>2, <2>4, UsesParts
    DEF TableInv, CallInv, DescriptorsStayOwn, sessionVars, TypeOK
  <2>. QED
    BY <2>5, <2>6, <2>7 DEF TableInv
<1>6. ASSUME NEW c \in Clients, acceptConnection(c),
             UNCHANGED <<process, provided, handlerVars>>
      PROVE  TableInv'
  <2>1. PICK n \in Descriptors : /\ fds[n] = Reserved /\ Open(n, Socket(c))
                                 /\ clientFd' = [clientFd EXCEPT ![c] = n]
    BY <1>6 DEF acceptConnection
  <2>2. /\ fds'[n] = Socket(c)
        /\ \A m \in Descriptors : m # n => fds'[m] = fds[m]
    BY <2>1, OpenTable, UsesParts
  <2>3. /\ session[c] = "queued" /\ session' = [session EXCEPT ![c] = "accepted"]
        /\ UNCHANGED <<callFd, serverRunning, serverFileDescriptor>>
    BY <1>6 DEF acceptConnection
  <2>4. /\ session'[c] = "accepted" /\ clientFd'[c] = n
        /\ \A d \in Clients : d # c => session'[d] = session[d] /\ clientFd'[d] = clientFd[d]
    BY <2>1, <2>3 DEF TypeOK
  <2>5. CallInv'
    BY <2>3, <2>4 DEF TableInv, CallInv
  <2>6. \A m \in Descriptors : m # n => fds'[m] # Reserved
    BY <2>1, <2>2 DEF TableInv, ReservedInv
  <2>7. ReservedInv'
    BY <2>2, <2>6, UsesParts DEF ReservedInv
  <2>8. NoDescriptorLeak'
    <3>1. SUFFICES ASSUME NEW m \in Descriptors, m # n
                   PROVE  /\ fds'[m].use = "socket" => fds[m].by # c
                          /\ fds'[m].use = "call" => fds[m].by # c
                          /\ fds'[m].use # "reserved"
      <4>1. fds'[n].use = "socket" /\ fds'[n].by = c
        BY <2>2 DEF Socket, Use
      <4>2. \A m \in Descriptors : fds[m] \in Uses
        BY DEF TypeOK
      <4>. QED
        BY <4>1, <4>2, <2>2, <2>3, <2>4 DEF TableInv, NoDescriptorLeak, Uses
    <3>2. fds'[m] = fds[m] /\ fds[m] # Reserved
      BY <3>1, <2>2, <2>6
    <3>3. fds[m] \in Uses
      BY DEF TypeOK
    <3>. QED
      BY <3>2, <3>3, <2>3 DEF TableInv, NoDescriptorLeak, Uses, Reserved, Use
  <2>9. DescriptorsStayOwn'
    <3>. SUFFICES ASSUME serverRunning, NEW d \in Clients
                  PROVE  /\ session'[d] \in {"accepted", "serving"} =>
                                fds'[clientFd'[d]] = Socket(d)
                         /\ callFd[d] # NoFd => fds'[callFd[d]] = Call(d)
      BY <2>3 DEF DescriptorsStayOwn
    <3>1. session'[d] \in {"accepted", "serving"} => fds'[clientFd'[d]] = Socket(d)
      BY <2>1, <2>2, <2>4, UsesParts DEF TableInv, CallInv, DescriptorsStayOwn
    <3>2. callFd[d] # NoFd => fds'[callFd[d]] = Call(d)
      BY <2>1, <2>2, UsesParts DEF TableInv, DescriptorsStayOwn, TypeOK
    <3>. QED
      BY <3>1, <3>2
  <2>. QED
    BY <2>5, <2>7, <2>8, <2>9 DEF TableInv
<1>7. ASSUME NEW c \in Clients, CreateThread(c),
             UNCHANGED <<process, provided, handlerVars>>
      PROVE  TableInv'
  <2>1. /\ session[c] = "accepted" /\ session' = [session EXCEPT ![c] = "serving"]
        /\ mainAt = "spawn" /\ UNCHANGED <<fds, clientFd, callFd, serverRunning, serverFileDescriptor>>
    BY <1>7 DEF CreateThread
  <2>2. /\ session'[c] = "serving"
        /\ \A d \in Clients : d # c => session'[d] = session[d]
    BY <2>1 DEF TypeOK
  <2>3. \A m \in Descriptors : fds[m] \in Uses
    BY DEF TypeOK
  <2>4. NoDescriptorLeak'
    BY <2>1, <2>2, <2>3 DEF TableInv, NoDescriptorLeak, Uses
  <2>5. CallInv' /\ ReservedInv' /\ DescriptorsStayOwn'
    BY <2>1, <2>2 DEF TableInv, CallInv, ReservedInv, DescriptorsStayOwn
  <2>. QED
    BY <2>4, <2>5 DEF TableInv
<1>8. ASSUME NEW c \in Clients, ThreadFails(c),
             UNCHANGED <<process, provided, handlerVars>>
      PROVE  TableInv'
  <2>1. /\ session[c] = "accepted" /\ session' = [session EXCEPT ![c] = "dropped"]
        /\ close(clientFd[c]) /\ mainAt = "spawn"
        /\ UNCHANGED <<clientFd, callFd, serverRunning, serverFileDescriptor>>
    BY <1>8 DEF ThreadFails
  <2>2. session'[c] = "dropped" /\ callFd[c] = NoFd
        /\ \A d \in Clients : d # c => session'[d] = session[d]
    BY <2>1 DEF TypeOK, TableInv, CallInv
  <2>. QED
    BY <2>1, <2>2, GivesUpSocket
<1>. QED
  BY <1>1, <1>2, <1>3, <1>4, <1>5, <1>6, <1>7, <1>8 DEF MainNext, StartUp

LEMMA SessionTableStep ==
    ASSUME TypeOK, TableInv, NEW c \in Clients, SessionNext(c) \/ ClientConnects(c)
    PROVE  TableInv'
<1>. USE DEF mainVars, Serving
<1>1. CASE (SessionLogs(c) \/ BrokenPipe(c) \/ NullReply(c)) /\ UNCHANGED mainVars
  BY <1>1, QuietTable DEF SessionLogs, BrokenPipe, NullReply
<1>2. CASE StartCall(c) /\ UNCHANGED mainVars
  <2>1. PICK n \in Descriptors : /\ fds[n] = Free /\ Open(n, Call(c))
                                 /\ callFd' = [callFd EXCEPT ![c] = n]
    BY <1>2 DEF StartCall, LowestFree
  <2>2. /\ fds'[n] = Call(c)
        /\ \A m \in Descriptors : m # n => fds'[m] = fds[m]
    BY <2>1, OpenTable, UsesParts
  <2>3. /\ session[c] = "serving" /\ callFd[c] = NoFd
        /\ UNCHANGED <<session, clientFd, serverRunning, serverFileDescriptor, mainAt>>
    BY <1>2 DEF StartCall
  <2>4. /\ callFd'[c] = n
        /\ \A d \in Clients : d # c => callFd'[d] = callFd[d]
    BY <2>1 DEF TypeOK
  <2>5. CallInv'
    BY <2>3, <2>4 DEF TableInv, CallInv
  <2>6. ReservedInv'
    BY <2>2, UsesParts DEF TableInv, ReservedInv
  <2>7. \A m \in Descriptors : fds[m] \in Uses /\ ~(fds[m].use = "call" /\ fds[m].by = c)
    BY <2>3, Numbers DEF TableInv, NoDescriptorLeak, TypeOK
  <2>8. fds'[n].use = "call" /\ fds'[n].by = c
    BY <2>2 DEF Call, Use
  <2>9. NoDescriptorLeak'
    BY <2>2, <2>3, <2>4, <2>7, <2>8 DEF TableInv, NoDescriptorLeak, Uses
  <2>10. DescriptorsStayOwn'
    <3>. SUFFICES ASSUME serverRunning, NEW d \in Clients
                  PROVE  /\ session[d] \in {"accepted", "serving"} =>
                                fds'[clientFd[d]] = Socket(d)
                         /\ callFd'[d] # NoFd => fds'[callFd'[d]] = Call(d)
      BY <2>3 DEF DescriptorsStayOwn
    <3>1. session[d] \in {"accepted", "serving"} => fds'[clientFd[d]] = Socket(d)
      BY <2>1, <2>2, UsesParts DEF TableInv, CallInv, DescriptorsStayOwn
    <3>2. callFd'[d] # NoFd => fds'[callFd'[d]] = Call(d)
      BY <2>1, <2>2, <2>4, UsesParts DEF TableInv, DescriptorsStayOwn, TypeOK
    <3>. QED
      BY <3>1, <3>2
  <2>. QED
    BY <2>5, <2>6, <2>9, <2>10 DEF TableInv
<1>3. CASE EndCall(c) /\ UNCHANGED mainVars
  <2>1. /\ session[c] = "serving" /\ callFd[c] \in Descriptors /\ close(callFd[c])
        /\ callFd' = [callFd EXCEPT ![c] = NoFd]
        /\ UNCHANGED <<session, clientFd, serverRunning, serverFileDescriptor, mainAt>>
    BY <1>3 DEF EndCall, TypeOK
  <2>2. /\ fds'[callFd[c]] = Free
        /\ \A m \in Descriptors : m # callFd[c] => fds'[m] = fds[m]
    BY <2>1, CloseTable
  <2>3. /\ callFd'[c] = NoFd
        /\ \A d \in Clients : d # c => callFd'[d] = callFd[d]
    BY <2>1 DEF TypeOK
  <2>4. CallInv'
    BY <2>1, <2>3 DEF TableInv, CallInv
  <2>5. ReservedInv'
    BY <2>2, UsesParts DEF TableInv, ReservedInv
  <2>6. \A m \in Descriptors : fds[m] \in Uses
    BY DEF TypeOK
  <2>7. NoDescriptorLeak'
    BY <2>1, <2>2, <2>3, <2>6 DEF TableInv, NoDescriptorLeak, Uses, Free, Use
  <2>8. DescriptorsStayOwn'
    <3>. SUFFICES ASSUME serverRunning, NEW d \in Clients
                  PROVE  /\ session[d] \in {"accepted", "serving"} =>
                                fds'[clientFd[d]] = Socket(d)
                         /\ callFd'[d] # NoFd => fds'[callFd'[d]] = Call(d)
      BY <2>1 DEF DescriptorsStayOwn
    <3>1. fds[callFd[c]] = Call(c)
      BY <2>1, Numbers DEF TableInv, DescriptorsStayOwn
    <3>2. session[d] \in {"accepted", "serving"} => fds'[clientFd[d]] = Socket(d)
      BY <2>2, <3>1, UsesParts DEF TableInv, CallInv, DescriptorsStayOwn
    <3>3. callFd'[d] # NoFd => fds'[callFd'[d]] = Call(d)
      BY <2>2, <2>3, <3>1, UsesParts DEF TableInv, DescriptorsStayOwn, TypeOK
    <3>. QED
      BY <3>2, <3>3
  <2>. QED
    BY <2>4, <2>5, <2>7, <2>8 DEF TableInv
<1>4. CASE FinishSession(c) /\ UNCHANGED mainVars
  <2>1. /\ session[c] = "serving" /\ callFd[c] = NoFd /\ session'[c] = "closed"
        /\ \A d \in Clients : d # c => session'[d] = session[d]
    BY <1>4 DEF FinishSession, TypeOK
  <2>. QED
    BY <1>4, <2>1, GivesUpSocket DEF FinishSession
<1>5. CASE (EndThread(c) /\ UNCHANGED mainVars) \/ ClientConnects(c)
  <2>1. /\ session[c] \in {"closed", "absent"} /\ session'[c] \in {"ended", "queued"}
        /\ \A d \in Clients : d # c => session'[d] = session[d]
        /\ UNCHANGED <<fds, clientFd, callFd, serverRunning, serverFileDescriptor, mainAt>>
    BY <1>5 DEF EndThread, ClientConnects, TypeOK
  <2>2. CallInv' /\ ReservedInv'
    BY <2>1 DEF TableInv, CallInv, ReservedInv
  <2>3. \A m \in Descriptors : fds[m] \in Uses
    BY DEF TypeOK
  <2>4. NoDescriptorLeak'
    BY <2>1, <2>3 DEF TableInv, NoDescriptorLeak, Uses
  <2>5. DescriptorsStayOwn'
    BY <2>1 DEF TableInv, DescriptorsStayOwn
  <2>. QED
    BY <2>2, <2>4, <2>5 DEF TableInv
<1>. QED
  BY <1>1, <1>2, <1>3, <1>4, <1>5 DEF SessionNext

LEMMA HandlerTableStep ==
    ASSUME TypeOK, TableInv, HandlerNext \/ SignalArrives PROVE TableInv'
<1>1. CASE SignalArrives
  BY <1>1, QuietTable DEF SignalArrives, signalHandler
<1>2. CASE HandlerNext /\ (gpt_cleanup_global \/ HandlerExits)
  BY <1>2, QuietTable DEF HandlerNext, gpt_cleanup_global, HandlerExits
<1>3. CASE HandlerNext /\ HandlerShutsDown
  BY <1>3, ShutdownTable DEF HandlerNext, HandlerShutsDown
<1>. QED
  BY <1>1, <1>2, <1>3 DEF HandlerNext

(***************************************************************************)
(* Every step keeps the invariant.                                         *)
(***************************************************************************)

LEMMA NextInv == Inv /\ [Next]_vars => Inv'
<1>. SUFFICES ASSUME TypeOK, PhaseInv, TableInv, [Next]_vars
              PROVE  PhaseInv' /\ TableInv'
  BY NextType DEF Inv, IInv, PhaseInv, TableInv
<1>1. CASE MainNext
  BY <1>1, MainPhaseStep, MainTableStep
<1>2. CASE HandlerNext \/ SignalArrives
  BY <1>2, OtherPhaseStep, HandlerTableStep DEF TableInv
<1>3. ASSUME NEW c \in Clients, SessionNext(c) \/ ClientConnects(c)
      PROVE  PhaseInv' /\ TableInv'
  BY <1>3, OtherPhaseStep, SessionTableStep DEF TableInv
<1>4. ASSUME NEW u \in LogUsers, LogNext(u)
      PROVE  PhaseInv' /\ TableInv'
  <2>1. TableInv'
    BY <1>4, QuietTable DEF LogNext, mainVars
  <2>. QED
    BY <1>4, <2>1, OtherPhaseStep DEF TableInv
<1>5. CASE UNCHANGED vars
  <2>1. TableInv'
    BY <1>5, QuietTable DEF vars, mainVars
  <2>2. PhaseInv'
    BY <1>5 DEF vars, mainVars, sessionVars, handlerVars, PhaseInv, StartInv, LoopInv
  <2>. QED
    BY <2>1, <2>2
<1>. QED
  BY <1>1, <1>2, <1>3, <1>4, <1>5 DEF Next

\* The types and the inductive invariant hold in every reachable state of the
\* server: which numbers are open and whose, where main can be without a signal.
THEOREM InvariantHolds == Spec => [](TypeOK /\ IInv)
<1>1. Spec => []Inv
  BY InitInv, NextInv, PTL DEF Spec
<1>. QED
  BY <1>1, PTL DEF Inv

\* Every variable of the server keeps its type.
THEOREM TypeCorrect == Spec => []TypeOK
BY InvariantHolds, PTL

\* No call that fails and no client that leaves makes the server lose a
\* descriptor (server.c:41-64, connection.c:436).
THEOREM NoLeak == Spec => []NoDescriptorLeak
<1>1. TypeOK /\ IInv => NoDescriptorLeak
  BY DEF IInv
<1>. QED
  BY <1>1, InvariantHolds, PTL

\* Until the shutdown nobody closes a number that a session holds.
THEOREM SessionsOwnTheirs == Spec => []DescriptorsStayOwn
<1>1. TypeOK /\ IInv => DescriptorsStayOwn
  BY DEF IInv
<1>. QED
  BY <1>1, InvariantHolds, PTL

\* Without a signal main serves on: no failure takes it out of its loop, or
\* libcurl away, under a session (main.c:61, 96-104).
THEOREM SessionsGoOn == Spec => []MainCutsNoSession
<1>1. TypeOK /\ IInv => MainCutsNoSession
  <2>. SUFFICES ASSUME TypeOK, IInv, handlerAt = "none",
                       NEW c \in Clients, session[c] = "serving"
                PROVE  process \notin {"exited", "failed"} /\ serverRunning /\ curlReady
    BY DEF MainCutsNoSession
  <2>1. mainAt \notin {"init", "test", "bind", "fail"}
    BY DEF IInv, StartInv
  <2>. QED
    BY <2>1 DEF IInv, LoopInv
<1>. QED
  BY <1>1, InvariantHolds, PTL

\* The program fails for want of libcurl, the key or the port only, and serves
\* with all three only (main.c:76-93).
THEOREM RequiredIsFatal == Spec => []OnlyTheRequiredIsFatal
<1>1. TypeOK /\ IInv => OnlyTheRequiredIsFatal
  BY DEF IInv, LoopInv, OnlyTheRequiredIsFatal
<1>. QED
  BY <1>1, InvariantHolds, PTL

=============================================================================
