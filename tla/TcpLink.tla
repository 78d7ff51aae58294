------------------------------ MODULE TcpLink ------------------------------
(***************************************************************************)
(* The TCP connection between the robot client and the thread that serves  *)
(* it, as the calls read, send, close (server, C) and readLine, flush,     *)
(* close (client, Kotlin) see it.  The kernel is not in the repository:    *)
(* the module states what POSIX sockets promise on the loopback address    *)
(* the client dials (flow/init.kt:26).                                     *)
(*                                                                         *)
(* Server to client, a queue of messages: one snprintf result each, with   *)
(* whole = FALSE when the result was cut and so lost its newline.          *)
(* Client to server, a queue of pieces: a line is one piece, a line longer *)
(* than the server's 1023-byte read is several, all but the last with      *)
(* more = TRUE.                                                            *)
(***************************************************************************)
EXTENDS Integers, Sequences

VARIABLES toClient, toServer,     \* bytes sent and not yet read
          serverOpen, clientOpen, \* has that end's socket been opened, not closed
          serverErr,  \* the server's socket: "none", "reset" (RST not yet
                      \* reported) or "pipe" (a further send raises SIGPIPE)
          clientErr   \* the client's socket: "none" or "broken"

linkVars == <<toClient, toServer, serverOpen, clientOpen, serverErr, clientErr>>

LinkInit ==
    /\ toClient = <<>> /\ toServer = <<>>
    /\ serverOpen = FALSE /\ clientOpen = FALSE
    /\ serverErr = "none" /\ clientErr = "none"

\* connect() meets the listening socket; accept() yields the other end.
Connect ==
    /\ serverOpen' = TRUE /\ clientOpen' = TRUE
    /\ UNCHANGED <<toClient, toServer, serverErr, clientErr>>

----------------------------------------------------------------------------
(* The server's end. *)

\* A send to a peer that has closed is answered by RST, sooner or later; the
\* first call after an RST that was not yet reported returns ECONNRESET.
ServerSends(m) ==
    /\ toClient' = IF clientOpen /\ serverErr = "none" THEN Append(toClient, m)
                   ELSE toClient
    /\ serverErr' \in IF serverErr = "reset" THEN {"pipe"}
                      ELSE IF clientOpen THEN {serverErr} ELSE {"none", "pipe"}
    /\ UNCHANGED <<toServer, serverOpen, clientOpen, clientErr>>

\* read(fd, buffer, 1023) returns what has arrived, up to the buffer's size:
\* one piece, or a piece that leaves room and some of those behind it.
ReadSizes == {n \in 1 .. Len(toServer) : n > 1 => ~Head(toServer).more}

ServerReads(n) ==
    /\ toServer' = SubSeq(toServer, n + 1, Len(toServer))
    /\ UNCHANGED <<toClient, serverOpen, clientOpen, serverErr, clientErr>>

\* read() returns 0 (FIN) or -1 (RST) once nothing is queued.
ServerReadFails ==
    /\ toServer = <<>>
    /\ ~clientOpen \/ serverErr # "none"
    /\ serverErr' = IF serverErr = "reset" THEN "pipe" ELSE serverErr
    /\ UNCHANGED <<toClient, toServer, serverOpen, clientOpen, clientErr>>

\* close(), or the kernel's close when the process dies: unread input turns
\* the FIN into an RST.
ServerCloses ==
    /\ serverOpen' = FALSE
    /\ clientErr' = IF clientOpen /\ toServer # <<>> THEN "broken" ELSE clientErr
    /\ toServer' = <<>>
    /\ UNCHANGED <<toClient, clientOpen, serverErr>>

----------------------------------------------------------------------------
(* The client's end. *)

\* flush() of one line; the write throws once the link is known to be broken.
ClientCanSend == clientOpen /\ clientErr = "none"

ClientSends(pieces) ==
    /\ toServer' = IF serverOpen THEN toServer \o pieces ELSE toServer
    /\ clientErr' \in IF serverOpen THEN {clientErr} ELSE {"none", "broken"}
    /\ UNCHANGED <<toClient, serverOpen, clientOpen, serverErr>>

\* readLine() needs a newline: the first n messages make up the next line when
\* the n-th is the first one that kept its newline.
LineEnds(n) ==
    /\ n \in 1 .. Len(toClient)
    /\ toClient[n].whole
    /\ \A i \in 1 .. n - 1 : ~toClient[i].whole

LineWaits == \E n \in 1 .. Len(toClient) : toClient[n].whole

ClientReads(n) ==
    /\ toClient' = SubSeq(toClient, n + 1, Len(toClient))
    /\ UNCHANGED <<toServer, serverOpen, clientOpen, serverErr, clientErr>>

\* Without a complete line: an exception if the link broke, else at the end of
\* the stream the incomplete rest, or null when there is none.
ClientReadEnds == ~LineWaits /\ (~clientOpen \/ ~serverOpen \/ clientErr = "broken")
NullRead == toClient = <<>> /\ clientErr = "none" /\ clientOpen

ClientDrains == toClient' = <<>> /\ UNCHANGED <<toServer, serverOpen, clientOpen, serverErr, clientErr>>

\* close(), or the kernel's close when the JVM exits.  Unread input sends RST,
\* but it may already sit in the BufferedReader.
ClientCloses ==
    /\ clientOpen' = FALSE
    /\ toClient' = <<>>
    /\ serverErr' \in IF clientOpen /\ serverOpen /\ toClient # <<>> /\ serverErr = "none"
                      THEN {"none", "reset"} ELSE {serverErr}
    /\ UNCHANGED <<toServer, serverOpen, clientErr>>
=============================================================================
