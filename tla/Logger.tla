------------------------------- MODULE Logger -------------------------------
(***************************************************************************)
(* server/logger.c: every line is written under one mutex, which is not    *)
(* recursive and is released by nobody but the code that took it.  The     *)
(* level is LOG_DEBUG from the first statement of main on (main.c:67), so  *)
(* no call returns before the mutex.  Lines logged one after the other     *)
(* with nothing between them are one line here.                            *)
(***************************************************************************)
CONSTANT LogUsers      \* the threads, and the signal handler

VARIABLE log           \* per user: "idle", "waits" for logMutex, "writes" holding it

LogInit == log = [u \in LogUsers |-> "idle"]

LogIdle(u) == log[u] = "idle"

logMutexFree == \A u \in LogUsers : log[u] # "writes"

\* The calls of logMessage and logClientMessage that a step ends with.
logMessage(users) ==
    log' = [u \in LogUsers |-> IF u \in users THEN "waits" ELSE log[u]]

LockLog(u) ==
    /\ log[u] = "waits" /\ logMutexFree
    /\ log' = [log EXCEPT ![u] = "writes"]

UnlockForgotten(u) ==      \* mutant: a second line is written before the unlock
    /\ log[u] = "writes"
    /\ log' = [log EXCEPT ![u] = "waits"]
UnlockLog(u) ==
    /\ log[u] = "writes"
    /\ log' = [log EXCEPT ![u] = "idle"]

LogTypeOK == log \in [LogUsers -> {"idle", "waits", "writes"}]
=============================================================================
