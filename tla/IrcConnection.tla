--------------------------- MODULE IrcConnection ---------------------------
(***************************************************************************)
(* The life cycle of class IrcConnection (source/irc/ircConnection.h and   *)
(* .cpp): the threads that call its methods, the threads that execute      *)
(* run(), the two mutexes, the libircclient session the object points to   *)
(* and the flags _running, _tryingToConnect and _reconectDelay.            *)
(*                                                                         *)
(* A method that holds _innerMutex from its first to its last statement is *)
(* one action.  run() holds _innerMutex across a sleep and a blocking      *)
(* connect and uses _session outside the lock, so it is cut at every place *)
(* where another thread can observe or disturb it.  The contents of        *)
(* _serverInfo and _port are the subject of module ServerTarget.           *)
(***************************************************************************)
EXTENDS Naturals, FiniteSets

CONSTANTS
  Users,       \* threads of the program that call the public methods
  Workers,     \* threads that execute irc_connection_run_thread
  Sessions,    \* memory that irc_create_session can hand out
  None,        \* the null pointer, and "no thread"
  Calls,       \* the public methods the program calls
  Delays,      \* arguments the program gives setReconnectDelay
  RetryLimit,  \* max_retry_count in run()
  OutCap,      \* messages that fit the outgoing buffer of a session
  MutexWorks   \* what the never initialised mutexes turn out to be

ASSUME ThreadsAssumption ==
  /\ Users \cap Workers = {}
  /\ None \notin Users \cup Workers
  /\ None \notin Sessions
ASSUME BoundsAssumption ==
  /\ Delays \subseteq Nat
  /\ RetryLimit \in Nat
  /\ OutCap \in Nat
ASSUME MutexAssumption == MutexWorks \in BOOLEAN

Threads == Users \cup Workers

VARIABLES
  pc,        \* where each thread is
  inner,     \* the owner of _innerMutex
  outer,     \* the owner of _mutex, the one held around a callback
  session,   \* _session
  running,   \* _running
  trying,    \* _tryingToConnect
  delay,     \* _reconectDelay, in seconds
  retry,     \* retry_count of each execution of run()
  arg,       \* the session each execution of irc_run was given
  status,    \* state of each libircclient session, "free" when not allocated
  pending,   \* messages in the outgoing buffer of each session
  quitSent   \* sessions whose outgoing stream holds a QUIT

object == <<session, running, trying, delay>>
library == <<status, pending, quitSent>>
vars == <<pc, inner, outer, object, retry, arg, library>>

ThrottleDelay == 60

\* run() from the doesReconnect test to the release of the lock.  The labels
\* of LockedPc are those at which the thread owns _innerMutex.
LockedPc == {"delay", "check", "destroy", "create", "connect", "wait", "up"}
CallbackPc == {"on_connect", "on_throttled", "on_event", "body"}
CarryingPc == {"enter", "irc_run", "lines", "failed"} \cup CallbackPc
WorkerPc == {"idle", "loop", "acquire", "report", "spawn"}
              \cup LockedPc \cup CarryingPc

\* A connection attempt is being made, or its session is ready for one.
AttemptPc == {"connect", "wait", "up"}

Status == {"free", "init", "connecting", "connected", "disconnected"}

Init ==
  /\ pc = [t \in Threads |-> IF t \in Users THEN "user" ELSE "idle"]
  /\ inner = None
  /\ outer = None
  /\ session = None
  /\ running = FALSE
  /\ trying = FALSE
  /\ delay = 0
  /\ retry = [w \in Workers |-> 0]
  /\ arg = [w \in Workers |-> None]
  /\ status = [s \in Sessions |-> "free"]
  /\ pending = [s \in Sessions |-> 0]
  /\ quitSent = {}

----------------------------------------------------------------------------
(* Mutexes and the session, as the methods use them.                       *)

Free(mutex) == MutexWorks => mutex = None

Go(t, label) == pc' = [pc EXCEPT ![t] = label]

Alive(s) == s \in Sessions /\ status[s] # "free"

\* irc_send_raw: refused unless the session is connected and has room.
Sendable(s) ==
  /\ s \in Sessions
  /\ status[s] = "connected"
  /\ pending[s] < OutCap

Queue(s) == pending' = [pending EXCEPT ![s] = @ + 1]

\* irc_cmd_quit(_session): the result of irc_send_raw is not looked at here.
SendQuit ==
  IF Sendable(session)
    THEN /\ Queue(session)
         /\ quitSent' = quitSent \cup {session}
    ELSE UNCHANGED <<pending, quitSent>>

\* irc_destroy_session(s)
Release(s) ==
  /\ status' = [status EXCEPT ![s] = "free"]
  /\ pending' = [pending EXCEPT ![s] = 0]
  /\ quitSent' = quitSent \ {s}

----------------------------------------------------------------------------
(* The public methods.  A thread of the program calls them at any time, a  *)
(* worker calls them from the body of an overridden on_* method.           *)

Home(t) == IF t \in Users THEN "user" ELSE "body"

MayCall(t, method) ==
  /\ method \in Calls
  /\ pc[t] = Home(t)
  /\ Free(inner)

\* start() without the early return for a running connection, which changes
\* nothing.  The thread is created after the lock is released.
start(t) ==
  /\ MayCall(t, "start")
  /\ ~running
  /\ trying' = TRUE
  /\ SendQuit
  /\ Go(t, "spawn")
  /\ UNCHANGED <<inner, outer, session, running, delay, retry, arg, status>>

\* CREATE_THREAD.  Its result is ignored, so a failure looks like a success.
CreateThread(t) ==
  /\ pc[t] = "spawn"
  /\ \/ \E w \in Workers :
          /\ pc[w] = "idle"
          /\ pc' = [pc EXCEPT ![t] = Home(t), ![w] = "loop"]
     \/ Go(t, Home(t))
  /\ UNCHANGED <<inner, outer, object, retry, arg, library>>

quit(t) ==
  /\ MayCall(t, "quit")
  /\ running
  /\ trying' = FALSE
  /\ SendQuit
  /\ UNCHANGED <<pc, inner, outer, session, running, delay, retry, arg,
                 status>>

\* Mutant: disconnect() also clears _running.
disconnect_ClearsRunning(t) ==
  /\ MayCall(t, "disconnect")
  /\ running
  /\ running' = FALSE
  /\ trying' = FALSE
  /\ status' = [status EXCEPT ![session] = "init"]
  /\ UNCHANGED <<pc, inner, outer, session, delay, retry, arg, pending,
                 quitSent>>

\* disconnect(): irc_disconnect closes the socket and resets the session.
disconnect(t) ==
  /\ MayCall(t, "disconnect")
  /\ running
  /\ trying' = FALSE
  /\ status' = [status EXCEPT ![session] = "init"]
  /\ UNCHANGED <<pc, inner, outer, session, running, delay, retry, arg,
                 pending, quitSent>>

\* Mutant: resetSession() does not look at _running.
resetSession_Unguarded(t) ==
  /\ MayCall(t, "resetSession")
  /\ session # None
  /\ Release(session)
  /\ session' = None
  /\ UNCHANGED <<pc, inner, outer, running, trying, delay, retry, arg>>

resetSession(t) ==
  /\ MayCall(t, "resetSession")
  /\ ~running
  /\ session # None
  /\ Release(session)
  /\ session' = None
  /\ UNCHANGED <<pc, inner, outer, running, trying, delay, retry, arg>>

\* Mutant: setReconnectDelay() writes without the lock.
setReconnectDelay_Unlocked(t) ==
  /\ "setReconnectDelay" \in Calls
  /\ pc[t] = Home(t)
  /\ \E d \in Delays : delay' = d
  /\ UNCHANGED <<pc, inner, outer, session, running, trying, retry, arg,
                 library>>

setReconnectDelay(t) ==
  /\ MayCall(t, "setReconnectDelay")
  /\ \E d \in Delays : delay' = d
  /\ UNCHANGED <<pc, inner, outer, session, running, trying, retry, arg,
                 library>>

\* Every other command method (join, sendMessage, kick, ...): -1 unless
\* _running, otherwise one message for irc_send_raw.
command(t) ==
  /\ MayCall(t, "command")
  /\ running
  /\ Sendable(session)
  /\ Queue(session)
  /\ UNCHANGED <<pc, inner, outer, object, retry, arg, status, quitSent>>

----------------------------------------------------------------------------
(* run()                                                                   *)

\* Mutant: a thread that ends its loop declares the connection down.
LoopTest_ClearsRunning(w) ==
  /\ pc[w] = "loop"
  /\ Free(inner)
  /\ Go(w, IF trying THEN "acquire" ELSE "idle")
  /\ running' = (running /\ trying)
  /\ UNCHANGED <<inner, outer, session, trying, delay, retry, arg, library>>

\* The loop condition doesReconnect(), which takes and drops the lock.
LoopTest(w) ==
  /\ pc[w] = "loop"
  /\ Free(inner)
  /\ Go(w, IF trying THEN "acquire" ELSE "idle")
  /\ UNCHANGED <<inner, outer, object, retry, arg, library>>

\* Mutant: the MutexHandle of the loop body is missing.
AcquireInner_NoLock(w) ==
  /\ pc[w] = "acquire"
  /\ inner' = w
  /\ Go(w, IF delay > 0 THEN "delay" ELSE "check")
  /\ UNCHANGED <<outer, object, retry, arg, library>>

AcquireInner(w) ==
  /\ pc[w] = "acquire"
  /\ Free(inner)
  /\ inner' = w
  /\ Go(w, IF delay > 0 THEN "delay" ELSE "check")
  /\ UNCHANGED <<outer, object, retry, arg, library>>

SleepDelay(w) ==
  /\ pc[w] = "delay"
  /\ delay' = 0
  /\ Go(w, "check")
  /\ UNCHANGED <<inner, outer, session, running, trying, retry, arg, library>>

\* Mutant: run() does not look whether another thread carries the connection.
CheckRunning_Dropped(w) ==
  /\ pc[w] = "check"
  /\ Go(w, "destroy")
  /\ UNCHANGED <<inner, outer, object, retry, arg, library>>

\* Mutant: continue in place of return.
CheckRunning_Continues(w) ==
  /\ pc[w] = "check"
  /\ IF running
       THEN inner' = None /\ Go(w, "loop")
       ELSE inner' = inner /\ Go(w, "destroy")
  /\ UNCHANGED <<outer, object, retry, arg, library>>

\* Another thread carries the connection: this one returns.
CheckRunning(w) ==
  /\ pc[w] = "check"
  /\ IF running
       THEN inner' = None /\ Go(w, "idle")
       ELSE inner' = inner /\ Go(w, "destroy")
  /\ UNCHANGED <<outer, object, retry, arg, library>>

\* Mutant: the old session is forgotten, not destroyed.
DestroyOld_Forgets(w) ==
  /\ pc[w] = "destroy"
  /\ session' = None
  /\ Go(w, "create")
  /\ UNCHANGED <<inner, outer, running, trying, delay, retry, arg, library>>

DestroyOld(w) ==
  /\ pc[w] = "destroy"
  /\ IF session # None
       THEN Release(session) /\ session' = None
       ELSE UNCHANGED <<session, library>>
  /\ Go(w, "create")
  /\ UNCHANGED <<inner, outer, running, trying, delay, retry, arg>>

\* irc_create_session fails, and the thread returns with the flags as they
\* are, or yields a session at an address that is not in use.
CreateSession(w) ==
  /\ pc[w] = "create"
  /\ \/ /\ inner' = None
        /\ Go(w, "idle")
        /\ UNCHANGED <<session, status, retry>>
     \/ \E s \in Sessions :
          /\ status[s] = "free"
          /\ status' = [status EXCEPT ![s] = "init"]
          /\ session' = s
          /\ retry' = [retry EXCEPT ![w] = 0]
          /\ inner' = inner
          /\ Go(w, "connect")
  /\ UNCHANGED <<outer, running, trying, delay, arg, pending, quitSent>>

\* irc_connect wants a session in its initial state; success only means that
\* the connection was initiated.
ConnectStarts(w) ==
  /\ pc[w] = "connect"
  /\ Alive(session)
  /\ status[session] = "init"
  /\ status' = [status EXCEPT ![session] = "connecting"]
  /\ Go(w, "up")
  /\ UNCHANGED <<inner, outer, object, retry, arg, pending, quitSent>>

\* Mutant: one attempt too many.
ConnectFails_OffByOne(w) ==
  /\ pc[w] = "connect"
  /\ IF retry[w] > RetryLimit
       THEN inner' = None /\ Go(w, "idle")
       ELSE inner' = inner /\ Go(w, "wait")
  /\ UNCHANGED <<outer, object, retry, arg, library>>

\* Mutant: the attempts are not counted.
SleepRetry_Uncounted(w) ==
  /\ pc[w] = "wait"
  /\ Go(w, "connect")
  /\ UNCHANGED <<inner, outer, object, retry, arg, library>>

\* Mutant: giving up keeps the lock.
ConnectFails_KeepsLock(w) ==
  /\ pc[w] = "connect"
  /\ Go(w, IF retry[w] = RetryLimit THEN "idle" ELSE "wait")
  /\ UNCHANGED <<inner, outer, object, retry, arg, library>>

ConnectFails(w) ==
  /\ pc[w] = "connect"
  /\ IF retry[w] = RetryLimit
       THEN /\ inner' = None
            /\ Go(w, "idle")
       ELSE /\ inner' = inner
            /\ Go(w, "wait")
  /\ UNCHANGED <<outer, object, retry, arg, library>>

SleepRetry(w) ==
  /\ pc[w] = "wait"
  /\ retry' = [retry EXCEPT ![w] = @ + 1]
  /\ Go(w, "connect")
  /\ UNCHANGED <<inner, outer, object, arg, library>>

SetRunning(w) ==
  /\ pc[w] = "up"
  /\ running' = TRUE
  /\ inner' = None
  /\ Go(w, "enter")
  /\ UNCHANGED <<outer, session, trying, delay, retry, arg, library>>

\* irc_run(_session): _session is read without the lock, and the library
\* refuses a session that is not connecting.
EnterIrcRun(w) ==
  /\ pc[w] = "enter"
  /\ arg' = [arg EXCEPT ![w] = session]
  /\ Go(w, IF Alive(session) /\ status[session] = "connecting"
             THEN "irc_run" ELSE "failed")
  /\ UNCHANGED <<inner, outer, object, retry, library>>

\* Back from irc_run with an error: the flag is cleared under the lock.
ClearRunning(w) ==
  /\ pc[w] = "failed"
  /\ Free(inner)
  /\ running' = FALSE
  /\ Go(w, "report")
  /\ UNCHANGED <<inner, outer, session, trying, delay, retry, arg, library>>

\* irc_errno(_session) in the printf after the release.
Report(w) ==
  /\ pc[w] = "report"
  /\ arg' = [arg EXCEPT ![w] = None]
  /\ Go(w, "loop")
  /\ UNCHANGED <<inner, outer, object, retry, library>>

----------------------------------------------------------------------------
(* irc_run, as libircclient 1.6 executes it for this program.              *)

InIrcRun(w) == pc[w] = "irc_run" /\ arg[w] \in Sessions

\* The socket is connected: NICK and USER are queued as far as they fit.
Established(w) ==
  /\ InIrcRun(w)
  /\ status[arg[w]] = "connecting"
  /\ status' = [status EXCEPT ![arg[w]] = "connected"]
  /\ pending' = [pending EXCEPT ![arg[w]] = IF OutCap < 2 THEN OutCap ELSE 2]
  /\ UNCHANGED <<pc, inner, outer, object, retry, arg, quitSent>>

\* Whole lines have arrived; each will be one callback, whatever becomes of
\* the session meanwhile.
Receive(w) ==
  /\ InIrcRun(w)
  /\ status[arg[w]] = "connected"
  /\ Go(w, "lines")
  /\ UNCHANGED <<inner, outer, object, retry, arg, library>>

Write(w) ==
  /\ InIrcRun(w)
  /\ status[arg[w]] = "connected"
  /\ pending[arg[w]] > 0
  /\ pending' = [pending EXCEPT ![arg[w]] = 0]
  /\ UNCHANGED <<pc, inner, outer, object, retry, arg, status, quitSent>>

\* Connection refused, closed by the server, or an I/O error: returns 1.  A
\* failed select leaves the state of the session as it is.
RunFails(w) ==
  /\ InIrcRun(w)
  /\ status[arg[w]] \in {"connecting", "connected"}
  /\ \/ status' = [status EXCEPT ![arg[w]] = "disconnected"]
     \/ status' = status
  /\ Go(w, "failed")
  /\ UNCHANGED <<inner, outer, object, retry, arg, pending, quitSent>>

\* The session was disconnected by irc_disconnect.  The loop test sees it
\* (irc_run returns 0), or the select step does (irc_run returns 1).
RunEnds(w) ==
  /\ InIrcRun(w)
  /\ status[arg[w]] \notin {"connecting", "connected"}
  /\ \/ Go(w, "loop") /\ arg' = [arg EXCEPT ![w] = None]
     \/ Go(w, "failed") /\ arg' = arg
  /\ UNCHANGED <<inner, outer, object, retry, library>>

----------------------------------------------------------------------------
(* The callbacks irc_connection_event_*, all of which hold _mutex.  Those   *)
(* of mode, join and the like then read the nick of their origin under the *)
(* inner lock; those of umode, notices in a channel, CTCP, numeric codes,  *)
(* unknown events and DCC go to the body of their handler at once.         *)

BeginCallback(w) ==
  /\ pc[w] = "lines"
  /\ Free(outer)
  /\ outer' = w
  /\ \E handler \in CallbackPc : Go(w, handler)
  /\ UNCHANGED <<inner, object, retry, arg, library>>

on_connect(w) ==
  /\ pc[w] = "on_connect"
  /\ Free(inner)
  /\ running' = TRUE
  /\ Go(w, "body")
  /\ UNCHANGED <<inner, outer, session, trying, delay, retry, arg, library>>

\* on_unknown with a first parameter that says the host is throttled.
on_throttled(w) ==
  /\ pc[w] = "on_throttled"
  /\ Free(inner)
  /\ delay' = ThrottleDelay
  /\ Go(w, "body")
  /\ UNCHANGED <<inner, outer, session, running, trying, retry, arg, library>>

\* getNick(), in the callbacks that want the nick of the origin.
getNick(w) ==
  /\ pc[w] = "on_event"
  /\ Free(inner)
  /\ Go(w, "body")
  /\ UNCHANGED <<inner, outer, object, retry, arg, library>>

NextLine(w) ==
  /\ pc[w] = "body"
  /\ outer' = None
  /\ Go(w, "lines")
  /\ UNCHANGED <<inner, object, retry, arg, library>>

LastLine(w) ==
  /\ pc[w] = "body"
  /\ outer' = None
  /\ Go(w, "irc_run")
  /\ UNCHANGED <<inner, object, retry, arg, library>>

----------------------------------------------------------------------------

Method(t) ==
  \/ start(t) \/ CreateThread(t) \/ quit(t) \/ disconnect(t)
  \/ resetSession(t) \/ setReconnectDelay(t) \/ command(t)

\* The steps of run() and of a callback that the thread takes by itself.
RunStep(w) ==
  \/ LoopTest(w) \/ AcquireInner(w) \/ SleepDelay(w) \/ CheckRunning(w)
  \/ DestroyOld(w) \/ CreateSession(w) \/ ConnectStarts(w) \/ ConnectFails(w)
  \/ SleepRetry(w) \/ SetRunning(w) \/ EnterIrcRun(w) \/ ClearRunning(w)
  \/ Report(w) \/ RunEnds(w)
  \/ BeginCallback(w) \/ on_connect(w) \/ on_throttled(w) \/ getNick(w)

\* What the network and the server decide.
Network(w) ==
  Established(w) \/ Receive(w) \/ Write(w) \/ RunFails(w) \/ NextLine(w)
    \/ LastLine(w)

Next ==
  \/ \E t \in Threads : Method(t)
  \/ \E w \in Workers : RunStep(w) \/ Network(w)

Spec == Init /\ [][Next]_vars

\* A server closes the connection of a client that sent QUIT.
CloseAfterQuit(w) == arg[w] \in quitSent /\ RunFails(w)

\* The scheduler runs every thread that can take a step, a sleep and a
\* connect return, a received buffer holds finitely many lines, and a server
\* answers a QUIT by closing the connection.
Fairness ==
  /\ \A t \in Threads : WF_vars(CreateThread(t))
  /\ \A w \in Workers : /\ WF_vars(RunStep(w))
                        /\ SF_vars(LastLine(w))
                        /\ SF_vars(CloseAfterQuit(w))

FairSpec == Spec /\ Fairness

\* Sooner or later the network lets a connect succeed or fail.
Settles(w) ==
  /\ InIrcRun(w)
  /\ status[arg[w]] = "connecting"
  /\ Established(w) \/ RunFails(w)

SettledSpec == FairSpec /\ \A w \in Workers : WF_vars(Settles(w))

----------------------------------------------------------------------------

\* Types of the variables (the one type invariant of the module).
TypeOK ==
  /\ pc \in [Threads -> {"user"} \cup WorkerPc]
  /\ inner \in Workers \cup {None}
  /\ outer \in Workers \cup {None}
  /\ session \in Sessions \cup {None}
  /\ running \in BOOLEAN
  /\ trying \in BOOLEAN
  /\ delay \in Nat
  /\ retry \in [Workers -> 0..RetryLimit]
  /\ arg \in [Workers -> Sessions \cup {None}]
  /\ status \in [Sessions -> Status]
  /\ pending \in [Sessions -> 0..OutCap]
  /\ quitSent \subseteq Sessions

\* At most one thread is between _running = true and the reaction to the end
\* of irc_run: a second execution of run() never carries a connection next to
\* the first (cpp 279-280, "if(_running) return").
OneRunner ==
  \A v, w \in Workers :
    pc[v] \in CarryingPc /\ pc[w] \in CarryingPc => v = w

\* While irc_run and its callbacks execute, the session they work on is
\* allocated and is the one _session points to, so neither run() nor
\* resetSession frees it under them.
RunnerSessionAlive ==
  \A w \in Workers :
    pc[w] \in {"irc_run", "lines"} \cup CallbackPc =>
      /\ Alive(arg[w])
      /\ arg[w] = session

\* Every method that passed its test of _running hands the library an
\* allocated session.
CommandSessionAlive == running => Alive(session)

\* No session is lost: what the library has allocated is what _session
\* points to, so a reconnect never leaves an older socket behind.
NoLeak == \A s \in Sessions : Alive(s) => s = session

\* A callback always finds _running set: getNick, getHost and every command
\* method work in it, whatever the other threads do meanwhile.
CallbackRunning == \A w \in Workers : pc[w] \in CallbackPc => running

\* Nobody connects while a reconnect delay is outstanding.
DelayHonoured == \A w \in Workers : pc[w] \in AttemptPc => delay = 0

\* _innerMutex keeps two executions of run() from preparing a session at the
\* same time, and a session from being prepared next to a running one.
PreparationExclusive ==
  \A v, w \in Workers :
    pc[v] \in {"create"} \cup AttemptPc /\ pc[w] \in LockedPc \cup CarryingPc
      => v = w

\* While the connection runs, no step of any thread moves _session.
SessionStable == [][running => session' = session]_vars

\* run() sleeps and blocks under _innerMutex, but always gives it back.
InnerReleased == inner # None ~> inner = None

\* Once nobody wants a connection and none is up, every execution of run()
\* comes to its end.
WorkersDrain ==
  <>[](~trying /\ ~running) => <>[](\A w \in Workers : pc[w] = "idle")

\* While one connection stays up, the executions of run() that do not carry it
\* come to their end: each notices it and returns (cpp 279-280), in whatever
\* order they get the lock.
SuperfluousEnd ==
  <>[]running =>
    <>[](\A w \in Workers : pc[w] = "idle" \/ pc[w] \in CarryingPc)

----------------------------------------------------------------------------
(* The object as its callers see it.                                       *)

Carrying == {w \in Workers : pc[w] \in CarryingPc}
InCallback == {w \in Workers : pc[w] \in CallbackPc}

Service == INSTANCE ConnectionService WITH
  Carriers <- Workers,
  Connections <- Sessions,
  carriers <- Carrying,
  connection <- IF running THEN session ELSE None,
  upcalls <- InCallback

\* Threads, locks and sessions together implement the service: one carrier,
\* one connection from its start to its end, updates from the carrier only.
ImplementsService == Service!Spec

----------------------------------------------------------------------------
(* What comments promise and the code does not keep.                       *)

\* isRunning() tells that the connection runs: some thread carries it.
RunningHasRunner == running => \E w \in Workers : pc[w] \in CarryingPc

\* A connection that was stopped comes to its end.
StopStops == (running /\ ~trying) ~> ~running

\* An attempt to connect is made only while doesReconnect() is true.
AttemptsAnnounced == \A w \in Workers : pc[w] \in AttemptPc => trying

\* The error report after irc_run reads a session that still exists.
ReportSessionAlive ==
  \A w \in Workers : pc[w] = "report" => Alive(session)

\* _mutex lets one update of libircclient at a time into the object.
OneUpdateAtATime ==
  \A v, w \in Workers : pc[v] \in CallbackPc /\ pc[w] \in CallbackPc => v = w
=============================================================================
