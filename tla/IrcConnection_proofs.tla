------------------------ MODULE IrcConnection_proofs ------------------------
(***************************************************************************)
(* Theorems about IrcConnection for every number of threads and sessions.  *)
(* The type invariant needs no assumption; everything else holds when the  *)
(* mutexes work (MutexWorks), which the constructor does not see to.  The  *)
(* last section proves that the module implements ConnectionService.       *)
(***************************************************************************)
EXTENDS IrcConnection, TLAPS

\* A thread that waits for its next attempt has one left.
RetryLeft == \A w \in Workers : pc[w] = "wait" => retry[w] < RetryLimit

TypeInv == TypeOK /\ RetryLeft

----------------------------------------------------------------------------
(* Types                                                                   *)

LEMMA TypeInit == Init => TypeInv
<1> SUFFICES ASSUME Init PROVE TypeInv
  OBVIOUS
<1>1. pc \in [Threads -> {"user", "idle"}]
  BY DEF Init
<1>2. pc \in [Threads -> {"user"} \cup WorkerPc]
  BY <1>1 DEF WorkerPc
<1>3. RetryLeft
  BY ThreadsAssumption DEF ThreadsAssumption, Init, Threads, RetryLeft
<1>4. retry \in [Workers -> 0..RetryLimit] /\ pending \in [Sessions -> 0..OutCap]
  BY BoundsAssumption DEF BoundsAssumption, Init
<1>5. status \in [Sessions -> Status] /\ arg \in [Workers -> Sessions \cup {None}]
  BY DEF Init, Status
<1> QED
  BY <1>2, <1>3, <1>4, <1>5 DEF Init, TypeInv, TypeOK

LEMMA SendQuitTypes ==
  ASSUME TypeOK, SendQuit
  PROVE  pending' \in [Sessions -> 0..OutCap] /\ quitSent' \subseteq Sessions
BY BoundsAssumption
   DEF BoundsAssumption, TypeOK, SendQuit, Queue, Sendable

LEMMA TypeMethod ==
  ASSUME TypeInv, NEW t \in Threads, Method(t)
  PROVE  TypeInv'
<1> USE ThreadsAssumption, BoundsAssumption
    DEF ThreadsAssumption, BoundsAssumption, TypeInv, TypeOK, RetryLeft, Threads, WorkerPc, LockedPc, CarryingPc,
        CallbackPc, Status, MayCall, Home, Go, object, library
<1>1. CASE start(t)
  <2>1. pending' \in [Sessions -> 0..OutCap] /\ quitSent' \subseteq Sessions
    BY <1>1, SendQuitTypes DEF start
  <2>2. pc' \in [Threads -> {"user"} \cup WorkerPc] /\ RetryLeft'
    BY <1>1 DEF start
  <2> QED
    BY <1>1, <2>1, <2>2 DEF start
<1>2. CASE CreateThread(t)
  BY <1>2 DEF CreateThread
<1>3. CASE quit(t)
  <2>1. pending' \in [Sessions -> 0..OutCap] /\ quitSent' \subseteq Sessions
    BY <1>3, SendQuitTypes DEF quit
  <2> QED
    BY <1>3, <2>1 DEF quit
<1>4. CASE disconnect(t)
  BY <1>4 DEF disconnect
<1>5. CASE resetSession(t)
  BY <1>5 DEF resetSession, Release
<1>6. CASE setReconnectDelay(t)
  BY <1>6 DEF setReconnectDelay
<1>7. CASE command(t)
  BY <1>7 DEF command, Queue, Sendable
<1> QED
  BY <1>1, <1>2, <1>3, <1>4, <1>5, <1>6, <1>7 DEF Method

LEMMA TypeRunStep ==
  ASSUME TypeInv, NEW w \in Workers, RunStep(w)
  PROVE  TypeInv'
<1> USE ThreadsAssumption, BoundsAssumption
    DEF ThreadsAssumption, BoundsAssumption, TypeInv, TypeOK, RetryLeft, Threads, WorkerPc, LockedPc, CarryingPc,
        CallbackPc, Status, Go, object, library
<1>1. CASE LoopTest(w)
  BY <1>1 DEF LoopTest
<1>2. CASE AcquireInner(w)
  BY <1>2 DEF AcquireInner
<1>3. CASE SleepDelay(w)
  BY <1>3 DEF SleepDelay
<1>4. CASE CheckRunning(w)
  BY <1>4 DEF CheckRunning
<1>5. CASE DestroyOld(w)
  BY <1>5 DEF DestroyOld, Release
<1>6. CASE CreateSession(w)
  BY <1>6 DEF CreateSession
<1>7. CASE ConnectStarts(w)
  BY <1>7 DEF ConnectStarts
<1>8. CASE ConnectFails(w)
  BY <1>8 DEF ConnectFails
<1>9. CASE SleepRetry(w)
  BY <1>9 DEF SleepRetry
<1>10. CASE SetRunning(w)
  BY <1>10 DEF SetRunning
<1>11. CASE EnterIrcRun(w)
  BY <1>11 DEF EnterIrcRun
<1>12. CASE ClearRunning(w)
  BY <1>12 DEF ClearRunning
<1>13. CASE Report(w)
  BY <1>13 DEF Report
<1>14. CASE RunEnds(w)
  BY <1>14 DEF RunEnds
<1>15. CASE BeginCallback(w)
  BY <1>15 DEF BeginCallback
<1>16. CASE on_connect(w)
  BY <1>16 DEF on_connect
<1>17. CASE on_throttled(w)
  BY <1>17 DEF on_throttled, ThrottleDelay
<1>18. CASE getNick(w)
  BY <1>18 DEF getNick
<1> QED
  BY <1>1, <1>2, <1>3, <1>4, <1>5, <1>6, <1>7, <1>8, <1>9, <1>10, <1>11,
     <1>12, <1>13, <1>14, <1>15, <1>16, <1>17, <1>18 DEF RunStep

LEMMA TypeNetwork ==
  ASSUME TypeInv, NEW w \in Workers, Network(w)
  PROVE  TypeInv'
<1> USE ThreadsAssumption, BoundsAssumption
    DEF ThreadsAssumption, BoundsAssumption, TypeInv, TypeOK, RetryLeft, Threads, WorkerPc, LockedPc, CarryingPc,
        CallbackPc, Status, Go, InIrcRun, object, library
<1>1. CASE Established(w)
  BY <1>1 DEF Established
<1>2. CASE Receive(w)
  BY <1>2 DEF Receive
<1>3. CASE Write(w)
  BY <1>3 DEF Write
<1>4. CASE RunFails(w)
  BY <1>4 DEF RunFails
<1>5. CASE NextLine(w)
  BY <1>5 DEF NextLine
<1>6. CASE LastLine(w)
  BY <1>6 DEF LastLine
<1> QED
  BY <1>1, <1>2, <1>3, <1>4, <1>5, <1>6 DEF Network

\* Every variable keeps its type, and the retry counter stays within
\* max_retry_count, in every execution.
THEOREM TypeCorrect == Spec => []TypeOK
<1>1. TypeInv /\ [Next]_vars => TypeInv'
  <2> SUFFICES ASSUME TypeInv, [Next]_vars PROVE TypeInv'
    OBVIOUS
  <2>1. CASE Next
    BY <2>1, TypeMethod, TypeRunStep, TypeNetwork DEF Next
  <2>2. CASE UNCHANGED vars
    BY <2>2 DEF vars, object, library, TypeInv, TypeOK, RetryLeft
  <2> QED
    BY <2>1, <2>2
<1> QED
  BY <1>1, TypeInit, PTL DEF Spec, TypeInv

----------------------------------------------------------------------------
(* Safety of the session.  The parts of the inductive invariant that are   *)
(* not properties in their own right:                                      *)

\* The labels of LockedPc are reached only by the owner of _innerMutex.
LockHeld == \A w \in Workers : pc[w] \in LockedPc => inner = w

\* run() prepares a session only when it found _running cleared, and nobody
\* can set the flag before it does.
PreparesWhenDown ==
  \A w \in Workers : pc[w] \in {"destroy", "create"} \cup AttemptPc => ~running

CarriesWhenUp == \A w \in Workers : pc[w] \in CarryingPc => running

\* A connection attempt works on the session made for it, and a session is
\* made only after the old one was given up.
AttemptSession ==
  \A w \in Workers : /\ pc[w] \in AttemptPc => Alive(session)
                     /\ pc[w] = "create" => session = None

RunnerArgument ==
  \A w \in Workers :
    pc[w] \in {"irc_run", "lines"} \cup CallbackPc => arg[w] = session

\* Once the delay was slept, it stays zero until the lock is given back.
DelaySlept ==
  \A w \in Workers :
    pc[w] \in {"check", "destroy", "create"} \cup AttemptPc => delay = 0

\* start() called from a callback returns early: the connection is up.
NoStartInCallback == \A w \in Workers : pc[w] # "spawn"

Inv ==
  /\ LockHeld
  /\ PreparesWhenDown
  /\ CarriesWhenUp
  /\ OneRunner
  /\ CommandSessionAlive
  /\ AttemptSession
  /\ NoLeak
  /\ RunnerArgument
  /\ DelaySlept
  /\ NoStartInCallback

LEMMA InvInit == Init => Inv
BY ThreadsAssumption
   DEF ThreadsAssumption, Init, Threads, Inv, LockHeld, PreparesWhenDown,
       CarriesWhenUp, OneRunner, CommandSessionAlive, AttemptSession, NoLeak,
       RunnerArgument, DelaySlept, NoStartInCallback, LockedPc, AttemptPc,
       CarryingPc, CallbackPc, Alive

LEMMA InvMethod ==
  ASSUME MutexWorks = TRUE, TypeOK, Inv, NEW t \in Threads, Method(t)
  PROVE  Inv'
<1> USE ThreadsAssumption
    DEF ThreadsAssumption, TypeOK, Threads, MayCall, Home, Free, Go, object,
        library, Inv, LockHeld, PreparesWhenDown, CarriesWhenUp, OneRunner,
        CommandSessionAlive, AttemptSession, NoLeak, RunnerArgument,
        DelaySlept, NoStartInCallback, LockedPc, AttemptPc, CarryingPc,
        CallbackPc, Alive
<1>1. CASE start(t)
  BY <1>1 DEF start
<1>2. CASE CreateThread(t)
  BY <1>2 DEF CreateThread
<1>3. CASE quit(t)
  BY <1>3 DEF quit
<1>4. CASE disconnect(t)
  BY <1>4 DEF disconnect
<1>5. CASE resetSession(t)
  BY <1>5 DEF resetSession, Release
<1>6. CASE setReconnectDelay(t)
  BY <1>6 DEF setReconnectDelay
<1>7. CASE command(t)
  BY <1>7 DEF command
<1> QED
  BY <1>1, <1>2, <1>3, <1>4, <1>5, <1>6, <1>7 DEF Method

LEMMA InvRunStep ==
  ASSUME MutexWorks = TRUE, TypeOK, Inv, NEW w \in Workers, RunStep(w)
  PROVE  Inv'
<1> USE ThreadsAssumption
    DEF ThreadsAssumption, TypeOK, Threads, Free, Go, object, library, Inv,
        LockHeld, PreparesWhenDown, CarriesWhenUp, OneRunner,
        CommandSessionAlive, AttemptSession, NoLeak, RunnerArgument,
        DelaySlept, NoStartInCallback, LockedPc, AttemptPc, CarryingPc,
        CallbackPc, Alive
<1>1. CASE LoopTest(w)
  BY <1>1 DEF LoopTest
<1>2. CASE AcquireInner(w)
  BY <1>2 DEF AcquireInner
<1>3. CASE SleepDelay(w)
  BY <1>3 DEF SleepDelay
<1>4. CASE CheckRunning(w)
  BY <1>4 DEF CheckRunning
<1>5. CASE DestroyOld(w)
  BY <1>5 DEF DestroyOld, Release
<1>6. CASE CreateSession(w)
  BY <1>6 DEF CreateSession
<1>7. CASE ConnectStarts(w)
  BY <1>7 DEF ConnectStarts
<1>8. CASE ConnectFails(w)
  BY <1>8 DEF ConnectFails
<1>9. CASE SleepRetry(w)
  BY <1>9 DEF SleepRetry
<1>10. CASE SetRunning(w)
  BY <1>10 DEF SetRunning
<1>11. CASE EnterIrcRun(w)
  BY <1>11 DEF EnterIrcRun
<1>12. CASE ClearRunning(w)
  BY <1>12 DEF ClearRunning
<1>13. CASE Report(w)
  BY <1>13 DEF Report
<1>14. CASE RunEnds(w)
  BY <1>14 DEF RunEnds, InIrcRun
<1>15. CASE BeginCallback(w)
  BY <1>15 DEF BeginCallback
<1>16. CASE on_connect(w)
  BY <1>16 DEF on_connect
<1>17. CASE on_throttled(w)
  BY <1>17 DEF on_throttled
<1>18. CASE getNick(w)
  BY <1>18 DEF getNick
<1> QED
  BY <1>1, <1>2, <1>3, <1>4, <1>5, <1>6, <1>7, <1>8, <1>9, <1>10, <1>11,
     <1>12, <1>13, <1>14, <1>15, <1>16, <1>17, <1>18 DEF RunStep

LEMMA InvNetwork ==
  ASSUME MutexWorks = TRUE, TypeOK, Inv, NEW w \in Workers, Network(w)
  PROVE  Inv'
<1> USE ThreadsAssumption
    DEF ThreadsAssumption, TypeOK, Threads, Free, Go, InIrcRun, object,
        library, Inv, LockHeld, PreparesWhenDown, CarriesWhenUp, OneRunner,
        CommandSessionAlive, AttemptSession, NoLeak, RunnerArgument,
        DelaySlept, NoStartInCallback, LockedPc, AttemptPc, CarryingPc,
        CallbackPc, Alive
<1>1. CASE Established(w)
  BY <1>1 DEF Established
<1>2. CASE Receive(w)
  BY <1>2 DEF Receive
<1>3. CASE Write(w)
  BY <1>3 DEF Write
<1>4. CASE RunFails(w)
  BY <1>4 DEF RunFails
<1>5. CASE NextLine(w)
  BY <1>5 DEF NextLine
<1>6. CASE LastLine(w)
  BY <1>6 DEF LastLine
<1> QED
  BY <1>1, <1>2, <1>3, <1>4, <1>5, <1>6 DEF Network

LEMMA InvStutter == TypeOK /\ Inv /\ UNCHANGED vars => Inv'
BY DEF vars, object, library, Inv, LockHeld, PreparesWhenDown, CarriesWhenUp,
       OneRunner, CommandSessionAlive, AttemptSession, NoLeak, RunnerArgument,
       DelaySlept, NoStartInCallback, Alive

LEMMA InvStep ==
  ASSUME MutexWorks = TRUE, TypeOK, Inv, [Next]_vars
  PROVE  Inv'
BY InvMethod, InvRunStep, InvNetwork, InvStutter DEF Next

LEMMA InvCorrect ==
  ASSUME MutexWorks = TRUE
  PROVE  Spec => []Inv
<1>1. TypeOK /\ Inv /\ [Next]_vars => Inv'
  BY InvStep
<1> QED
  BY <1>1, InvInit, TypeCorrect, PTL DEF Spec

\* Two executions of run() never carry the connection together.
THEOREM OneRunnerCorrect ==
  ASSUME MutexWorks = TRUE
  PROVE  Spec => []OneRunner
<1>1. Inv => OneRunner
  BY DEF Inv
<1> QED
  BY <1>1, InvCorrect, PTL

\* irc_run and the callbacks work on a session that nobody frees.
THEOREM RunnerSessionAliveCorrect ==
  ASSUME MutexWorks = TRUE
  PROVE  Spec => []RunnerSessionAlive
<1>1. Inv => RunnerSessionAlive
  BY DEF Inv, RunnerArgument, CarriesWhenUp, CommandSessionAlive,
         RunnerSessionAlive, CarryingPc, CallbackPc
<1> QED
  BY <1>1, InvCorrect, PTL

\* A method that saw _running set uses an allocated session.
THEOREM CommandSessionAliveCorrect ==
  ASSUME MutexWorks = TRUE
  PROVE  Spec => []CommandSessionAlive
<1>1. Inv => CommandSessionAlive
  BY DEF Inv
<1> QED
  BY <1>1, InvCorrect, PTL

\* No session is left allocated when _session moves to another one.
THEOREM NoLeakCorrect ==
  ASSUME MutexWorks = TRUE
  PROVE  Spec => []NoLeak
<1>1. Inv => NoLeak
  BY DEF Inv
<1> QED
  BY <1>1, InvCorrect, PTL

\* A callback never sees _running cleared.
THEOREM CallbackRunningCorrect ==
  ASSUME MutexWorks = TRUE
  PROVE  Spec => []CallbackRunning
<1>1. Inv => CallbackRunning
  BY DEF Inv, CarriesWhenUp, CallbackRunning, CarryingPc
<1> QED
  BY <1>1, InvCorrect, PTL

\* Nobody connects while a reconnect delay is outstanding.
THEOREM DelayHonouredCorrect ==
  ASSUME MutexWorks = TRUE
  PROVE  Spec => []DelayHonoured
<1>1. Inv => DelayHonoured
  BY DEF Inv, DelaySlept, DelayHonoured
<1> QED
  BY <1>1, InvCorrect, PTL

\* A session is prepared by one thread at a time and never next to a
\* connection that runs.
THEOREM PreparationExclusiveCorrect ==
  ASSUME MutexWorks = TRUE
  PROVE  Spec => []PreparationExclusive
<1>1. Inv => PreparationExclusive
  BY DEF Inv, LockHeld, PreparesWhenDown, CarriesWhenUp,
         PreparationExclusive, LockedPc, AttemptPc
<1> QED
  BY <1>1, InvCorrect, PTL

\* _mutex lets one callback at a time into the object (threadHelper.h).
THEOREM OneUpdateAtATimeCorrect ==
  ASSUME MutexWorks = TRUE
  PROVE  Spec => []OneUpdateAtATime
<1>1. Inv => OneUpdateAtATime
  BY DEF Inv, OneRunner, OneUpdateAtATime, CarryingPc
<1> QED
  BY <1>1, InvCorrect, PTL

----------------------------------------------------------------------------
(* What isRunning() means in a program that does not call disconnect().    *)

\* While irc_run executes, nobody puts the session back to its first state, so
\* it does not return without an error, which would leave _running set.
NeverCut ==
  \A w \in Workers :
    pc[w] \in {"irc_run", "lines"} \cup CallbackPc =>
      status[session] \in {"connecting", "connected"}

UpInv == NeverCut /\ RunningHasRunner

LEMMA UpInit == Init => UpInv
BY ThreadsAssumption
   DEF ThreadsAssumption, Init, Threads, UpInv, NeverCut, RunningHasRunner,
       CallbackPc

LEMMA UpMethod ==
  ASSUME MutexWorks = TRUE, TypeOK, Inv, UpInv, NEW t \in Threads,
         \/ start(t) \/ CreateThread(t) \/ quit(t) \/ resetSession(t)
         \/ setReconnectDelay(t) \/ command(t)
  PROVE  UpInv'
<1> USE ThreadsAssumption
    DEF ThreadsAssumption, TypeOK, Threads, MayCall, Home, Go, object,
        library, CarryingPc, CallbackPc, UpInv, NeverCut, RunningHasRunner
<1>1. CASE start(t)
  BY <1>1 DEF start, Inv, CarriesWhenUp
<1>2. CASE CreateThread(t)
  BY <1>2 DEF CreateThread, Inv, NoStartInCallback
<1>3. CASE quit(t)
  BY <1>3 DEF quit
<1>4. CASE resetSession(t)
  BY <1>4 DEF resetSession, Inv, CarriesWhenUp
<1>5. CASE setReconnectDelay(t)
  BY <1>5 DEF setReconnectDelay
<1>6. CASE command(t)
  BY <1>6 DEF command
<1> QED
  BY <1>1, <1>2, <1>3, <1>4, <1>5, <1>6

LEMMA UpRunStep ==
  ASSUME MutexWorks = TRUE, TypeOK, Inv, UpInv, NEW w \in Workers, RunStep(w)
  PROVE  UpInv'
<1> USE DEF TypeOK, Threads, Go, object, library, CarryingPc, CallbackPc,
            UpInv, NeverCut, RunningHasRunner
\* A session is prepared while the flag is cleared and nobody carries one.
<1>1. CASE DestroyOld(w) \/ CreateSession(w) \/ ConnectStarts(w)
  <2>1. ~running /\ \A v \in Workers : pc[v] \notin CarryingPc
    BY <1>1 DEF DestroyOld, CreateSession, ConnectStarts, Inv,
                PreparesWhenDown, CarriesWhenUp, AttemptPc
  <2> QED
    BY <1>1, <2>1 DEF DestroyOld, CreateSession, ConnectStarts
<1>2. CASE SetRunning(w)
  <2>1. \A v \in Workers : pc[v] \notin CarryingPc
    BY <1>2 DEF SetRunning, Inv, PreparesWhenDown, CarriesWhenUp, AttemptPc
  <2> QED
    BY <1>2, <2>1 DEF SetRunning
<1>3. CASE EnterIrcRun(w)
  BY <1>3 DEF EnterIrcRun
<1>4. CASE ClearRunning(w)
  BY <1>4 DEF ClearRunning
<1>5. CASE RunEnds(w)
  BY <1>5 DEF RunEnds, InIrcRun, Inv, RunnerArgument
<1>6. CASE BeginCallback(w)
  BY <1>6 DEF BeginCallback
<1>7. CASE on_connect(w) \/ on_throttled(w) \/ getNick(w)
  BY <1>7 DEF on_connect, on_throttled, getNick
<1>8. CASE LoopTest(w) \/ AcquireInner(w) \/ SleepDelay(w) \/ CheckRunning(w)
  BY <1>8 DEF LoopTest, AcquireInner, SleepDelay, CheckRunning
<1>9. CASE ConnectFails(w) \/ SleepRetry(w) \/ Report(w)
  BY <1>9 DEF ConnectFails, SleepRetry, Report
<1> QED
  BY <1>1, <1>2, <1>3, <1>4, <1>5, <1>6, <1>7, <1>8, <1>9 DEF RunStep

LEMMA UpNetwork ==
  ASSUME TypeOK, Inv, UpInv, NEW w \in Workers, Network(w)
  PROVE  UpInv'
<1> USE DEF TypeOK, Threads, Go, object, library, InIrcRun, CarryingPc,
            CallbackPc, UpInv, NeverCut, RunningHasRunner
<1>1. CASE Established(w)
  BY <1>1 DEF Established, Inv, RunnerArgument
<1>2. CASE Receive(w) \/ Write(w)
  BY <1>2 DEF Receive, Write
<1>3. CASE RunFails(w)
  <2>1. \A v \in Workers \ {w} : pc[v] \notin CarryingPc
    BY <1>3 DEF RunFails, Inv, OneRunner
  <2> QED
    BY <1>3, <2>1 DEF RunFails
<1>4. CASE NextLine(w) \/ LastLine(w)
  BY <1>4 DEF NextLine, LastLine
<1> QED
  BY <1>1, <1>2, <1>3, <1>4 DEF Network

LEMMA UpStutter == UpInv /\ UNCHANGED vars => UpInv'
BY DEF vars, object, library, UpInv, NeverCut, RunningHasRunner

\* isRunning() is true only while a thread carries the connection, in every
\* program that ends it by quit() or not at all.  With disconnect() it is not:
\* irc_run then returns without an error and nobody clears the flag.
THEOREM RunningHasRunnerCorrect ==
  ASSUME MutexWorks = TRUE, "disconnect" \notin Calls
  PROVE  Spec => []RunningHasRunner
<1>1. TypeOK /\ Inv /\ UpInv /\ [Next]_vars => UpInv'
  <2>1. \A t \in Threads : ~disconnect(t)
    BY DEF disconnect, MayCall
  <2> QED
    BY <2>1, UpMethod, UpRunStep, UpNetwork, UpStutter DEF Next, Method
<1>2. UpInv => RunningHasRunner
  BY DEF UpInv
<1> QED
  BY UpInit, <1>1, <1>2, TypeCorrect, InvCorrect, PTL DEF Spec

----------------------------------------------------------------------------
(* A fact about single steps.                                              *)

LEMMA SessionStableStep ==
  ASSUME TypeOK, Inv, [Next]_vars, running
  PROVE  session' = session
<1> USE DEF object, library, Inv, PreparesWhenDown, AttemptPc
<1>1. ASSUME NEW t \in Threads, Method(t)
      PROVE  session' = session
  BY <1>1 DEF Method, start, CreateThread, quit, disconnect, resetSession,
              setReconnectDelay, command
<1>2. ASSUME NEW w \in Workers, RunStep(w)
      PROVE  session' = session
  BY <1>2 DEF RunStep, LoopTest, AcquireInner, SleepDelay, CheckRunning,
              DestroyOld, CreateSession, ConnectStarts, ConnectFails,
              SleepRetry, SetRunning, EnterIrcRun, ClearRunning, Report,
              RunEnds, BeginCallback, on_connect, on_throttled, getNick
<1>3. ASSUME NEW w \in Workers, Network(w)
      PROVE  session' = session
  BY <1>3 DEF Network, Established, Receive, Write, RunFails, NextLine,
              LastLine
<1> QED
  BY <1>1, <1>2, <1>3 DEF Next, vars

\* While the connection runs, no step of any thread moves _session.
THEOREM SessionStableCorrect ==
  ASSUME MutexWorks = TRUE
  PROVE  Spec => SessionStable
<1>1. TypeOK /\ Inv /\ [Next]_vars => [running => session' = session]_vars
  BY SessionStableStep
<1> QED
  BY <1>1, TypeCorrect, InvCorrect, PTL DEF Spec, SessionStable

----------------------------------------------------------------------------
(* The refinement.                                                         *)

Connection == IF running THEN session ELSE None

LEMMA ServiceInit == Init => Service!Init
BY ThreadsAssumption
   DEF ThreadsAssumption, Init, Service!Init, Carrying, InCallback, Threads,
       CarryingPc, CallbackPc

\* Who carries and who is called back, when the invariant holds.
LEMMA Roles ==
  ASSUME TypeOK, Inv, NEW w \in Workers
  PROVE  /\ pc[w] \in CarryingPc => Carrying = {w}
         /\ pc[w] \in CallbackPc => InCallback = {w}
         /\ pc[w] \in CarryingPc \ CallbackPc => InCallback = {}
         /\ ~running => Carrying = {} /\ InCallback = {}
BY DEF Inv, OneRunner, CarriesWhenUp, Carrying, InCallback, CarryingPc,
       CallbackPc

\* A step that keeps every thread in its role and the flag and the session
\* as they are is invisible.
LEMMA Invisible ==
  ASSUME TypeOK, UNCHANGED <<session, running>>,
         \A w \in Workers : /\ pc'[w] \in CarryingPc <=> pc[w] \in CarryingPc
                            /\ pc'[w] \in CallbackPc <=> pc[w] \in CallbackPc
  PROVE  UNCHANGED Service!serviceVars
BY DEF Service!serviceVars, Carrying, InCallback

LEMMA MethodInvisible ==
  ASSUME MutexWorks = TRUE, TypeOK, Inv, NEW t \in Threads, Method(t)
  PROVE  UNCHANGED Service!serviceVars
<1> USE ThreadsAssumption
    DEF ThreadsAssumption, TypeOK, Threads, MayCall, Home, Go, object,
        CarryingPc, CallbackPc
<1>1. CASE start(t)
  BY <1>1, Invisible DEF start, Inv, CarriesWhenUp
<1>2. CASE CreateThread(t)
  BY <1>2, Invisible DEF CreateThread, Inv, NoStartInCallback
<1>3. CASE quit(t)
  BY <1>3, Invisible DEF quit
<1>4. CASE disconnect(t)
  BY <1>4, Invisible DEF disconnect
<1>5. CASE resetSession(t)
  BY <1>5 DEF resetSession, Service!serviceVars, Carrying, InCallback
<1>6. CASE setReconnectDelay(t)
  BY <1>6, Invisible DEF setReconnectDelay
<1>7. CASE command(t)
  BY <1>7, Invisible DEF command
<1> QED
  BY <1>1, <1>2, <1>3, <1>4, <1>5, <1>6, <1>7 DEF Method

\* The steps of run() that neither start nor end a connection or a callback.
LEMMA QuietStep ==
  ASSUME MutexWorks = TRUE, TypeOK, Inv, NEW w \in Workers,
         \/ LoopTest(w) \/ AcquireInner(w) \/ SleepDelay(w)
         \/ CheckRunning(w) \/ ConnectStarts(w) \/ ConnectFails(w)
         \/ SleepRetry(w) \/ EnterIrcRun(w) \/ Report(w)
         \/ on_connect(w) \/ on_throttled(w) \/ getNick(w)
         \/ Established(w) \/ Receive(w) \/ Write(w) \/ RunFails(w)
  PROVE  UNCHANGED Service!serviceVars
<1> USE DEF TypeOK, Threads, Go, object, CarryingPc, CallbackPc
<1>1. CASE LoopTest(w) \/ AcquireInner(w) \/ SleepDelay(w) \/ CheckRunning(w)
  BY <1>1, Invisible DEF LoopTest, AcquireInner, SleepDelay, CheckRunning
<1>2. CASE ConnectStarts(w) \/ ConnectFails(w) \/ SleepRetry(w)
  BY <1>2, Invisible DEF ConnectStarts, ConnectFails, SleepRetry
<1>3. CASE EnterIrcRun(w) \/ Report(w)
  BY <1>3, Invisible DEF EnterIrcRun, Report
<1>4. CASE on_connect(w) \/ on_throttled(w) \/ getNick(w)
  BY <1>4, Invisible DEF on_connect, on_throttled, getNick, Inv, CarriesWhenUp
<1>5. CASE Established(w) \/ Receive(w) \/ Write(w) \/ RunFails(w)
  BY <1>5, Invisible DEF Established, Receive, Write, RunFails, InIrcRun
<1> QED
  BY <1>1, <1>2, <1>3, <1>4, <1>5

\* A session that is made or given up while the object is down is no
\* connection yet, or no longer one.
LEMMA PreparationInvisible ==
  ASSUME TypeOK, Inv, NEW w \in Workers, DestroyOld(w) \/ CreateSession(w)
  PROVE  UNCHANGED Service!serviceVars
<1>1. ~running /\ ~running'
  BY DEF DestroyOld, CreateSession, Inv, PreparesWhenDown
<1>2. Carrying' = Carrying /\ InCallback' = InCallback
  BY DEF DestroyOld, CreateSession, Go, TypeOK, Threads, Carrying, InCallback,
         CarryingPc, CallbackPc
<1> QED
  BY <1>1, <1>2 DEF Service!serviceVars

LEMMA SetRunningCarries ==
  ASSUME TypeOK, Inv, NEW w \in Workers, SetRunning(w)
  PROVE  Service!Carry(w)
<1>1. ~running /\ session \in Sessions
  BY DEF SetRunning, Inv, PreparesWhenDown, AttemptSession, AttemptPc, Alive
<1>2. Carrying = {} /\ InCallback = {}
  BY <1>1, Roles
<1>3. pc' = [pc EXCEPT ![w] = "enter"]
  BY DEF SetRunning, Go
<1>4. Carrying' = {w} /\ InCallback' = {}
  BY <1>2, <1>3 DEF TypeOK, Threads, Carrying, InCallback, CarryingPc,
                    CallbackPc
<1> QED
  BY <1>1, <1>2, <1>4 DEF SetRunning, Service!Carry

LEMMA ClearRunningDrops ==
  ASSUME TypeOK, Inv, NEW w \in Workers, ClearRunning(w)
  PROVE  Service!Drop(w)
<1>1. pc[w] = "failed" /\ pc' = [pc EXCEPT ![w] = "report"] /\ ~running'
  BY DEF ClearRunning, Go
<1>2. Carrying = {w} /\ InCallback = {}
  BY <1>1, Roles DEF CarryingPc, CallbackPc
<1>3. Carrying' = {} /\ InCallback' = {}
  BY <1>1, <1>2 DEF TypeOK, Threads, Carrying, InCallback, CarryingPc,
                    CallbackPc
<1> QED
  BY <1>1, <1>2, <1>3 DEF Service!Drop, Service!Leave

LEMMA RunEndsAbandons ==
  ASSUME TypeOK, Inv, NEW w \in Workers, RunEnds(w)
  PROVE  Service!Abandon(w) \/ UNCHANGED Service!serviceVars
<1> USE DEF Go, TypeOK, Threads, object, CarryingPc, CallbackPc
<1>1. pc[w] = "irc_run" /\ UNCHANGED <<session, running>>
  BY DEF RunEnds, InIrcRun
<1>2. Carrying = {w} /\ InCallback = {}
  BY <1>1, Roles
<1>3. CASE Go(w, "failed")
  BY <1>1, <1>3, Invisible
<1>4. CASE Go(w, "loop")
  <2>1. Carrying' = {} /\ InCallback' = {}
    BY <1>2, <1>4 DEF Carrying, InCallback
  <2> QED
    BY <1>1, <1>2, <2>1 DEF Service!Abandon, Service!Leave
<1> QED
  BY <1>3, <1>4 DEF RunEnds

LEMMA BeginCallbackUpcalls ==
  ASSUME MutexWorks = TRUE, TypeOK, Inv, NEW w \in Workers, BeginCallback(w)
  PROVE  Service!BeginUpcall(w)
<1>1. /\ pc[w] = "lines"
      /\ UNCHANGED <<session, running>>
      /\ \E h \in CallbackPc : pc' = [pc EXCEPT ![w] = h]
  BY DEF BeginCallback, Go, object
<1>2. running /\ session \in Sessions
  BY <1>1 DEF Inv, CarriesWhenUp, CommandSessionAlive, CarryingPc, Alive
<1>3. Carrying = {w} /\ InCallback = {}
  BY <1>1, Roles DEF CarryingPc, CallbackPc
<1>4. Carrying' = {w} /\ InCallback' = {w}
  BY <1>1, <1>3 DEF TypeOK, Threads, Carrying, InCallback, CarryingPc,
                    CallbackPc
<1> QED
  BY <1>1, <1>2, <1>3, <1>4, ThreadsAssumption
     DEF ThreadsAssumption, Service!BeginUpcall

LEMMA LineEndsUpcall ==
  ASSUME TypeOK, Inv, NEW w \in Workers, NextLine(w) \/ LastLine(w)
  PROVE  Service!EndUpcall(w)
<1>1. /\ pc[w] = "body"
      /\ UNCHANGED <<session, running>>
      /\ \E h \in {"lines", "irc_run"} : pc' = [pc EXCEPT ![w] = h]
  BY DEF NextLine, LastLine, Go, object
<1>2. Carrying = {w} /\ InCallback = {w}
  BY <1>1, Roles DEF CarryingPc, CallbackPc
<1>3. Carrying' = {w} /\ InCallback' = {}
  BY <1>1, <1>2 DEF TypeOK, Threads, Carrying, InCallback, CarryingPc,
                    CallbackPc
<1> QED
  BY <1>1, <1>2, <1>3 DEF Service!EndUpcall

LEMMA StepImplementsService ==
  ASSUME MutexWorks = TRUE, TypeOK, Inv, [Next]_vars
  PROVE  [Service!Next]_(Service!serviceVars)
<1>1. CASE UNCHANGED vars
  BY <1>1 DEF vars, object, Service!serviceVars, Carrying, InCallback
<1>2. ASSUME NEW t \in Threads, Method(t)
      PROVE  [Service!Next]_(Service!serviceVars)
  BY <1>2, MethodInvisible
<1>3. ASSUME NEW w \in Workers, RunStep(w)
      PROVE  [Service!Next]_(Service!serviceVars)
  <2>1. CASE SetRunning(w)
    BY <2>1, SetRunningCarries DEF Service!Next
  <2>2. CASE ClearRunning(w)
    BY <2>2, ClearRunningDrops DEF Service!Next
  <2>3. CASE RunEnds(w)
    BY <2>3, RunEndsAbandons DEF Service!Next
  <2>4. CASE BeginCallback(w)
    BY <2>4, BeginCallbackUpcalls DEF Service!Next
  <2>5. CASE DestroyOld(w) \/ CreateSession(w)
    BY <2>5, PreparationInvisible
  <2> QED
    BY <1>3, <2>1, <2>2, <2>3, <2>4, <2>5, QuietStep DEF RunStep
<1>4. ASSUME NEW w \in Workers, Network(w)
      PROVE  [Service!Next]_(Service!serviceVars)
  <2>1. CASE NextLine(w) \/ LastLine(w)
    BY <2>1, LineEndsUpcall DEF Service!Next
  <2> QED
    BY <1>4, <2>1, QuietStep DEF Network
<1> QED
  BY <1>1, <1>2, <1>3, <1>4 DEF Next

\* The threads, locks and sessions of IrcConnection implement a service with
\* one carrier, one connection from start to end and updates from the carrier.
THEOREM ServiceImplemented ==
  ASSUME MutexWorks = TRUE
  PROVE  Spec => ImplementsService
<1>1. TypeOK /\ Inv /\ [Next]_vars => [Service!Next]_(Service!serviceVars)
  BY StepImplementsService
<1> QED
  BY <1>1, ServiceInit, TypeCorrect, InvCorrect, PTL
     DEF Spec, Service!Spec, ImplementsService
=============================================================================
