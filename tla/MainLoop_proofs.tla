--------------------------- MODULE MainLoop_proofs ---------------------------
(***************************************************************************)
(* Theorems about the main loop, for every number of threads and sessions  *)
(* and every MaxCount; and that the program, main loop and bot together,   *)
(* uses the connection in a way IrcConnection allows, so that what is      *)
(* proved there holds in the program too.                                  *)
(***************************************************************************)
EXTENDS MainLoop, IrcConnection_proofs

\* The counter never runs ahead of the cycles in which the bot ran, and starts
\* again when a message is due.
CountInv ==
  /\ MainTypeOK
  /\ message_counter <= seen
  /\ at = "message" => message_counter = 0 /\ seen = MaxCount

LEMMA CountInit == MainInit => CountInv
BY MainAssumption DEF MainAssumption, MainInit, CountInv, MainTypeOK

LEMMA CountMainStep ==
  ASSUME CountInv, MainStep
  PROVE  CountInv'
<1> USE MainAssumption DEF MainAssumption, CountInv, MainTypeOK
<1>1. CASE Idle
  BY <1>1 DEF Idle
<1>2. CASE Counting
  BY <1>2 DEF Counting
<1>3. CASE StartBot
  BY <1>3 DEF StartBot
<1>4. CASE CreateBotThread
  BY <1>4 DEF CreateBotThread
<1>5. CASE SendUptime
  BY <1>5 DEF SendUptime
<1>6. CASE SleepCycle
  BY <1>6 DEF SleepCycle
<1> QED
  BY <1>1, <1>2, <1>3, <1>4, <1>5, <1>6 DEF MainStep

LEMMA CountStep == CountInv /\ [MainNext]_allVars => CountInv'
<1> SUFFICES ASSUME CountInv, [MainNext]_allVars PROVE CountInv'
  OBVIOUS
<1>1. CASE MainStep
  BY <1>1, CountMainStep
<1>2. CASE UNCHANGED mainVars
  BY <1>2 DEF mainVars, CountInv, MainTypeOK
<1> QED
  BY <1>1, <1>2 DEF MainNext, allVars

\* The counters of main() keep their ranges, whatever the connection does.
THEOREM MainTypeCorrect == MainSpec => []MainTypeOK
<1>1. CountInv => MainTypeOK
  BY DEF CountInv
<1> QED
  BY CountInit, CountStep, <1>1, PTL DEF MainSpec

\* Every uptime message comes after MaxCount cycles in which the bot ran,
\* counted from the last message or restart (main.cpp 43-54).
THEOREM MessageDueCorrect == MainSpec => []MessageDue
<1>1. CountInv => MessageDue
  BY DEF CountInv, MessageDue
<1> QED
  BY CountInit, CountStep, <1>1, PTL DEF MainSpec

----------------------------------------------------------------------------
(* The connection under main() and the bot                                 *)

\* What main() does to the connection.
LEMMA MainStepCalls ==
  ASSUME MainStep
  PROVE  \/ start(Main) \/ CreateThread(Main) \/ command(Main)
         \/ UNCHANGED vars
BY DEF MainStep, Idle, Counting, StartBot, CreateBotThread, SendUptime,
       SleepCycle

\* Steps of main() and of the bot are calls that any program may make.
LEMMA CallIsMethod ==
  ASSUME NEW t \in Threads,
         start(t) \/ CreateThread(t) \/ command(t) \/ quit(t)
  PROVE  Method(t)
BY DEF Method

LEMMA ProgramThreads == Main \in Threads /\ Workers \subseteq Threads
BY MainAssumption DEF MainAssumption, Threads

LEMMA ProgramStep ==
  ASSUME [MainNext]_allVars
  PROVE  \/ \E t \in Threads :
              start(t) \/ CreateThread(t) \/ command(t) \/ quit(t)
         \/ \E w \in Workers : RunStep(w) \/ Network(w)
         \/ UNCHANGED vars
<1>1. CASE MainStep
  BY <1>1, MainStepCalls, ProgramThreads
<1>2. ASSUME NEW w \in Workers, BotStep(w)
      PROVE  \E t \in Threads : command(t) \/ quit(t)
  BY <1>2, ProgramThreads DEF BotStep
<1>3. CASE UNCHANGED allVars
  BY <1>3 DEF allVars
<1> QED
  BY <1>1, <1>2, <1>3 DEF MainNext

\* main() and SimpleBot call the connection only as IrcConnection lets any
\* program do: every behaviour of the program is one of IrcConnection.
THEOREM ProgramUsesConnection == MainSpec => Spec
<1>1. MainInit => Init
  BY DEF MainInit
<1>2. [MainNext]_allVars => [Next]_vars
  BY ProgramStep, CallIsMethod DEF Next
<1> QED
  BY <1>1, <1>2, PTL DEF MainSpec, Spec

\* In the program, as long as the mutexes work, one thread carries the
\* connection however often main() starts the bot, and no callback works on a
\* session that is gone.
THEOREM ProgramOneRunner ==
  ASSUME MutexWorks = TRUE
  PROVE  MainSpec => [](OneRunner /\ RunnerSessionAlive)
BY ProgramUsesConnection, OneRunnerCorrect, RunnerSessionAliveCorrect, PTL

\* Hence the program is a client of the service too.
THEOREM ProgramImplementsService ==
  ASSUME MutexWorks = TRUE
  PROVE  MainSpec => ImplementsService
BY ProgramUsesConnection, ServiceImplemented, PTL

\* When main() finds isRunning() true (main.cpp 43), a thread carries the bot: no
\* step of the program is a disconnect(), so no connection is cut without the
\* flag being cleared, whatever calls the class would allow.
THEOREM ProgramRunningHasRunner ==
  ASSUME MutexWorks = TRUE
  PROVE  MainSpec => []RunningHasRunner
<1>1. MainInit => UpInv
  BY UpInit DEF MainInit
<1>2. TypeOK /\ Inv /\ UpInv /\ [MainNext]_allVars => UpInv'
  BY ProgramStep, UpMethod, UpRunStep, UpNetwork, UpStutter
<1>3. UpInv => RunningHasRunner
  BY DEF UpInv
<1> QED
  BY <1>1, <1>2, <1>3, ProgramUsesConnection, TypeCorrect, InvCorrect, PTL
     DEF MainSpec
=============================================================================
