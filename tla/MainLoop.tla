------------------------------ MODULE MainLoop ------------------------------
(***************************************************************************)
(* main() (source/main.cpp) driving the connection of a SimpleBot: every   *)
(* cycle it asks whether the bot runs, starts it again if not, and every   *)
(* MaxCount cycles in which it ran it boasts of it in the channel.         *)
(*                                                                         *)
(* The module composes the loop with IrcConnection: main is the only user  *)
(* thread, the callbacks of the bot send messages and, on "?quit", quit.   *)
(***************************************************************************)
EXTENDS IrcConnection

CONSTANTS
  Main,     \* the thread of main()
  MaxCount  \* maxCount, cycle_length / sleep_cycle

ASSUME MainAssumption ==
  /\ Users = {Main}
  /\ MaxCount \in Nat \ {0}

VARIABLES
  at,               \* where main() is in its loop
  message_counter,  \* cycles counted towards the next message
  seen              \* cycles, up to MaxCount, in which the bot ran since the
                    \* last message or start

mainVars == <<at, message_counter, seen>>
allVars == <<vars, mainVars>>

MainInit ==
  /\ Init
  /\ at = "test"
  /\ message_counter = 0
  /\ seen = 0

\* Mutant: a restart does not take the count back.
Idle_KeepsCount ==
  /\ at = "test"
  /\ Free(inner)
  /\ ~running
  /\ seen' = 0
  /\ at' = "start"
  /\ UNCHANGED <<vars, message_counter>>

\* isRunning() waits for the lock.
Idle ==
  /\ at = "test"
  /\ Free(inner)
  /\ ~running
  /\ message_counter' = 0
  /\ seen' = 0
  /\ at' = "start"
  /\ UNCHANGED vars

\* Mutant: the count runs one cycle too far.
Counting_OffByOne ==
  /\ at = "test"
  /\ Free(inner)
  /\ running
  /\ seen' = IF seen < MaxCount THEN seen + 1 ELSE seen
  /\ IF message_counter + 1 > MaxCount
       THEN message_counter' = 0 /\ at' = "message"
       ELSE message_counter' = message_counter + 1 /\ at' = "sleep"
  /\ UNCHANGED vars

Counting ==
  /\ at = "test"
  /\ Free(inner)
  /\ running
  /\ seen' = IF seen < MaxCount THEN seen + 1 ELSE seen
  /\ IF message_counter + 1 >= MaxCount
       THEN /\ message_counter' = 0
            /\ at' = "message"
       ELSE /\ message_counter' = message_counter + 1
            /\ at' = "sleep"
  /\ UNCHANGED vars

\* Mutant: the bot is not started again once it has been started.
StartBot_Once ==
  /\ at = "start"
  /\ \/ ~trying /\ start(Main) /\ at' = "create"
     \/ Free(inner) /\ (running \/ trying) /\ at' = "sleep" /\ UNCHANGED vars
  /\ UNCHANGED <<message_counter, seen>>

\* start(): the bot may have come up since isRunning() was asked.
StartBot ==
  /\ at = "start"
  /\ \/ start(Main) /\ at' = "create"
     \/ Free(inner) /\ running /\ at' = "sleep" /\ UNCHANGED vars
  /\ UNCHANGED <<message_counter, seen>>

CreateBotThread ==
  /\ at = "create"
  /\ CreateThread(Main)
  /\ at' = "sleep"
  /\ UNCHANGED <<message_counter, seen>>

\* sendMessage: refused when the bot has gone down, or has no room.
SendUptime ==
  /\ at = "message"
  /\ \/ command(Main)
     \/ Free(inner) /\ ~(running /\ Sendable(session)) /\ UNCHANGED vars
  /\ seen' = 0
  /\ at' = "sleep"
  /\ UNCHANGED message_counter

SleepCycle ==
  /\ at = "sleep"
  /\ at' = "test"
  /\ UNCHANGED <<vars, message_counter, seen>>

MainStep ==
  \/ Idle \/ Counting \/ StartBot \/ CreateBotThread \/ SendUptime
  \/ SleepCycle

\* The callbacks of SimpleBot join and send messages, and quit on "?quit".
BotStep(w) == command(w) \/ quit(w)

MainNext ==
  \/ MainStep
  \/ \E w \in Workers :
       (RunStep(w) \/ Network(w) \/ BotStep(w)) /\ UNCHANGED mainVars

MainSpec == MainInit /\ [][MainNext]_allVars

\* The operating system does not refuse every thread.
ThreadCreated ==
  CreateBotThread /\ \E w \in Workers : pc[w] = "idle" /\ pc'[w] = "loop"

MainFairness ==
  /\ WF_allVars(MainStep)
  /\ SF_allVars(ThreadCreated)
  /\ \A w \in Workers : WF_allVars(RunStep(w) /\ UNCHANGED mainVars)

FairMainSpec == MainSpec /\ MainFairness

----------------------------------------------------------------------------

\* Types of the variables of the loop.
MainTypeOK ==
  /\ at \in {"test", "start", "create", "message", "sleep"}
  /\ message_counter \in 0..(MaxCount - 1)
  /\ seen \in 0..MaxCount

\* A message is due only after MaxCount cycles in which the bot ran, counted
\* from the last message or the last start: a restart between two messages
\* takes the count back (line 46).
MessageDue == at = "message" => seen = MaxCount

\* The bot comes back: whenever it does not run, it will, or another attempt
\* to connect is made, also after somebody told it to quit.
BotComesBack ==
  ~running ~> running \/ \E w \in Workers : pc[w] = "create"
=============================================================================
