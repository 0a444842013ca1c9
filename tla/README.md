# A verification development for ircmodulecpp

ircmodulecpp is a C++ class, `IrcConnection`, around the C library
libircclient, a bot that derives from it (`SimpleBot`) and a program that keeps
the bot connected (`main.cpp`).  The directory holds TLA+ models of it, the TLC
configurations that check them, and proofs for TLAPS.  Paths are relative to
`src/`; `cpp` and `h` are `source/irc/ircConnection.cpp` and `.h`.

## The system

| part | state | operations | talks to |
|---|---|---|---|
| life cycle of `IrcConnection` (cpp 215-361, h 37-364) | `_session`, `_running`, `_tryingToConnect`, `_reconectDelay`, the mutexes `_mutex` (outer) and `_innerMutex`; per execution of `run()`: its place, `retry_count` and the session `irc_run` was given | `start`, `stop`/`quit`, `disconnect`, `resetSession`, `setReconnectDelay`, `isRunning`, `doesReconnect`, `run` | creates a thread per `start`; calls libircclient; is called by the program and by its own callbacks |
| command methods (h 373-606) | none of their own | `join`, `sendMessage`, `kick`, ...: -1 unless `_running`, then one message | outgoing buffer of the session |
| server target (cpp 233-237, 253-254, 299-311, h 22-56) | `_serverInfo.server`, `_port`, options of the session | `setServerInfo`, `setPort`, `start(target)`, the parsing in `run()` | arguments of `irc_connect` |
| event dispatch (cpp 7-213, h 113-342) | none | one `irc_connection_event_*` per event: test the number of parameters, take the outer mutex, call the virtual `on_*` | called by `irc_run` on the thread of `run()` |
| locks (`source/util/threadHelper.h`) | owner | `MutexHandle`: acquire, release, release on return | Win32 or pthread mutexes |
| `SimpleBot` (`source/bots`) | none of its own | `on_connect` joins, `on_join` greets, `on_channel` answers and quits on `?quit` | command methods |
| main loop (`source/main.cpp`) | `message_counter`, `cycle_counter` | every 30 s: start the bot if it does not run, otherwise count and, each 30 counts, boast | `isRunning`, `start`, `sendMessage` |
| libircclient (headers in `lib/include`, a binary) | session: state, outgoing buffer | `irc_connect`, `irc_run`, `irc_send_raw`, `irc_disconnect`, `irc_destroy_session` | the IRC server |
| censor (`source/examples/censor.cpp`) | a count per nick | `event_channel` counts, warns, kicks; `event_nick` moves the count | libircclient directly |
| spammer (`spammer.c`) | three threads | `event_join` greets others, starts the threads on its own join | libircclient directly, from four threads |
| irctest, ircftp, colors | files being received (irctest) | `event_*` handlers that answer; DCC callbacks | libircclient directly |
| their `main` functions | `port`, options of the session | command line, `irc_connect`, `irc_run` | libircclient |

What makes it correct, and what is hard about it:

* **Life cycle.**  `start()` may be called while an earlier `run()` is still in
  its retries, so several threads execute `run()`.  One of them only may carry
  the connection; a session must not be freed under `irc_run`, a callback or a
  command, nor lost on a reconnect; nobody but the carrier may declare the
  connection down.  `run()` sleeps and connects with the inner mutex held and
  uses `_session` without it; `irc_run` may return 0 or 1; a QUIT may be
  refused; a thread may not be created.
* **Target.**  `run()` changes the server string and the port in place, so what
  the user asked for has to survive any number of reconnects.
* **Main loop.**  It races with the threads it started: a test of `isRunning()`
  is stale when `start()` is called.
* **Dispatch.**  Events with an optional parameter or the origin left out, which
  a wrapper drops or reads past; overrides that must call their parent.
* **Bots in one channel.**  Programs that answer each other without end, when
  nobody speaks to them any more.
* **Censor.**  The count has to follow a nick through changes; between the
  decision to kick and the kick somebody may change, leave or take the nick.
* **Received files.**  All transfers go to one file name; a transfer may fail,
  run next to another, or never be accepted.
* **Start of the examples.**  Five copies of one `main`, that differ in small
  things, such as a variable without a value.

`PROJECT.json` lists each hazard with its line and the properties for it.

## Modules

| module | models | checked with |
|---|---|---|
| `ConnectionService` | the abstract specification: at most one carrier, one connection from start to end, updates from the carrier, one at a time | refined by `IrcConnection` |
| `IrcConnection` | the life cycle, the locks and the commands | `MCIrcConnection` |
| `IrcConnection_proofs` | theorems about it, and that it implements `ConnectionService` | tlapm |
| `ServerTarget` | server string, port and options | itself |
| `ServerTarget_proofs` | theorems about it | tlapm |
| `MainLoop` | `main()` composed with `IrcConnection` | `MCMainLoop` |
| `MainLoop_proofs` | theorems about it, and that it uses `IrcConnection` as specified | tlapm |
| `Dispatch` | the wrappers `irc_connection_event_*` and what a derived class can know of the channel | `MCPrograms` |
| `Dispatch_proofs` | theorems about it | tlapm |
| `Channel` | SimpleBot and the examples answering each other in a channel | `MCPrograms` |
| `Channel_proofs` | theorems about it | tlapm |
| `Censor` | the censor, its visitors and the server between them | `MCPrograms` |
| `Censor_proofs` | theorems about it | tlapm |
| `DccFiles` | the files irctest receives | `MCPrograms` |
| `DccFiles_proofs` | theorems about it | tlapm |
| `Startup` | the five `main` functions of the examples | `MCPrograms` |
| `Startup_proofs` | theorems about it | tlapm |

`MCPrograms` puts the five small machines side by side: the first step chooses
one, which then moves alone.  They share no variable; one run checks them all.

### IrcConnection

`pc[t]` is the place of a thread: a user thread is at `"user"`; a worker is a
thread that `start()` may create, `"idle"` before and after its execution of
`run()`.  Users and workers call the public methods, a worker from the body of
an `on_*` method (`"body"`).  A method that holds `_innerMutex` from first to
last statement is one action, enabled when the mutex is free.  An early return
that changes nothing has no action (it would be a stutter).

| variable | code |
|---|---|
| `inner`, `outer` | owners of `_innerMutex`, `_mutex` (only an owner that keeps it beyond its step is recorded) |
| `session`, `running`, `trying`, `delay` | `_session`, `_running`, `_tryingToConnect`, `_reconectDelay` |
| `retry[w]` | `retry_count` |
| `arg[w]` | the argument of the `irc_run` that `w` executes |
| `status`, `pending`, `quitSent` | the library's session: state, messages in the outgoing buffer, whether a QUIT is in its stream |

`run()` is cut where another thread can see or disturb it: `LoopTest` (cpp 268)
-> `AcquireInner` (270) -> `SleepDelay` (271-278) -> `CheckRunning` (279) ->
`DestroyOld` (282) -> `CreateSession` (288) -> `ConnectStarts` or
`ConnectFails`/`SleepRetry` (317-339) -> `SetRunning` (340-341) ->
`EnterIrcRun` (342) -> `ClearRunning` (344-346) -> `Report` (347) -> the loop.
Steps under `_innerMutex` are kept apart although they cannot be interleaved,
so that the model stays meaningful when the mutex does not work.

`irc_run` is external: a session connects, receives lines, writes, or ends.
Each line is one callback: `BeginCallback` takes `_mutex`, then `on_connect` sets
`_running`, or `on_throttled` (the branch of `on_unknown` for a throttled host)
sets the delay to 60, or the wrapper asks `getNick`, which needs `_innerMutex`,
or it does none of these; the body may call any method, and
`NextLine`/`LastLine` release `_mutex`.

`MutexWorks` is the outcome of an undefined behaviour: no constructor creates
the two mutexes (`DEFINE_MUTEX` is used nowhere).  A zeroed pthread mutex works
(`TRUE`); a handle that is no mutex makes the wait fail at once, its result is
ignored, and no lock excludes anything (`FALSE`).

### ServerTarget

A server string is its number of leading `#` and whether it has a `:port`.
`phase` is the place of the one execution of `run()`; `configured` is the
target as the program set it and `dialed` what the last `irc_connect` since
then was given.  `CreateSession` may fail, which ends `run()`.  `start` does not
ask whether a server was ever set: without one `strchr` is given `NULL` (cpp 300)
and the program crashes (`SearchesNothing`).  In `Spec` the setters are called
while no `run()` exists, as in `main.cpp`.  In `RacingSpec` they are called
whenever their test of `_running`, made without the lock, lets them
(`NotRunning`): also while `run()` prepares a connection.

### MainLoop

`at` is the place of `main()`; `Idle`, `Counting`, `StartBot`,
`CreateBotThread`, `SendUptime` and `SleepCycle` are the statements of the
loop, built from the actions of `IrcConnection` with `Main` as the only user
thread.  The callbacks of the bot send and quit.  `cycle_counter` and the text
of the message are left out: only the text depends on them.  `seen` is not in
the code: it counts independently the cycles in which the bot ran.

### Dispatch

An event is its name, the nick of its origin (`NoNick`: the origin is unknown)
and its number of parameters `n`.  `Delivered(e)` is what libirc_events.h says of
that number: optional ones are there or not, of a connect none are documented,
of an unknown line or a numeric any.  `Reaches` is the test of the wrapper, split
by how it tests (`ChannelEventCount`, `MessageCount`: equal; `LeastCount`: at
least; the others: none; the one of channel also asks for an origin, cpp 108),
`Reads` what it reads by position, `BaseHandler` what the handler of
`IrcConnection` does, `CallsParent` whether SimpleBot comes to it.  `Examples`
holds the same for the examples, whose handlers get the parameters without a
wrapper.

| variable | stands for |
|---|---|
| `myNick` | the nick the server gave the bot |
| `members` | who is in the channel, once the bot is; others may be there before it |
| `met` | those of them who came, or changed the nick, while the bot was there, in an event with an origin |
| `view` | who a class that keeps the nicks of its `on_*` calls believes is there |
| `silent` | nicks given up in an event that did not name them, or not its reason |
| `lost`, `bare` | what handlers of `IrcConnection` should have done and did not; a connect had no parameter |
| `overread` | who read a parameter that the last event did not have |

Only `myNick` and `view` are known to a bot: the others are what the code is
compared with.  The event at the server and its callback are one step, since the
callbacks of a connection run in order on one thread (`OneRunner`) and nothing
else changes `view`.  That SimpleBot compares senders with the nick it asked for
(simpleBot.cpp 16, 31) and not with the one it has is not a property: no text of
the repository says that the two agree.

### Channel

`box[c]` is the outgoing buffer of a client; `Relay` takes its first line and
runs the handler of every client that hears it, which fills their buffers
(`Put`: what does not fit is refused, and no handler looks at the result).  A
text is the keyword the handlers look for in it; after "testme" another follows,
which colors repeats alone (colors.cpp 74-79) and in which SimpleBot finds what it
looks for (`Found`).  irctest queues four lines for "ctcp" (irctest.c 201-204).
`cast` says which program a client runs; a person says any text the programs look
for, and `cued` remembers a "Cue".  `hush` is the moment from which people say and
do nothing more.  A spammer's threads are a
number; starting them may fail at any of the three, and each ends when its
message is refused.  A client enters once: none of the programs reconnects by
itself, and SimpleBot, which `main()` reconnects, is started again by `MainLoop`.

### Censor

`insolents` is the table of the code (0: no entry).  `events` is what the
server has sent and the censor has not handled, `kicks` what it has sent and
the server has not done; `Kick` may be refused by a full outgoing buffer, which
the code does not look at (censor.cpp 126), and `refused` remembers for whom.  A
visitor is one person from entering to leaving;
`carriers`, `offences`, `inherits`, `moved` and `kicked` record what really
happened.

### DccFiles

`file` is the one file named `file` on the disk, a place per piece; a transfer
has a FILE with its own position and buffer, so `got` pieces are in the FILE and
`written` of them on the disk.  `irc_event_dcc_send` truncates the file and then
accepts or fails to; `dcc_file_recv_callback` is the last callback, with success
or an error; `Piece` is the ones before it.  `disturbed` remembers the transfers
that overlapped another: that were running, or over, when the file was opened
again, and that were opened while another ran.

### Startup

`Main(p)` is what the five `main` functions differ in: the options, the first value of `port`, the last `return`.  The rest is one
machine: `Begin`, `Create`, `PortInServer`, `Prefix`, `Connect`, `RunReturns`.

## Runs

| run | asks | result |
|---|---|---|
| `IrcConnectionSafety` | eight invariants, an action property and the refinement of `ConnectionService`, all methods | holds |
| `IrcConnectionLiveness` | is the lock given back, do the threads end that are superfluous, beside a live connection and without one | holds under `FairSpec` |
| `MainLoop` | is the boast due, does the bot come back | holds under `FairMainSpec` |
| `ServerTarget` | SSL, verification and port over reconnects | holds |
| `Programs` | the fifteen invariants and three liveness properties of the five small machines | holds |
| `DisconnectZombie` | `_running` means that a thread carries the connection | violated |
| `StopLost` | a stopped connection ends | violated |
| `ReportAfterReset` | the error report reads a live session | violated |
| `AttemptAfterStop` | attempts only while `doesReconnect()` | violated |
| `MutexUninitialised` | one update at a time, with handles that are no mutexes | violated |
| `NoVerifyLost` | every attempt follows `##` | violated |
| `TargetRace` | a port in the server string is used, with `setServerInfo()` at any time | violated |

What `Programs` shows:

* *Dispatch.*  Nobody who comes, or takes another nick, while the bot is there is
  unknown to a class that keeps the nicks it is told of (`ViewComplete`); whom it
  keeps too long went in an event that did not name an origin, or by a QUIT or a
  KICK without its optional parameters, which the wrappers drop (cpp 40, 86;
  `ViewStale`).  Parameters that are not there are read in five places and no
  other (`ReadsWithin`): cpp 103, and in the examples spammer.c 108 and 140,
  colors.cpp 59, irctest.c 114.  SimpleBot loses nothing of `on_connect` and
  `on_unknown` (`ParentCalled`), unless a connect comes without parameters, as
  libirc_events.h 156 has it: the wrapper then drops it (cpp 21).  What the library
  really sends is in its binary.
* *Channel.*  Only people bring up "Cue", the word to which SimpleBot answers with
  itself (`OnlyPeopleCue`; simpleBot.cpp 35-38).  One SimpleBot or one colors, with
  irctests and ircftps, falls silent when people do (`LoneAnswererSettles`);
  SimpleBots do so too, next to irctests, ircftps and spammers, unless somebody
  has said "Cue" (`HalloSettles`).  The conditions are needed: after a "Cue" two
  SimpleBots, or a SimpleBot and a colors, which repeats everything (colors.cpp
  59-65), never stop, nor do two colors after anything.  A spammer goes on by
  itself (spammer.c 67-73), so the first property is about channels without one
  and the second leaves its own lines out.
* *Censor.*  A count follows its offender through all changes of nick
  (`CountFollows`), nobody is kicked for less than three offences
  (`NoUndeservedKick`), and an offender who keeps the nick is kicked, unless the
  KICK was refused (`OffenderKicked`).  All three except visitors who took a nick
  that somebody else had carried (`inherits`): such a visitor does inherit the
  count, because the censor is not told who leaves, and a count that arrives at a
  nick replaces the one that was there (censor.cpp 78).
* *DccFiles.*  A transfer that ended well and overlapped no other (none ran when it
  began, none has opened the file since) is in the file without a remainder of
  another one (`TransferIntact`).  Of transfers that overlap nothing is claimed:
  they write into one file (irctest.c 250).  A FILE is lost only by an offer that
  could not be accepted (`FilesAccounted`).
* *Startup.*  Every example dials what the command line says (`DialsAsMeant`),
  except irctest without a port, whose `port` has no value (irctest.c 270).

What the violations show, each against a line of the repository:

* `DisconnectZombie`: `disconnect()` makes the loop of `irc_run` end with 0, and
  cpp 342 clears `_running` only for an error.  `start()` then returns 1 for ever
  (h 58), and `main()` counts cycles of a bot that is gone.
* `StopLost`: `stop()` (h 65) while the socket connects, or with a full buffer,
  has its QUIT refused, and only the reconnect is off.  The run assumes, on top
  of `FairSpec`, that a connect succeeds or fails some time (`SettledSpec`), so
  that the connection that is never stopped is an established one.
* `AttemptAfterStop`: between the loop test (cpp 268) and the lock (270) nothing
  is held.  `main()` has two threads started before the first has connected,
  because `isRunning()` says no; the second passes 268 while a reconnect is wanted
  and gets the lock after `?quit` and after the first has cleared `_running` (cpp
  345), so the test at 279 does not stop it and it dials although `doesReconnect()`
  (h 70-72) is false.
* `ReportAfterReset`: cpp 347 reads `_session` after the release;
  `resetSession()` in between frees it (libircclient.h 177-178).
* `MutexUninitialised`: two callbacks at once (h 46).
* `NoVerifyLost`: `_serverInfo.server++` (cpp 308) stays for the next pass, so a
  reconnect to `##host` verifies the certificate (cpp 303-304).
* `TargetRace`: `setServerInfo` (cpp 235) looks at `_running` only, which is false
  until a connect succeeds.  Called after `run()` has searched the old target for a
  port (cpp 299-301) and before `irc_connect` (319), it has the new `host:port`
  dialled with the default port 6667 and not with 0.

### Bounds

* Two users, three workers, two sessions: the third worker is a `run()` that
  waits while one carries and one prepares; the second session is the address a
  reconnect may get while the old one is free.  Liveness and the violations need
  one user and two workers.
* `RetryLimit = 1` (10 in the code, 2 in `ServerTarget`): at 1 there is an
  attempt that may be repeated and one that may not; the code only compares.
* `OutCap = 2`: room for the NICK and USER of the library, so a buffer may be
  full, partly full or empty.
* Delays 0 and 10, and the 60 of a throttled host: the code tests zero only.
* `MaxCount = 2` (30 in the code): one cycle that counts and one that boasts.
* Up to three `#`; ports 6697, and 65543, which does not fit the field.
  `TargetRace` has no ports to set, so that the setter of its trace is
  `setServerInfo`.
* Symmetry over workers and sessions in the safety run only, where no action
  tells them apart; the liveness runs have none.
* `Dispatch`: three nicks, so that two others may come, go and swap names around
  the bot.  Between events nothing is counted.
* `Channel`: a person and two programs in six casts, each pair of programs that
  can hear and answer each other in a different way; buffers of three lines, so
  that the longest answer, of four, never fits; two texts by people, so that one may arrive while the answers
  to the other are on their way.
* `Censor`: two visitors, two nicks, two events on their way, four offences: one
  more than the first kick, and a change of nick between a decision and its kick.
* `DccFiles`: three transfers of up to two pieces, two FILEs: one transfer may
  run next to another, and a third find none left.
* `Startup`: 0, 1 and 6667 as values of a variable without one: the port of the
  server string, a wrong one, and by chance the right one.
* Deadlock is checked in every run but `Programs`, whose machines really stop (a
  `main` returns, transfers end, visitors leave and do not come back), and the
  three of `ServerTarget`, where a program that starts without a server crashes.

### Fairness

`FairSpec` gives weak fairness to what a thread does by itself (the scheduler
runs it; a sleep and a blocking `irc_connect` return), strong fairness to the
last line of a received buffer (a buffer is finite) and to a server that closes
the connection of a client that sent QUIT.  Nothing is assumed of the user, of
the success of a connect, or of a server that was not sent a QUIT.
`ChannelFairness` is that the server takes every line some time; nothing is
assumed of people or of the threads of a spammer.  `CensorFairness` is that
`irc_run` handles what was received and the server executes a KICK.
`FairMainSpec` adds that `main()` goes on and that the operating system, asked
again and again, creates a thread some time; it needs none of the assumptions
about the server, because the bot counts as back with another attempt.

## Proofs

Everything is proved for all values of the constants under the named
assumptions `ThreadsAssumption`, `BoundsAssumption`, `MutexAssumption`,
`TargetAssumption`, `NoneAssumption`, `MainAssumption`, `NicksAssumption`,
`FilesAssumption`, `CastsAssumption`, `CensorAssumption` and
`LeftoversAssumption`.

* `IrcConnection_proofs`: `TypeCorrect` by the inductive `TypeInv` (the types and
  "a thread that waits for another attempt has one left").  The other
  invariants follow, for `MutexWorks`, from the inductive `Inv`: the lock is held
  exactly at the labels where `run()` holds it (`LockHeld`), which makes
  preparations exclusive; a thread past `CheckRunning` found `_running` false and
  nobody can set it meanwhile (`PreparesWhenDown`); a carrier has `_running` set
  and works on `_session` (`CarriesWhenUp`, `RunnerArgument`).  None of the
  invariants is inductive by itself: `OneRunner` needs that a thread about to set
  `_running` finds no carrier, which needs that every carrier implies `_running`,
  which needs that only a carrier clears it, which needs `OneRunner`.
  `NoLeak` needs that a session exists only as `_session`, also between
  `DestroyOld` and `CreateSession`.

  From the same `Inv` follow the action property `SessionStable` and
  `ServiceImplemented`: every step of `IrcConnection` is a
  step of `ConnectionService` or a stutter under the mapping of the carriers, the
  connection and the callbacks.

  Two properties that a run shows violated are proved under the condition that
  the violation breaks.  `OneUpdateAtATime` holds when the mutexes work
  (`MutexUninitialised` has them not work).  `RunningHasRunner` holds when they
  work and nobody calls `disconnect()` (`DisconnectZombie` calls it), from
  `UpInv`: while `irc_run` executes, its session is connecting or connected
  (`NeverCut`), so it returns with an error only, and then cpp 345 clears the
  flag.  `disconnect()` is the only method that could put the session back.
* `ServerTarget_proofs`: type correctness, and SSL, verification and port for any
  prefix length and any number of reconnects.  The inductive invariant relates
  the string `run()` has left to the configured one: it has as many `#`, or fewer
  but at least one.

* `MainLoop_proofs`: `MainTypeOK` and `MessageDue` from the inductive `CountInv`
  (the counter is never ahead of the cycles in which the bot ran, and is 0 when a
  message is due), whatever the connection does meanwhile; and
  `ProgramUsesConnection`, `MainSpec => Spec`: every step of `main()` and of the
  bot is one `IrcConnection` lets a program take.  Hence the theorems about
  `IrcConnection` hold in the program; `ProgramOneRunner` draws the conclusion
  for `OneRunner` and `RunnerSessionAlive`, `ProgramImplementsService` for the
  refinement.  `ProgramRunningHasRunner` needs no condition on the methods: no
  step of `main()` or of SimpleBot is a `disconnect()`, so when `main()` finds
  `isRunning()` true (main.cpp 43), a thread carries the bot.
* `Dispatch_proofs`: `DispatchTypeOK`, `ViewComplete`, `ViewStale` and
  `ParentCalled` for any set of nicks, from the inductive `DispatchInv`.  Beyond
  the four it needs that the bot sees nobody while it is not in the channel
  itself (`BotIsThere`; otherwise its own JOIN, after which it knows itself only,
  would lose somebody).  The lemmas `ReachesJoin`, `ReachesNick`,
  `ReachesLeaving` and `ReachesBase` say which events get through.  `ReadsWithin`
  is not about the channel: it holds after every event with every number of
  parameters it may come with (`WrapReads`), from one lemma per program.
* `Censor_proofs`: `CensorTypeOK`, `CountFollows` and `NoUndeservedKick` for any
  number of visitors and nicks, offences and events on their way.  A count is
  right only once the events before it have been read, so the invariant has to
  speak of what the events on their way will do to the table.  It does so by the
  tables to come: `TablesInv` says that there is a sequence that begins with
  `insolents` and follows it through the events, in which a nick has a count only
  after somebody used it (`Unheard`), a visitor who never took a used nick
  never has more than what that visitor did (`Bounded`), exactly that in the
  last table (`Settled`), and nothing there under the former nicks (`NoneLeft`).  An action of a visitor makes the sequence one longer
  (`TablesGrow`), the censor takes its first away (`TablesShrink`); so a step
  needs a look at two neighbouring tables, and no induction over the sequence.
  `WorldInv` is about the visitors alone (`SoleCarrier`: a nick that was always
  free before has one carrier), and `KicksEarned` about the kicks on their way,
  which reach whoever carries the nick then.
* `Startup_proofs`: `StartupTypeOK` and `DialsAsMeant` for any
  set of values a port without one may hold, from the inductive `StartupInv`: up
  to the `connect`, the port, prefix and options are what the command line and
  the place in `main` make them (`PortKept`, `PrefixKept`).
* `DccFiles_proofs`: `FilesTypeOK`, `TransferIntact` and `FilesAccounted` for any
  number of transfers and pieces.  `FilesInv` adds that an undisturbed transfer
  is the only one that receives (`Alone`), so that no other buffer goes to its
  file, and that the part on the disk is in place (`InPlace`).
* `Channel_proofs`: `OnlyPeopleCue`, and the types, for any clients, casts and
  buffer sizes, from the inductive `ChannelInv`, which says that every line in a
  buffer is one that may have been uttered (`Uttered`: none with "Cue" before a
  person has said it).  The lemmas follow the lines: what a program answers to such
  a line is such a line (`AnswerUttered`; for colors, which repeats, also what
  follows "testme", `RestUttered`), so are the greetings (`GreetingUttered`), and a
  buffer that cuts what does not fit adds nothing (`PutFits`).

Model-checked only: liveness (`InnerReleased`, `WorkersDrain`, `SuperfluousEnd`,
`BotComesBack`, `LoneAnswererSettles`, `HalloSettles`, `OffenderKicked`), which is out of reach of
the prover, and every counterexample.  Every invariant and every other action
property of the passing runs is a theorem.

## Plan

Done: every module of the table above, with the proofs above.  Next, in this
order:

1. The setters and `start(target)` of other threads in one model with the locks,
   with a target that is copied while it is read, and the test for `##` apart from
   the skip (cpp 304-307).  Nothing is proved about `RacingSpec`: it takes these as
   one step, which is enough for its counterexample but not for a promise.
2. The DCC chat of irctest and the sending of files by irctest and ircftp.

## Not modelled

* The contents of messages beyond the keywords, the `printf`s and the log file of
  irctest.  A text holds one keyword, and a nick holds none.
* `getNamesInChannel`, `whois` and `listChannels` as readers of a buffer (they are
  commands here: one message); `getSession`, `getServerInfo` and `getPort`, which
  change nothing.
* Of irctest and ircftp, DCC chat and the sending of files: the state is the
  library's, which the repository holds as a binary, and the callbacks print or
  answer one line with one line.
* Colour codes: `colors` converts texts by functions of the library.
* SSL itself, the numeric codes and error codes of the headers, the build files.
