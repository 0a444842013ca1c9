----------------------------- MODULE MCPrograms -----------------------------
(***************************************************************************)
(* The small machines, checked side by side: the first step chooses which  *)
(* of them moves, the others stay as they began.  They share nothing.      *)
(***************************************************************************)
EXTENDS Dispatch, Channel, Censor, DccFiles, Startup

CONSTANTS person, bot1, bot2

VARIABLE which

machines ==
  <<dispatchVars, channelVars, censorVars, filesVars, startupVars>>
allVars == <<which, machines>>

MCClients == {person, bot1, bot2}

\* A person and two programs.
Cast(p, q) ==
  [c \in MCClients |->
     IF c = person THEN "person" ELSE IF c = bot1 THEN p ELSE q]

MCCasts ==
  {Cast("SimpleBot", "SimpleBot"), Cast("SimpleBot", "irctest"),
   Cast("SimpleBot", "spammer"), Cast("SimpleBot", "colors"),
   Cast("colors", "irctest"), Cast("colors", "ircftp")}

Init ==
  /\ which = "none"
  /\ DispatchInit /\ ChannelInit /\ CensorInit /\ FilesInit /\ StartupInit

Choose ==
  /\ which = "none"
  /\ which' \in {"dispatch", "channel", "censor", "files", "startup"}
  /\ UNCHANGED machines

DispatchMoves ==
  /\ which = "dispatch" /\ DispatchNext
  /\ UNCHANGED <<which, channelVars, censorVars, filesVars, startupVars>>

ChannelMoves ==
  /\ which = "channel" /\ ChannelNext
  /\ UNCHANGED <<which, dispatchVars, censorVars, filesVars, startupVars>>

CensorMoves ==
  /\ which = "censor" /\ CensorNext
  /\ UNCHANGED <<which, dispatchVars, channelVars, filesVars, startupVars>>

FilesMove ==
  /\ which = "files" /\ FilesNext
  /\ UNCHANGED <<which, dispatchVars, channelVars, censorVars, startupVars>>

StartupMoves ==
  /\ which = "startup" /\ StartupNext
  /\ UNCHANGED <<which, dispatchVars, channelVars, censorVars, filesVars>>

Next ==
  \/ Choose
  \/ DispatchMoves \/ ChannelMoves \/ CensorMoves \/ FilesMove \/ StartupMoves

\* The fairness of Channel and Censor.
Spec == Init /\ [][Next]_allVars /\ ChannelFairness /\ CensorFairness
=============================================================================
