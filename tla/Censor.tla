------------------------------- MODULE Censor -------------------------------
(***************************************************************************)
(* The example censor of libircclient (source/examples/censor.cpp): it     *)
(* counts, per nick, how often somebody swore in the channel, warns at the *)
(* first two times and kicks from the third on, and follows changes of     *)
(* nick.  It is not told who leaves.                                       *)
(*                                                                         *)
(* events is what the server has sent and the censor has not read yet;     *)
(* kicks is what the censor has sent and the server has not done yet: by   *)
(* then somebody else may carry the nick.  A visitor stays from one        *)
(* entrance to one departure; who comes back is another visitor.           *)
(***************************************************************************)
EXTENDS Naturals, Sequences

CONSTANTS
  Visitors,   \* people who enter the channel once
  Names,      \* nicks
  NoName,     \* outside the channel
  MaxEvents,  \* events on their way to the censor
  MaxSwears   \* times that a visitor swears

ASSUME CensorAssumption ==
  /\ NoName \notin Names
  /\ MaxEvents \in Nat
  /\ MaxSwears \in Nat

VARIABLES
  nameOf,     \* the nick of each visitor
  came,       \* visitors that have entered
  events,     \* on their way to the censor, oldest first
  insolents,  \* the count of a nick, 0 for a nick that is not in the table
  kicks,      \* nicks of which a KICK is on its way to the server
  refused,    \* nicks whose last KICK did not fit the outgoing buffer
  carriers,   \* visitors who have ever carried a nick
  offences,   \* times that a visitor swore
  inherits,   \* visitors who took a nick that somebody else had carried
  moved,      \* visitors who changed their nick after they last swore
  kicked      \* visitors who were kicked

\* refused and the last five are history: no program reads them.
censorVars ==
  <<nameOf, came, events, insolents, kicks, refused, carriers, offences,
    inherits, moved, kicked>>

CensorInit ==
  /\ nameOf = [v \in Visitors |-> NoName]
  /\ came = {}
  /\ events = <<>>
  /\ insolents = [n \in Names |-> 0]
  /\ kicks = {} /\ refused = {}
  /\ carriers = [n \in Names |-> {}]
  /\ offences = [v \in Visitors |-> 0]
  /\ inherits = {} /\ moved = {} /\ kicked = {}

Here(v) == nameOf[v] # NoName
Free(n) == \A v \in Visitors : nameOf[v] # n

----------------------------------------------------------------------------

\* The table after old has become new: the count goes with the nick and
\* replaces the one new had; a nick without a count leaves that one alone.
Followed(old, new) ==
  IF insolents[old] > 0
    THEN [insolents EXCEPT ![new] = insolents[old], ![old] = 0]
    ELSE insolents

\* Mutant: the old nick keeps its count and the new one gets none.
event_nick_Forgets ==
  /\ events # <<>> /\ Head(events).type = "nick"
  /\ events' = Tail(events)
  /\ insolents' = [insolents EXCEPT ![Head(events).name] = 0]
  /\ UNCHANGED <<kicks, refused>>

event_nick ==
  /\ events # <<>> /\ Head(events).type = "nick"
  /\ insolents' = Followed(Head(events).name, Head(events).new)
  /\ events' = Tail(events)
  /\ UNCHANGED <<kicks, refused>>

\* irc_cmd_kick: refused when the outgoing buffer is full.
Kick(nick) ==
  \/ kicks' = kicks \cup {nick} /\ refused' = refused \ {nick}
  \/ kicks' = kicks /\ refused' = refused \cup {nick}

\* Mutant: the kick is for the origin as it came, not for the nick in it.
event_channel_Origin ==
  /\ events # <<>> /\ Head(events).type = "swear"
  /\ LET nick == Head(events).name
     IN  /\ insolents' = [insolents EXCEPT ![nick] = @ + 1]
         /\ IF insolents'[nick] \in {1, 2} THEN UNCHANGED <<kicks, refused>>
            ELSE Kick(<<nick, "user", "host">>)
  /\ events' = Tail(events)

\* Mutant: the kick is meant for the second time already.
event_channel_Second ==
  /\ events # <<>> /\ Head(events).type = "swear"
  /\ LET nick == Head(events).name
     IN  /\ insolents' = [insolents EXCEPT ![nick] = @ + 1]
         /\ IF insolents'[nick] = 1 THEN UNCHANGED <<kicks, refused>>
            ELSE Kick(nick)
  /\ events' = Tail(events)

\* Mutant: case 3 in place of the default.
event_channel_OnlyThird ==
  /\ events # <<>> /\ Head(events).type = "swear"
  /\ LET nick == Head(events).name
     IN  /\ insolents' = [insolents EXCEPT ![nick] = @ + 1]
         /\ IF insolents'[nick] # 3 THEN UNCHANGED <<kicks, refused>>
            ELSE Kick(nick)
  /\ events' = Tail(events)

\* The first time costs a private message, the second a public one, each
\* further one a kick, whose result is not looked at.
event_channel ==
  /\ events # <<>> /\ Head(events).type = "swear"
  /\ LET nick == Head(events).name
     IN  /\ insolents' = [insolents EXCEPT ![nick] = @ + 1]
         /\ IF insolents'[nick] \in {1, 2} THEN UNCHANGED <<kicks, refused>>
            ELSE Kick(nick)
  /\ events' = Tail(events)

Handle ==
  /\ event_nick \/ event_channel
  /\ UNCHANGED <<nameOf, came, carriers, offences, inherits, moved, kicked>>

----------------------------------------------------------------------------

\* v is n from now on.
Carry(v, n) ==
  /\ Free(n)
  /\ nameOf' = [nameOf EXCEPT ![v] = n]
  /\ carriers' = [carriers EXCEPT ![n] = @ \cup {v}]
  /\ inherits' = IF carriers[n] \subseteq {v} THEN inherits
                 ELSE inherits \cup {v}

EnterChannel(v, n) ==
  /\ v \notin came
  /\ came' = came \cup {v}
  /\ Carry(v, n)
  /\ UNCHANGED <<events, insolents, kicks, refused, offences, moved, kicked>>

Rename(v, n) ==
  /\ Here(v)
  /\ Len(events) < MaxEvents
  /\ Carry(v, n)
  /\ events' = Append(events, [type |-> "nick", name |-> nameOf[v], new |-> n])
  /\ moved' = moved \cup {v}
  /\ UNCHANGED <<came, insolents, kicks, refused, offences, kicked>>

Swear(v) ==
  /\ Here(v)
  /\ Len(events) < MaxEvents
  /\ offences[v] < MaxSwears
  /\ events' =
       Append(events, [type |-> "swear", name |-> nameOf[v], new |-> nameOf[v]])
  /\ offences' = [offences EXCEPT ![v] = @ + 1]
  /\ moved' = moved \ {v}
  /\ UNCHANGED <<nameOf, came, insolents, kicks, refused, carriers, inherits,
                 kicked>>

\* The censor has no handler for PART, QUIT or KICK.
LeaveChannel(v) ==
  /\ Here(v)
  /\ nameOf' = [nameOf EXCEPT ![v] = NoName]
  /\ UNCHANGED <<came, events, insolents, kicks, refused, carriers, offences,
                 inherits, moved, kicked>>

\* The server kicks whoever carries the nick, if anybody does.
KickArrives(n) ==
  /\ n \in kicks
  /\ kicks' = kicks \ {n}
  /\ LET hit == {v \in Visitors : nameOf[v] = n}
     IN  /\ kicked' = kicked \cup hit
         /\ nameOf' = [v \in Visitors |-> IF v \in hit THEN NoName
                                          ELSE nameOf[v]]
  /\ UNCHANGED <<came, events, insolents, refused, carriers, offences, inherits,
                 moved>>

CensorNext ==
  \/ Handle
  \/ \E n \in Names : KickArrives(n)
  \/ \E v \in Visitors :
       \/ Swear(v) \/ LeaveChannel(v)
       \/ \E n \in Names : EnterChannel(v, n) \/ Rename(v, n)

CensorSpec == CensorInit /\ [][CensorNext]_censorVars

\* The censor reads what it is sent, the server does what it is told.
CensorFairness ==
  /\ WF_censorVars(Handle)
  /\ \A n \in Names : WF_censorVars(KickArrives(n))

FairCensorSpec == CensorSpec /\ CensorFairness

----------------------------------------------------------------------------

\* Types of the variables.
CensorTypeOK ==
  /\ nameOf \in [Visitors -> Names \cup {NoName}]
  /\ came \subseteq Visitors
  /\ Len(events) <= MaxEvents
  /\ insolents \in [Names -> Nat]
  /\ kicks \subseteq Names /\ refused \subseteq Names
  /\ carriers \in [Names -> SUBSET Visitors]
  /\ offences \in [Visitors -> 0..MaxSwears]
  /\ inherits \subseteq Visitors /\ moved \subseteq Visitors
  /\ kicked \subseteq Visitors

\* The count follows its offender: once the censor has read everything, the
\* nick of a visitor has the count of what the visitor did, under whatever
\* nicks, unless the visitor took a nick that somebody else had carried.
CountFollows ==
  events = <<>> =>
    \A v \in Visitors \ inherits :
      Here(v) => insolents[nameOf[v]] = offences[v]

\* Nobody is kicked for less than swearing three times, except under a nick
\* that somebody else had carried before.
NoUndeservedKick == \A v \in kicked \ inherits : offences[v] >= 3

\* Changing the nick helps for a moment only: a visitor who has sworn three
\* times or more, and has not changed the nick since, will be gone or change
\* it again, unless the last KICK was refused: then the visitor stays, until
\* the next offence.
OffenderKicked ==
  \A v \in Visitors :
    (Here(v) /\ v \notin inherits \cup moved /\ offences[v] >= 3)
      ~> (~Here(v) \/ v \in moved \/ nameOf[v] \in refused)
=============================================================================
