------------------------------ MODULE Dispatch ------------------------------
(***************************************************************************)
(* From an event of libircclient to a method of the bot: the wrappers      *)
(* irc_connection_event_* (source/irc/ircConnection.cpp 18-213) test the   *)
(* number of parameters and read some of them, the on_* method of          *)
(* SimpleBot runs, and with it the one of IrcConnection where the override *)
(* calls its parent.  The handlers of the example programs, which the      *)
(* library calls without a wrapper, are given the same parameters.         *)
(*                                                                         *)
(* The events of one connection arrive on one thread, so the event at the  *)
(* server and its callback are one step.  members is what happens in the   *)
(* channel; view is who the on_* calls say is there, for a class that      *)
(* knows its own nick and keeps the others it is told of.  How many        *)
(* parameters an event may have, and that its origin may be unknown, is    *)
(* what lib/include/libirc_events.h says.                                  *)
(***************************************************************************)
EXTENDS Naturals

CONSTANTS
  Nicks,  \* nicks seen in the channel
  NoNick  \* the empty nick: of an unknown origin, or of a bot not connected

ASSUME NicksAssumption == NoNick \notin Nicks

VARIABLES
  myNick,    \* the nick the server gave the bot
  members,   \* nicks in the channel, while the bot is in it
  met,       \* those who came or renamed since, and whose nick was delivered
  view,      \* nicks in the channel according to the on_* calls
  silent,    \* nicks given up without a nick or without a reason delivered
  lost,      \* what handlers of IrcConnection should have done and did not
  bare,      \* a connect came without parameters
  overread   \* who read a parameter that the last event did not have

dispatchVars == <<myNick, members, met, view, silent, lost, bare, overread>>

DispatchInit ==
  /\ myNick = NoNick
  /\ members = {} /\ met = {} /\ view = {} /\ silent = {}
  /\ lost = {} /\ bare = FALSE /\ overread = {}

----------------------------------------------------------------------------

Events ==
  {"connect", "nick", "quit", "join", "part", "mode", "umode", "topic",
   "kick", "channel", "privmsg", "notice", "channel_notice", "invite",
   "ctcp_req", "ctcp_rep", "ctcp_action", "unknown", "numeric",
   "dcc_chat_req", "dcc_send_req"}

\* How many parameters an event may come with: the mandatory ones, and the
\* optional ones or not.  No extra ones are promised of connect, of which the
\* wrapper reads the first; nothing is said of unknown and numeric.
Delivered(e) ==
  CASE e \in {"connect", "unknown", "numeric"} -> {0, 1, 2}
    [] e = "quit" -> {0, 1}
    [] e \in {"part", "topic", "channel", "privmsg", "notice",
              "channel_notice"} -> {1, 2}
    [] e = "kick" -> {1, 2, 3}
    [] e = "mode" -> {2, 3}
    [] e = "invite" -> {2}
    [] e \in {"dcc_chat_req", "dcc_send_req"} -> {0}
    [] OTHER -> {1}

callbacks == Events

\* Mutant: on_part takes a PART with the channel only, as on_join does a JOIN.
ChannelEventCount_Part ==
  [nick |-> 1, quit |-> 1, join |-> 1, part |-> 1, kick |-> 3]

\* Mutant: a NICK is expected to carry the old and the new nick.
ChannelEventCount_Nick == [nick |-> 2, quit |-> 1, join |-> 1, kick |-> 3]

\* A wrapper drops an event whose count is not the one it expects; the ones
\* of part and topic expect none.
ChannelEventCount == [nick |-> 1, quit |-> 1, join |-> 1, kick |-> 3]

\* Mutant: on_channel does not look at the count.
MessageCount_NotChannel == [privmsg |-> 2, notice |-> 2, invite |-> 2]

MessageCount == [channel |-> 2, privmsg |-> 2, notice |-> 2, invite |-> 2]

LeastCount == [connect |-> 1, mode |-> 2]

\* The wrappers that copy as many parameters as there are and name none.
Copied ==
  {"umode", "channel_notice", "ctcp_req", "ctcp_rep", "ctcp_action",
   "unknown", "numeric", "dcc_chat_req", "dcc_send_req"}

\* from is the nick of the origin: only the wrapper of channel asks whether
\* there is one, the others go on with an empty nick.
Reaches(e, from, n) ==
  /\ e \in callbacks
  /\ e = "channel" => from # NoNick
  /\ e \in DOMAIN ChannelEventCount => n = ChannelEventCount[e]
  /\ e \in DOMAIN MessageCount => n = MessageCount[e]
  /\ e \in DOMAIN LeastCount => n >= LeastCount[e]

\* Parameters read by position.
Reads(e) ==
  CASE e \in Copied -> 0
    [] e \in {"connect", "nick", "quit", "join", "part"} -> 1
    [] e = "kick" -> 3
    [] OTHER -> 2

\* What the handlers of the examples read by position, at most, the count they
\* ask for, and for which events they ask for an origin.
censor_handlers ==
  [reads |-> [connect |-> 0, nick |-> 1, channel |-> 2, numeric |-> 0],
   count |-> [nick |-> 1, channel |-> 2], origin |-> {"nick", "channel"}]

\* Of its own JOIN the spammer prints the second parameter, of an error the
\* first.
spammer_handlers ==
  [reads |-> [connect |-> 0, join |-> 2, numeric |-> 1], count |-> <<>>,
   origin |-> {"join"}]

\* All the other events of irctest go to dump_event, which reads none that is
\* not there.
irctest_handlers ==
  [reads |-> [connect |-> 0, join |-> 1, privmsg |-> 2, channel |-> 2],
   count |-> [channel |-> 2], origin |-> {"channel"}]

ircftp_handlers ==
  [reads |-> [connect |-> 0, privmsg |-> 2, numeric |-> 0],
   count |-> [privmsg |-> 2], origin |-> {"privmsg"}]

colors_handlers ==
  [reads |-> [connect |-> 0, join |-> 1, channel |-> 2, numeric |-> 0],
   count |-> <<>>, origin |-> {}]

Examples ==
  [censor |-> censor_handlers, spammer |-> spammer_handlers,
   irctest |-> irctest_handlers, ircftp |-> ircftp_handlers,
   colors |-> colors_handlers]

\* An example reads past the end of the n parameters of e.
ReadsPast(p, e, from, n) ==
  /\ e \in DOMAIN Examples[p].reads
  /\ e \in DOMAIN Examples[p].count => n = Examples[p].count[e]
  /\ e \in Examples[p].origin => from # NoNick
  /\ Examples[p].reads[e] > n

\* What the handlers of IrcConnection do to the object: on_connect sets
\* _running, on_unknown a delay when a parameter speaks of throttling.
BaseHandler(e, n) ==
  CASE e = "connect" -> {"running"}
    [] e = "unknown" /\ n >= 1 -> {"delay"}
    [] OTHER -> {}

\* Mutant: SimpleBot::on_unknown does not call its parent.
CallsParent_NotUnknown == {"connect", "quit", "numeric"}

\* The handlers SimpleBot inherits or from which it calls its parent.
CallsParent == {"connect", "quit", "unknown", "numeric"}

\* The wrapper of e, given n parameters, as far as it does not concern who
\* is in the channel.
Wrap(e, from, n) ==
  /\ lost' = IF Reaches(e, from, n) /\ e \in CallsParent
               THEN lost ELSE lost \cup BaseHandler(e, n)
  /\ bare' = (bare \/ (e = "connect" /\ n = 0))
  /\ overread' =
       {<<p, e>> : p \in {q \in DOMAIN Examples : ReadsPast(q, e, from, n)}}
         \cup (IF Reaches(e, from, n) /\ Reads(e) > n THEN {<<"wrapper", e>>}
               ELSE {})

----------------------------------------------------------------------------

Named(from) == {from} \ {NoNick}

\* Mutant: the origin, which is the server, is taken for the nick.
Connected_Origin(nick, from, n) ==
  /\ myNick = NoNick
  /\ n \in Delivered("connect")
  /\ Wrap("connect", from, n)
  /\ myNick' = "server"
  /\ UNCHANGED <<members, met, view, silent>>

\* The server may give the bot another nick than the one it asked for.
Connected(nick, from, n) ==
  /\ myNick = NoNick
  /\ n \in Delivered("connect")
  /\ Wrap("connect", from, n)
  /\ myNick' = nick
  /\ UNCHANGED <<members, met, view, silent>>

\* The bot joins, or is made to: the others who are there it has not seen
\* come.  Or somebody else joins while it is there.
Joins(nick, from, n) ==
  /\ myNick # NoNick
  /\ n \in Delivered("join")
  /\ nick \notin members
  /\ from \in {nick, NoNick}
  /\ Wrap("join", from, n)
  /\ \/ /\ myNick \in members
        /\ members' = members \cup {nick}
     \/ /\ nick = myNick
        /\ \E others \in SUBSET (Nicks \ {nick}) : members' = others \cup {nick}
  /\ met' = met \cup Named(from)
  /\ view' = IF Reaches("join", from, n)
               THEN (IF from = myNick THEN {} ELSE view) \cup Named(from)
               ELSE view
  /\ silent' = silent \ members'
  /\ UNCHANGED myNick

\* What tells a class of a departure: an origin and, of a QUIT or a KICK, the
\* optional parameters; of a KICK the nick is one of them.
Told(e, from, n) ==
  CASE e = "part" -> from # NoNick
    [] e = "quit" -> from # NoNick /\ n = 1
    [] e = "kick" -> n = 3

\* Whom the bot sees no more when nick leaves; when it leaves itself, all.
Unseen(nick) == IF nick = myNick THEN Nicks ELSE {nick}

\* Somebody leaves: by e, with n parameters.  A KICK names who it is, the
\* others are known by their origin.
Leaves(e, nick, from, n) ==
  /\ e \in {"quit", "part", "kick"}
  /\ n \in Delivered(e)
  /\ myNick \in members
  /\ nick \in members
  /\ e = "quit" => nick # myNick
  /\ e # "kick" => from \in {nick, NoNick}
  /\ Wrap(e, from, n)
  /\ members' = members \ Unseen(nick)
  /\ met' = met \ Unseen(nick)
  /\ view' = IF Reaches(e, from, n)
               THEN view \ Unseen(IF e = "kick" THEN nick ELSE from) ELSE view
  /\ silent' = IF Told(e, from, n)
                 THEN silent \ Unseen(nick)
                 ELSE silent \cup (members \cap Unseen(nick))
  /\ UNCHANGED myNick

Swap(S, old, new) == IF old \in S THEN (S \ {old}) \cup {new} ELSE S

\* Whoever changes to another nick is there, but for the bot, which may be
\* elsewhere.
Follow(S, old, new) ==
  IF old = myNick THEN Swap(S, old, new) ELSE (S \ {old}) \cup {new}

\* A NICK comes from the bot, wherever it is, and from those in its channel.
Renames(old, new, from, n) ==
  /\ myNick # NoNick
  /\ n \in Delivered("nick")
  /\ old = myNick \/ (old \in members /\ myNick \in members)
  /\ new \notin members \cup {myNick}
  /\ from \in {old, NoNick}
  /\ Wrap("nick", from, n)
  /\ myNick' = IF old = myNick THEN new ELSE myNick
  /\ members' = Swap(members, old, new)
  /\ met' = IF from = NoNick THEN met \ {old} ELSE Follow(met, old, new)
  /\ view' = IF Reaches("nick", from, n) /\ from # NoNick
               THEN Follow(view, old, new) ELSE view
  /\ silent' = IF from = NoNick THEN silent \cup {old}
                 ELSE IF old \in members THEN silent \ {new}
                 ELSE Swap(silent, old, new)

\* Every other event.
Happens(e, from, n) ==
  /\ myNick # NoNick
  /\ e \in Events \ {"connect", "join", "quit", "part", "kick", "nick"}
  /\ n \in Delivered(e)
  /\ Wrap(e, from, n)
  /\ UNCHANGED <<myNick, members, met, view, silent>>

DispatchNext ==
  \E from \in Nicks \cup {NoNick}, n \in 0..3 :
    \/ \E nick \in Nicks :
         \/ Connected(nick, from, n)
         \/ Joins(nick, from, n)
         \/ \E e \in Events : Leaves(e, nick, from, n)
         \/ \E new \in Nicks : Renames(nick, new, from, n)
    \/ \E e \in Events : Happens(e, from, n)

DispatchSpec == DispatchInit /\ [][DispatchNext]_dispatchVars

----------------------------------------------------------------------------

\* Types of the variables.
DispatchTypeOK ==
  /\ myNick \in Nicks \cup {NoNick}
  /\ members \subseteq Nicks /\ met \subseteq members
  /\ view \subseteq Nicks /\ silent \subseteq Nicks
  /\ lost \subseteq {"running", "delay"}
  /\ bare \in BOOLEAN
  /\ overread \subseteq (DOMAIN Examples \cup {"wrapper"}) \X Events

\* No arrival that has an origin is lost: a class that keeps the nicks it is
\* told of by on_join and on_nick knows of everybody who came, or took another
\* nick, while the bot was there, through any departures and returns of the bot
\* and the others.
ViewComplete == met \subseteq view

\* It believes somebody there who is not only after an event that did not name
\* the one who went, or a QUIT or a KICK without its reason, which the wrappers
\* of quit and kick drop; a PART is reported with and without a reason.
ViewStale == view \ members \subseteq silent

\* Whatever counts the library may deliver, a parameter that is not there is
\* read in five places only: by the wrapper of topic, of a TOPIC without a text
\* (line 103), by the spammer, of its own JOIN and of a numeric without
\* parameters, and by colors and irctest, of a message without a text.
ReadsWithin ==
  overread \subseteq
    {<<"wrapper", "topic">>, <<"spammer", "join">>, <<"spammer", "numeric">>,
     <<"colors", "channel">>, <<"irctest", "privmsg">>}

\* What IrcConnection does in on_connect and on_unknown happens in SimpleBot
\* also, which overrides both (the comment above on_connect asks for it); all
\* that can be lost is the on_connect of a connect without parameters, which
\* the wrapper drops (line 21).
ParentCalled == lost \subseteq IF bare THEN {"running"} ELSE {}
=============================================================================
