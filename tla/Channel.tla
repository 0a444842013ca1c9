------------------------------ MODULE Channel ------------------------------
(***************************************************************************)
(* What the bots of the repository say to each other: SimpleBot            *)
(* (source/bots/simpleBot.cpp) and the examples colors, irctest, ircftp    *)
(* and spammer of libircclient in one channel with people.                 *)
(*                                                                         *)
(* A client has an outgoing buffer; the server takes its first line and    *)
(* gives it to every other client in the channel, or to the one it is      *)
(* addressed to, whose handler runs at once.  The library does not deliver *)
(* to a client what it said itself.  A text is what the handlers look for  *)
(* in it, no text holds two of these but "testme", which is followed by    *)
(* another.                                                                *)
(***************************************************************************)
EXTENDS Naturals, Sequences, FiniteSets

CONSTANTS
  Clients,  \* connections to the channel
  Casts,    \* which program each client may be, functions on Clients
  NoCast,   \* not chosen yet
  Nobody,   \* a text that is not addressed to a client
  BoxCap,   \* lines that fit the outgoing buffer of a client
  MaxTalk   \* texts that people say in all

ASSUME CastsAssumption ==
  /\ Casts \subseteq
       [Clients -> {"person", "SimpleBot", "colors", "irctest", "ircftp",
                    "spammer"}]
  /\ NoCast \notin Casts
  /\ Nobody \notin Clients
  /\ BoxCap \in Nat \ {0} /\ MaxTalk \in Nat

VARIABLES
  cast,     \* the program of each client
  entered,  \* clients that have entered the channel, each does so once
  present,  \* clients in the channel
  box,      \* lines in the outgoing buffer of each client
  spammers, \* threads of each spammer that have not ended
  talked,   \* texts that people have said
  cued,     \* a person has said something with "Cue" in it
  hush      \* people say, and change, nothing any more

channelVars == <<cast, entered, present, box, spammers, talked, cued, hush>>

Line(kind) == [kind |-> kind, to |-> Nobody]
Plain == Line("plain")
\* "Hallo" and the nick of c; with Nobody, something else follows.
Hallo(c) == [kind |-> "hallo", to |-> c]

\* What one client says to another alone: asks for, and is told by, ircftp.
\* A "get" of a file that cannot be sent counts as another request.
Private == {"list", "get", "other", "told"}
To(kind, c) == [kind |-> kind, to |-> c]

\* order is a text that irctest answers with a command that is no message,
\* "ctcp" one that it answers with four.
Words ==
  {Line(k) : k \in {"plain", "cue", "?quit", "quit", "test", "help", "order",
                    "ctcp"}}

\* "testme" and what is to be said.
TestMe(word) == [kind |-> "testme", to |-> Nobody, rest |-> word]

Texts ==
  Words \cup {TestMe(word) : word \in Words}
    \cup {Hallo(c) : c \in Clients \cup {Nobody}}
    \cup {To(k, c) : k \in Private, c \in Clients}

\* What std::string::find comes to in a text, wherever it stands.
Found(text) == IF text.kind = "testme" THEN text.rest ELSE text

\* command is a line that nobody in the channel hears.
Lines == Texts \cup {Line("command"), Line("QUIT")}

ChannelInit ==
  /\ cast = NoCast
  /\ entered = {} /\ present = {}
  /\ box = [c \in Clients |-> <<>>]
  /\ spammers = [c \in Clients |-> 0]
  /\ talked = 0 /\ cued = FALSE /\ hush = FALSE

\* Mutant: a line is never refused.
Put_Unbounded(lines, more) == lines \o more

\* irc_cmd_msg and the other commands fail when there is no room; no handler
\* looks at their result.
Put(lines, more) ==
  IF Len(lines) + Len(more) <= BoxCap THEN lines \o more
  ELSE SubSeq(lines \o more, 1, BoxCap)

----------------------------------------------------------------------------

\* Mutant: "Hallo" is enough, the bot need not be named.
SimpleBot_on_channel_AnyHallo(c, from, text) ==
  CASE Found(text).kind = "cue" -> <<Line("cue")>>
    [] Found(text).kind = "hallo" -> <<Hallo(Nobody)>>
    [] Found(text).kind = "?quit" -> <<Line("QUIT")>>
    [] OTHER -> <<>>

\* Mutant: the test for "Cue" is missing.
SimpleBot_on_channel_Untested(c, from, text) ==
  IF Found(text) = Hallo(c) THEN <<Line("cue"), Hallo(Nobody)>>
  ELSE <<Line("cue")>>

\* "@nick, My Cue!" has "Cue" in it; "Hallo, nick" has not "Hallo nick".
SimpleBot_on_channel(c, from, text) ==
  CASE Found(text).kind = "cue" -> <<Line("cue")>>
    [] Found(text) = Hallo(c) -> <<Hallo(Nobody)>>
    [] Found(text).kind = "?quit" -> <<Line("QUIT")>>
    [] OTHER -> <<>>

\* "Here I am!" or "Hi, nick".
SimpleBot_on_join(c, who) == <<Plain>>

\* The text without its colours and the text with [B]... instead of them, and
\* an example for "test", or what follows "testme".
colors_event_channel(c, from, text) ==
  CASE text.kind = "test" -> <<text, text, Plain>>
    [] text.kind = "testme" -> <<text, text, text.rest>>
    [] OTHER -> <<text, text>>

colors_event_join(c, who) == <<Plain>>

\* Mutant: every other text is answered with the help.
irctest_event_channel_Help(c, from, text) ==
  CASE text.kind = "quit" -> <<Line("QUIT")>>
    [] text.kind = "order" -> <<Line("command")>>
    [] text.kind = "ctcp" -> [i \in 1..4 |-> Line("command")]
    [] OTHER -> <<Plain>>

irctest_event_channel(c, from, text) ==
  CASE text.kind = "quit" -> <<Line("QUIT")>>
    [] text.kind = "help" -> <<Plain>>
    [] text.kind = "order" -> <<Line("command")>>
    [] text.kind = "ctcp" -> [i \in 1..4 |-> Line("command")]
    [] OTHER -> <<>>

\* A user mode and "Hi all".
irctest_event_join(c, who) == <<Line("command"), Plain>>

\* The greeting of others; on its own join the spammer starts its threads.
spammer_event_join(c, who) == IF who = c THEN <<>> ELSE <<Plain>>

\* One message for each of two files, the file, or the help.
ircftp_event_privmsg(c, from, text) ==
  CASE text.kind = "list" -> <<To("told", from), To("told", from)>>
    [] text.kind = "get" -> <<>>
    [] OTHER -> <<To("told", from)>>

\* Only ircftp has a handler that answers what is said to it alone, and it has
\* none for the channel.
AnswerAlone(c, from, text) ==
  IF cast[c] = "ircftp" THEN ircftp_event_privmsg(c, from, text) ELSE <<>>

AnswerAll(c, from, text) ==
  CASE cast[c] = "SimpleBot" -> SimpleBot_on_channel(c, from, text)
    [] cast[c] = "colors" -> colors_event_channel(c, from, text)
    [] cast[c] = "irctest" -> irctest_event_channel(c, from, text)
    [] OTHER -> <<>>

Answer(c, from, text) ==
  IF text.kind \in Private THEN AnswerAlone(c, from, text)
  ELSE AnswerAll(c, from, text)

Greeting(c, who) ==
  CASE cast[c] = "SimpleBot" -> SimpleBot_on_join(c, who)
    [] cast[c] = "colors" -> colors_event_join(c, who)
    [] cast[c] = "irctest" -> irctest_event_join(c, who)
    [] cast[c] = "spammer" -> spammer_event_join(c, who)
    [] OTHER -> <<>>

\* The texts the program of c looks for; all the others are plain to it.
LooksFor(c) ==
  CASE cast[c] = "SimpleBot" -> {Line("cue"), Hallo(c), Line("?quit")}
    [] cast[c] = "colors" -> {Line("test"), TestMe(Line("cue")),
                              TestMe(Line("quit")), TestMe(Line("help"))}
    [] cast[c] = "irctest" -> {Line("quit"), Line("help"), Line("order"),
                               Line("ctcp")}
    [] cast[c] = "ircftp" -> {To(k, c) : k \in Private \ {"told"}}
    [] OTHER -> {Plain}

----------------------------------------------------------------------------

Casting ==
  /\ cast = NoCast
  /\ cast' \in Casts
  /\ UNCHANGED <<entered, present, box, spammers, talked, cued, hush>>

\* Everybody in the channel, and the client itself, is told.  Of the three
\* threads of a spammer any number may be created: the first failure ends it.
Enter(c) ==
  /\ cast # NoCast /\ ~hush
  /\ c \notin entered
  /\ entered' = entered \cup {c}
  /\ present' = present \cup {c}
  /\ box' = [d \in Clients |->
               IF d \in present' THEN Put(box[d], Greeting(d, c)) ELSE box[d]]
  /\ \E n \in IF cast[c] = "spammer" THEN 0..3 ELSE {0} :
       spammers' = [spammers EXCEPT ![c] = n]
  /\ UNCHANGED <<cast, talked, cued, hush>>

\* A client parts, is kicked or loses its connection: an example ends then,
\* and none comes back.
Leave(c) ==
  /\ present' = present \ {c}
  /\ box' = [box EXCEPT ![c] = <<>>]
  /\ spammers' = [spammers EXCEPT ![c] = 0]
  /\ UNCHANGED <<cast, entered, talked, cued, hush>>

Lost(c) == ~hush /\ c \in present /\ Leave(c)

\* A person says something, one text at a time.
Talk(c, text) ==
  /\ ~hush /\ talked < MaxTalk
  /\ c \in present /\ cast[c] = "person"
  /\ talked' = talked + 1
  /\ box[c] = <<>>
  /\ box' = [box EXCEPT ![c] = <<text>>]
  /\ cued' = (cued \/ Found(text).kind = "cue")
  /\ UNCHANGED <<cast, entered, present, spammers, hush>>

\* One turn of the loop of gen_spam: the thread ends when it is refused.
Spam(c) ==
  /\ spammers[c] > 0
  /\ IF Len(box[c]) < BoxCap
       THEN /\ box' = [box EXCEPT ![c] = Put(@, <<Plain>>)]
            /\ UNCHANGED spammers
       ELSE /\ spammers' = [spammers EXCEPT ![c] = @ - 1]
            /\ UNCHANGED box
  /\ UNCHANGED <<cast, entered, present, talked, cued, hush>>

\* Everybody in the channel but the client that spoke, or who is addressed.
Hears(d, c, line) ==
  /\ d \in present \ {c}
  /\ line.kind # "command"
  /\ line.kind \in Private => d = line.to

\* The server takes the next line of a client.
Relay(c) ==
  /\ c \in present /\ box[c] # <<>>
  /\ LET line == Head(box[c])
     IN  IF line.kind = "QUIT" THEN Leave(c)
         ELSE
           /\ box' = [d \in Clients |->
                        IF d = c THEN Tail(box[d])
                        ELSE IF Hears(d, c, line)
                          THEN Put(box[d], Answer(d, c, line))
                        ELSE box[d]]
           /\ UNCHANGED <<cast, entered, present, spammers, talked, cued, hush>>

Hush ==
  /\ cast # NoCast /\ ~hush
  /\ hush' = TRUE
  /\ UNCHANGED <<cast, entered, present, box, spammers, talked, cued>>

ChannelNext ==
  \/ Casting
  \/ Hush
  \/ \E c \in Clients :
       \/ Enter(c) \/ Lost(c) \/ Spam(c) \/ Relay(c)
       \/ \E d \in entered : \E text \in LooksFor(d) : Talk(c, text)

ChannelSpec == ChannelInit /\ [][ChannelNext]_channelVars

\* The server takes every line some time.
ChannelFairness == \A c \in Clients : WF_channelVars(Relay(c))

FairChannelSpec == ChannelSpec /\ ChannelFairness

----------------------------------------------------------------------------

\* Types of the variables; no buffer holds more than fits.
ChannelTypeOK ==
  /\ cast \in Casts \cup {NoCast}
  /\ present \subseteq entered /\ entered \subseteq Clients
  /\ \A c \in Clients :
       /\ Len(box[c]) <= BoxCap
       /\ \A i \in 1..Len(box[c]) : box[c][i] \in Lines
       /\ spammers[c] \in 0..3
  /\ talked \in 0..MaxTalk
  /\ cued \in BOOLEAN /\ hush \in BOOLEAN

Playing(programs) == {c \in present : cast[c] \in programs}

\* No line is on its way, but for those of some programs.
Silent(programs) == \A c \in Clients : box[c] # <<>> => cast[c] \in programs

\* "Cue", the one word that a SimpleBot answers with itself, is said by nobody
\* before a person says it: no answer and no greeting of any program holds it,
\* whatever colors repeats, takes out of a "testme", or has cut by a full
\* buffer.
OnlyPeopleCue ==
  ~cued =>
    \A c \in Clients : \A i \in 1..Len(box[c]) : Found(box[c][i]).kind # "cue"

\* A program that answers does not keep the channel talking by itself: when
\* people have stopped, so does the one SimpleBot or the one colors among them,
\* with any number of irctests and ircftps, whose answers contain nothing that
\* is answered.  Nobody spams.
LoneAnswererSettles ==
  (hush /\ Cardinality(Playing({"SimpleBot", "colors"})) <= 1
        /\ Playing({"spammer"}) = {})
    ~> Silent({})

\* Any number of SimpleBots stop talking to each other, to irctests, ircftps
\* and spammers, unless somebody has said "Cue": their greetings are not
\* greetings to which a bot answers (line 43).  The spammers themselves go on.
HalloSettles ==
  (hush /\ ~cued /\ Playing({"colors"}) = {}) ~> Silent({"spammer"})
=============================================================================
