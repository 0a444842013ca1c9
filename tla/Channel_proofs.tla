--------------------------- MODULE Channel_proofs ---------------------------
(***************************************************************************)
(* Theorems about the channel, for any number of clients, any casts and    *)
(* buffers of any size: no program says "Cue", to which SimpleBots answer  *)
(* each other without end, before a person has said it.                    *)
(***************************************************************************)
EXTENDS Channel, SequenceTheorems, TLAPS

\* What can be on its way: a line with "Cue" only once a person has said it.
Uttered(c) == {line \in Lines : c \/ Found(line).kind # "cue"}

ChannelInv ==
  /\ cast \in Casts \cup {NoCast}
  /\ present \subseteq entered /\ entered \subseteq Clients
  /\ box \in [Clients -> Seq(Uttered(cued))]
  /\ \A c \in Clients : Len(box[c]) <= BoxCap
  /\ spammers \in [Clients -> 0..3]
  /\ talked \in 0..MaxTalk
  /\ cued \in BOOLEAN /\ hush \in BOOLEAN

----------------------------------------------------------------------------
(* The buffers                                                             *)

\* What the clients have put into a buffer fits, and is what they said.
LEMMA PutFits ==
  ASSUME NEW S, NEW lines \in Seq(S), Len(lines) <= BoxCap, NEW more \in Seq(S)
  PROVE  /\ Put(lines, more) \in Seq(S)
         /\ Len(Put(lines, more)) <= BoxCap
<1> USE CastsAssumption DEF CastsAssumption
<1>1. lines \o more \in Seq(S) /\ Len(lines \o more) = Len(lines) + Len(more)
  OBVIOUS
<1>2. CASE Len(lines) + Len(more) <= BoxCap
  BY <1>1, <1>2 DEF Put
<1>3. CASE ~(Len(lines) + Len(more) <= BoxCap)
  <2>1. BoxCap \in 0..Len(lines \o more)
    BY <1>1, <1>3
  <2>2. \A i \in 1..BoxCap : (lines \o more)[i] \in S
    BY <1>1, <2>1, ElementOfSeq
  <2>3. SubSeq(lines \o more, 1, BoxCap) \in Seq(S)
    BY <1>1, <2>1, <2>2, SubSeqProperties
  <2>4. Len(SubSeq(lines \o more, 1, BoxCap)) = BoxCap
    BY <1>1, <2>1, SubSeqProperties
  <2> QED
    BY <1>3, <2>3, <2>4 DEF Put
<1> QED
  BY <1>2, <1>3

\* What the programs say of their own has no "Cue" in it.
LEMMA LinesSpoken ==
  ASSUME NEW u \in BOOLEAN
  PROVE  /\ Plain \in Uttered(u)
         /\ Line("command") \in Uttered(u) /\ Line("QUIT") \in Uttered(u)
         /\ Hallo(Nobody) \in Uttered(u)
         /\ \A c \in Clients : To("told", c) \in Uttered(u)
<1>1. \A k \in {"plain", "command", "QUIT"} : Found(Line(k)) = Line(k)
  BY DEF Found, Line
<1>2. Plain \in Lines /\ Line("command") \in Lines /\ Line("QUIT") \in Lines
  BY DEF Lines, Texts, Words, Plain
<1>3. Hallo(Nobody) \in Lines /\ \A c \in Clients : To("told", c) \in Lines
  BY DEF Lines, Texts, Private
<1>4. Found(Hallo(Nobody)).kind = "hallo"
      /\ \A c \in Clients : Found(To("told", c)).kind = "told"
  BY DEF Found, Hallo, To
<1>5. \A k \in {"plain", "command", "QUIT"} : Line(k).kind = k
  BY DEF Line
<1> QED
  BY <1>1, <1>2, <1>3, <1>4, <1>5 DEF Uttered, Plain

LEMMA RestUttered ==
  ASSUME NEW u \in BOOLEAN, NEW text \in Uttered(u), text.kind = "testme"
  PROVE  text.rest \in Uttered(u)
<1>1. \A c \in Clients \cup {Nobody} : Hallo(c).kind = "hallo"
  BY DEF Hallo
<1>2. \A k \in Private, c \in Clients : To(k, c).kind \in Private
  BY DEF To
<1>3. \A word \in Words : word.kind # "testme" /\ Found(word) = word
  BY DEF Words, Line, Found
<1>4. Line("command").kind # "testme" /\ Line("QUIT").kind # "testme"
  BY DEF Line
<1>5. PICK word \in Words : text = TestMe(word)
  BY <1>1, <1>2, <1>3, <1>4 DEF Uttered, Lines, Texts, Private
<1>6. text.rest = word /\ Found(text) = word
  BY <1>5 DEF TestMe, Found
<1>7. word \in Lines
  BY DEF Lines, Texts
<1> QED
  BY <1>3, <1>6, <1>7 DEF Uttered

\* A program says "Cue" only when it has heard it.
LEMMA AnswerUttered ==
  ASSUME NEW u \in BOOLEAN, NEW c \in Clients, NEW from \in Clients,
         NEW text \in Uttered(u)
  PROVE  Answer(c, from, text) \in Seq(Uttered(u))
<1>1. AnswerAlone(c, from, text) \in Seq(Uttered(u))
  BY LinesSpoken DEF AnswerAlone, ircftp_event_privmsg
<1>2. SimpleBot_on_channel(c, from, text) \in Seq(Uttered(u))
  <2>1. CASE Found(text).kind = "cue"
    <3>1. u
      BY <2>1 DEF Uttered
    <3>2. Line("cue") \in Lines
      BY DEF Lines, Texts, Words
    <3>3. Line("cue") \in Uttered(u)
      BY <3>1, <3>2 DEF Uttered
    <3>4. Found(text) # Hallo(c)
      BY <2>1 DEF Hallo
    <3> QED
      BY <2>1, <3>3, <3>4 DEF SimpleBot_on_channel
  <2>2. CASE Found(text).kind # "cue"
    BY <2>2, LinesSpoken DEF SimpleBot_on_channel
  <2> QED
    BY <2>1, <2>2
<1>3. colors_event_channel(c, from, text) \in Seq(Uttered(u))
  <2>1. CASE text.kind = "testme"
    BY <2>1, RestUttered DEF colors_event_channel
  <2>2. CASE text.kind # "testme"
    BY <2>2, LinesSpoken DEF colors_event_channel
  <2> QED
    BY <2>1, <2>2
<1>4. irctest_event_channel(c, from, text) \in Seq(Uttered(u))
  <2>1. [i \in 1..4 |-> Line("command")] \in Seq(Uttered(u))
    BY LinesSpoken
  <2> QED
    BY <2>1, LinesSpoken DEF irctest_event_channel
<1>5. AnswerAll(c, from, text) \in Seq(Uttered(u))
  BY <1>2, <1>3, <1>4 DEF AnswerAll
<1> QED
  BY <1>1, <1>5 DEF Answer

LEMMA GreetingUttered ==
  ASSUME NEW u \in BOOLEAN, NEW c \in Clients, NEW who \in Clients
  PROVE  Greeting(c, who) \in Seq(Uttered(u))
BY LinesSpoken
   DEF Greeting, SimpleBot_on_join, colors_event_join, irctest_event_join,
       spammer_event_join

LEMMA LooksForLines ==
  ASSUME NEW c \in Clients
  PROVE  LooksFor(c) \subseteq Lines
BY DEF LooksFor, Lines, Texts, Words, Private, Plain

----------------------------------------------------------------------------
(* The actions                                                             *)

LEMMA ChannelInitially == ChannelInit => ChannelInv
<1> SUFFICES ASSUME ChannelInit PROVE ChannelInv
  OBVIOUS
<1> USE CastsAssumption DEF CastsAssumption, ChannelInit
<1>1. <<>> \in Seq(Uttered(cued)) /\ Len(<<>>) = 0
  OBVIOUS
<1>2. box \in [Clients -> Seq(Uttered(cued))] /\ \A c \in Clients : Len(box[c]) <= BoxCap
  BY <1>1
<1>3. spammers \in [Clients -> 0..3]
  <2>1. 0 \in 0..3
    OBVIOUS
  <2> QED
    BY <2>1
<1>4. talked \in 0..MaxTalk
  OBVIOUS
<1> QED
  BY <1>2, <1>3, <1>4 DEF ChannelInv

LEMMA EnterKeeps ==
  ASSUME ChannelInv, NEW c \in Clients, Enter(c)
  PROVE  ChannelInv'
<1>1. ASSUME NEW d \in Clients
      PROVE  box'[d] \in Seq(Uttered(cued)) /\ Len(box'[d]) <= BoxCap
  <2>1. CASE d \in present'
    BY <2>1, PutFits, GreetingUttered DEF Enter, ChannelInv
  <2>2. CASE d \notin present'
    BY <2>2 DEF Enter, ChannelInv
  <2> QED
    BY <2>1, <2>2
<1>2. box' \in [Clients -> Seq(Uttered(cued))]
  <2>1. box' = [d \in Clients |-> box'[d]]
    BY DEF Enter
  <2> QED
    BY <1>1, <2>1
<1>3. spammers' \in [Clients -> 0..3]
  BY DEF Enter, ChannelInv
<1> QED
  BY <1>1, <1>2, <1>3 DEF Enter, ChannelInv

LEMMA LeaveKeeps ==
  ASSUME ChannelInv, NEW c \in Clients, Leave(c)
  PROVE  ChannelInv'
<1>1. /\ box' \in [Clients -> Seq(Uttered(cued))]
      /\ \A d \in Clients : Len(box'[d]) <= BoxCap
  BY CastsAssumption DEF CastsAssumption, Leave, ChannelInv
<1>2. spammers' \in [Clients -> 0..3]
  BY DEF Leave, ChannelInv
<1> QED
  BY <1>1, <1>2 DEF Leave, ChannelInv

LEMMA TalkKeeps ==
  ASSUME ChannelInv, NEW c \in Clients, NEW text \in Lines, Talk(c, text)
  PROVE  ChannelInv'
<1>1. cued' \in BOOLEAN /\ (cued => cued') /\ text \in Uttered(cued')
  BY DEF Talk, Uttered, ChannelInv
<1>2. Uttered(cued) \subseteq Uttered(cued')
  BY <1>1 DEF Uttered
<1>3. Seq(Uttered(cued)) \subseteq Seq(Uttered(cued'))
  BY <1>2, SeqMonotonic
<1>4. <<text>> \in Seq(Uttered(cued')) /\ Len(<<text>>) = 1
  BY <1>1
<1>5. 1 <= BoxCap
  BY CastsAssumption DEF CastsAssumption
<1>6. /\ box' \in [Clients -> Seq(Uttered(cued'))]
      /\ \A d \in Clients : Len(box'[d]) <= BoxCap
  BY <1>3, <1>4, <1>5 DEF Talk, ChannelInv
<1>7. talked' \in 0..MaxTalk
  BY CastsAssumption DEF CastsAssumption, Talk, ChannelInv
<1> QED
  BY <1>1, <1>6, <1>7 DEF Talk, ChannelInv

LEMMA SpamKeeps ==
  ASSUME ChannelInv, NEW c \in Clients, Spam(c)
  PROVE  ChannelInv'
<1>1. CASE Len(box[c]) < BoxCap
  <2>1. <<Plain>> \in Seq(Uttered(cued))
    <3>1. Plain \in Uttered(cued)
      BY LinesSpoken DEF ChannelInv
    <3> QED
      BY <3>1
  <2>2. box' = [box EXCEPT ![c] = Put(box[c], <<Plain>>)]
    BY <1>1 DEF Spam
  <2>3. Put(box[c], <<Plain>>) \in Seq(Uttered(cued))
        /\ Len(Put(box[c], <<Plain>>)) <= BoxCap
    BY <2>1, PutFits DEF ChannelInv
  <2>4. /\ box' \in [Clients -> Seq(Uttered(cued))]
        /\ \A d \in Clients : Len(box'[d]) <= BoxCap
    BY <2>2, <2>3 DEF ChannelInv
  <2> QED
    BY <1>1, <2>4 DEF Spam, ChannelInv
<1>2. CASE ~(Len(box[c]) < BoxCap)
  <2>1. spammers' \in [Clients -> 0..3]
    BY <1>2 DEF Spam, ChannelInv
  <2> QED
    BY <1>2, <2>1 DEF Spam, ChannelInv
<1> QED
  BY <1>1, <1>2

LEMMA RelayKeeps ==
  ASSUME ChannelInv, NEW c \in Clients, Relay(c)
  PROVE  ChannelInv'
<1> DEFINE line == Head(box[c])
<1>1. line \in Uttered(cued) /\ cued \in BOOLEAN
  BY DEF Relay, ChannelInv
<1>2. CASE line.kind = "QUIT"
  BY <1>2, LeaveKeeps DEF Relay
<1>3. CASE line.kind # "QUIT"
  <2>1. ASSUME NEW d \in Clients
        PROVE  box'[d] \in Seq(Uttered(cued)) /\ Len(box'[d]) <= BoxCap
    <3>1. CASE d = c
      <4>1. box'[d] = Tail(box[c])
        BY <1>3, <3>1 DEF Relay
      <4> QED
        <5>1. box[c] \in Seq(Uttered(cued)) /\ box[c] # <<>> /\ Len(box[c]) <= BoxCap
          BY DEF Relay, ChannelInv
        <5>2. Tail(box[c]) \in Seq(Uttered(cued)) /\ Len(Tail(box[c])) = Len(box[c]) - 1
          BY <5>1
        <5>3. Len(box[c]) \in Nat /\ BoxCap \in Nat
          BY <5>1, CastsAssumption DEF CastsAssumption
        <5> QED
          BY <3>1, <4>1, <5>1, <5>2, <5>3
    <3>2. CASE d # c /\ Hears(d, c, line)
      <4>1. box'[d] = Put(box[d], Answer(d, c, line))
        BY <1>3, <3>2 DEF Relay
      <4> QED
        <5>1. Answer(d, c, line) \in Seq(Uttered(cued))
          BY <1>1, AnswerUttered
        <5> QED
          BY <4>1, <5>1, PutFits DEF ChannelInv
    <3>3. CASE d # c /\ ~Hears(d, c, line)
      BY <1>3, <3>3 DEF Relay, ChannelInv
    <3> QED
      BY <3>1, <3>2, <3>3
  <2>2. box' \in [Clients -> Seq(Uttered(cued))]
    <3>1. box' = [d \in Clients |-> box'[d]]
      BY <1>3 DEF Relay
    <3> QED
      BY <2>1, <3>1
  <2> QED
    BY <1>3, <2>1, <2>2 DEF Relay, ChannelInv
<1> QED
  BY <1>2, <1>3

LEMMA ChannelStep == ChannelInv /\ [ChannelNext]_channelVars => ChannelInv'
<1> SUFFICES ASSUME ChannelInv, [ChannelNext]_channelVars PROVE ChannelInv'
  OBVIOUS
<1>1. CASE Casting
  BY <1>1 DEF Casting, ChannelInv
<1>2. CASE Hush
  BY <1>2 DEF Hush, ChannelInv
<1>3. ASSUME NEW c \in Clients, Enter(c) \/ Lost(c) \/ Spam(c) \/ Relay(c)
      PROVE  ChannelInv'
  BY <1>3, EnterKeeps, LeaveKeeps, SpamKeeps, RelayKeeps DEF Lost
<1>4. ASSUME NEW c \in Clients, NEW d \in entered, NEW text \in LooksFor(d),
             Talk(c, text)
      PROVE  ChannelInv'
  <2>1. text \in Lines
    BY LooksForLines DEF ChannelInv
  <2> QED
    BY <1>4, <2>1, TalkKeeps
<1>5. CASE UNCHANGED channelVars
  BY <1>5 DEF channelVars, ChannelInv
<1> QED
  BY <1>1, <1>2, <1>3, <1>4, <1>5 DEF ChannelNext

\* The types hold for any clients, casts and buffers.
THEOREM ChannelTypeCorrect == ChannelSpec => []ChannelTypeOK
<1>1. ChannelInv => ChannelTypeOK
  <2> SUFFICES ASSUME ChannelInv, NEW c \in Clients, NEW i \in 1..Len(box[c])
               PROVE  box[c][i] \in Lines
    BY DEF ChannelInv, ChannelTypeOK
  <2>1. box[c][i] \in Uttered(cued)
    BY ElementOfSeq DEF ChannelInv
  <2> QED
    BY <2>1 DEF Uttered
<1> QED
  BY ChannelInitially, ChannelStep, <1>1, PTL DEF ChannelSpec

\* No program says "Cue" before a person does, among any number of programs and
\* with buffers of any size (simpleBot.cpp 12-49, colors.cpp 59-80).
THEOREM OnlyPeopleCueCorrect == ChannelSpec => []OnlyPeopleCue
<1>1. ChannelInv => OnlyPeopleCue
  <2> SUFFICES ASSUME ChannelInv, ~cued, NEW c \in Clients,
                      NEW i \in 1..Len(box[c])
               PROVE  Found(box[c][i]).kind # "cue"
    BY DEF OnlyPeopleCue
  <2>1. box[c][i] \in Uttered(cued)
    BY ElementOfSeq DEF ChannelInv
  <2> QED
    BY <2>1 DEF Uttered
<1> QED
  BY ChannelInitially, ChannelStep, <1>1, PTL DEF ChannelSpec
=============================================================================
