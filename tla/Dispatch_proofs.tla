--------------------------- MODULE Dispatch_proofs ---------------------------
(***************************************************************************)
(* Theorems about the dispatch of events, for every set of nicks: what a   *)
(* class derived from IrcConnection can know of a channel.                 *)
(***************************************************************************)
EXTENDS Dispatch, TLAPS

\* Nobody is seen in the channel while the bot is not there itself.
BotIsThere ==
  /\ members # {} => myNick \in members
  /\ members # {} => myNick # NoNick

DispatchInv ==
  /\ DispatchTypeOK /\ BotIsThere
  /\ ViewComplete /\ ViewStale /\ ParentCalled

----------------------------------------------------------------------------
(* The wrappers                                                            *)

\* Of the events that change who is there, the wrappers of join and nick take
\* every one; those of quit, part and kick take those that tell of the
\* departure.
LEMMA ReachesJoin ==
  ASSUME NEW from, NEW n \in Delivered("join")
  PROVE  Reaches("join", from, n)
BY DEF Delivered, Reaches, callbacks, Events, ChannelEventCount, MessageCount,
       LeastCount

LEMMA ReachesNick ==
  ASSUME NEW from, NEW n \in Delivered("nick")
  PROVE  Reaches("nick", from, n)
BY DEF Delivered, Reaches, callbacks, Events, ChannelEventCount, MessageCount,
       LeastCount

LEMMA ReachesLeaving ==
  ASSUME NEW e \in {"quit", "part", "kick"}, NEW from, NEW n,
         Told(e, from, n)
  PROVE  Reaches(e, from, n) /\ (e # "kick" => from # NoNick)
<1>1. CASE e = "quit"
  BY <1>1 DEF Told, Reaches, callbacks, Events, ChannelEventCount,
              MessageCount, LeastCount
<1>2. CASE e = "part"
  BY <1>2 DEF Told, Reaches, callbacks, Events, ChannelEventCount,
              MessageCount, LeastCount
<1>3. CASE e = "kick"
  BY <1>3 DEF Told, Reaches, callbacks, Events, ChannelEventCount,
              MessageCount, LeastCount
<1> QED
  BY <1>1, <1>2, <1>3

LEMMA ReachesBase ==
  ASSUME NEW e \in Events, NEW from, NEW n \in Delivered(e),
         BaseHandler(e, n) # {}, ~(e = "connect" /\ n = 0)
  PROVE  Reaches(e, from, n) /\ e \in CallsParent
<1>1. e = "connect" \/ e = "unknown"
  BY DEF BaseHandler
<1>2. CASE e = "connect"
  BY <1>2 DEF Delivered, Reaches, callbacks, Events, ChannelEventCount,
              MessageCount, LeastCount, CallsParent
<1>3. CASE e = "unknown"
  BY <1>3 DEF Delivered, Reaches, callbacks, Events, ChannelEventCount,
              MessageCount, LeastCount, CallsParent
<1> QED
  BY <1>1, <1>2, <1>3

\* What a wrapper does apart from who is in the channel.
LEMMA WrapKeeps ==
  ASSUME DispatchTypeOK, ParentCalled,
         NEW e \in Events, NEW from, NEW n \in Delivered(e), Wrap(e, from, n)
  PROVE  /\ lost' \subseteq {"running", "delay"}
         /\ bare' \in BOOLEAN
         /\ overread' \subseteq (DOMAIN Examples \cup {"wrapper"}) \X Events
         /\ ParentCalled'
<1>1. BaseHandler(e, n) \subseteq {"running", "delay"}
  BY DEF BaseHandler
<1>2. lost' \subseteq {"running", "delay"} /\ bare' \in BOOLEAN
  BY <1>1 DEF Wrap, DispatchTypeOK
<1>3. overread' \subseteq (DOMAIN Examples \cup {"wrapper"}) \X Events
  <2>1. {<<p, e>> : p \in {q \in DOMAIN Examples : ReadsPast(q, e, from, n)}}
          \subseteq (DOMAIN Examples \cup {"wrapper"}) \X Events
    OBVIOUS
  <2> QED
    BY <2>1 DEF Wrap
<1>4. ParentCalled'
  <2>1. CASE BaseHandler(e, n) = {}
    BY <2>1 DEF Wrap, ParentCalled
  <2>2. CASE BaseHandler(e, n) # {} /\ ~(e = "connect" /\ n = 0)
    BY <2>2, ReachesBase DEF Wrap, ParentCalled
  <2>3. CASE e = "connect" /\ n = 0
    <3>1. BaseHandler(e, n) = {"running"}
      BY <2>3 DEF BaseHandler
    <3> QED
      BY <2>3, <3>1 DEF Wrap, ParentCalled
  <2> QED
    BY <2>1, <2>2, <2>3
<1> QED
  BY <1>2, <1>3, <1>4

----------------------------------------------------------------------------
(* The actions                                                             *)

LEMMA DispatchInitially == DispatchInit => DispatchInv
BY DEF DispatchInit, DispatchInv, DispatchTypeOK, BotIsThere, ViewComplete,
       ViewStale, ParentCalled

LEMMA ConnectedKeeps ==
  ASSUME DispatchInv, NEW nick \in Nicks, NEW from, NEW n \in 0..3,
         Connected(nick, from, n)
  PROVE  DispatchInv'
<1> USE NicksAssumption DEF NicksAssumption
<1>1. /\ lost' \subseteq {"running", "delay"}
      /\ bare' \in BOOLEAN
      /\ overread' \subseteq (DOMAIN Examples \cup {"wrapper"}) \X Events
      /\ ParentCalled'
  <2>1. "connect" \in Events
    BY DEF Events
  <2> QED
    BY <2>1, WrapKeeps DEF Connected, DispatchInv
<1>2. DispatchTypeOK'
  BY <1>1 DEF Connected, DispatchInv, DispatchTypeOK
<1>3. BotIsThere' /\ ViewComplete' /\ ViewStale'
  BY DEF Connected, DispatchInv, BotIsThere, ViewComplete, ViewStale
<1> QED
  BY <1>1, <1>2, <1>3 DEF DispatchInv

LEMMA JoinsKeeps ==
  ASSUME DispatchInv, NEW nick \in Nicks, NEW from, NEW n \in 0..3,
         Joins(nick, from, n)
  PROVE  DispatchInv'
<1> USE NicksAssumption DEF NicksAssumption
<1>1. /\ lost' \subseteq {"running", "delay"}
      /\ bare' \in BOOLEAN
      /\ overread' \subseteq (DOMAIN Examples \cup {"wrapper"}) \X Events
      /\ ParentCalled'
  <2>1. "join" \in Events
    BY DEF Events
  <2> QED
    BY <2>1, WrapKeeps DEF Joins, DispatchInv
<1>2. Reaches("join", from, n)
  BY ReachesJoin DEF Joins
<1>3. /\ members \cup {nick} \subseteq members'
      /\ members' \subseteq Nicks
      /\ myNick \in members'
      /\ from = myNick => members = {}
  BY DEF Joins, DispatchInv, DispatchTypeOK, BotIsThere
<1>4. DispatchTypeOK' /\ BotIsThere'
  BY <1>1, <1>2, <1>3
     DEF Joins, Named, DispatchInv, DispatchTypeOK, BotIsThere
<1>5. ViewComplete'
  <2>1. CASE from = myNick
    BY <1>2, <1>3, <2>1
       DEF Joins, Named, DispatchInv, DispatchTypeOK, ViewComplete
  <2>2. CASE from # myNick
    BY <1>2, <2>2 DEF Joins, Named, DispatchInv, ViewComplete
  <2> QED
    BY <2>1, <2>2
<1>6. ViewStale'
  BY <1>2, <1>3 DEF Joins, Named, DispatchInv, ViewStale
<1> QED
  BY <1>1, <1>4, <1>5, <1>6 DEF DispatchInv

LEMMA LeavesKeeps ==
  ASSUME DispatchInv, NEW nick \in Nicks, NEW from, NEW n \in 0..3,
         NEW e \in Events, Leaves(e, nick, from, n)
  PROVE  DispatchInv'
<1> USE NicksAssumption DEF NicksAssumption
<1>1. /\ lost' \subseteq {"running", "delay"}
      /\ bare' \in BOOLEAN
      /\ overread' \subseteq (DOMAIN Examples \cup {"wrapper"}) \X Events
      /\ ParentCalled'
  BY WrapKeeps DEF Leaves, DispatchInv
<1> DEFINE who == IF e = "kick" THEN nick ELSE from
<1>2. Told(e, from, n) => Reaches(e, from, n) /\ who = nick
  BY ReachesLeaving DEF Leaves
<1>3. (who = nick \/ who = NoNick) /\ myNick # NoNick
  BY DEF Leaves, DispatchInv, BotIsThere
<1>4. view' = IF Reaches(e, from, n) THEN view \ Unseen(who) ELSE view
  BY DEF Leaves
<1>5. Unseen(who) = Unseen(nick) \/ Unseen(who) = {NoNick}
  BY <1>3 DEF Unseen
<1> HIDE DEF who
<1>6. DispatchTypeOK' /\ BotIsThere'
  <2>1. silent' \subseteq Nicks /\ view' \subseteq Nicks
    BY <1>4 DEF Leaves, DispatchInv, DispatchTypeOK
  <2>2. met' \subseteq members' /\ members' \subseteq Nicks
    BY DEF Leaves, DispatchInv, DispatchTypeOK
  <2>3. BotIsThere'
    BY DEF Leaves, Unseen, DispatchInv, DispatchTypeOK, BotIsThere
  <2> QED
    BY <1>1, <2>1, <2>2, <2>3 DEF Leaves, DispatchInv, DispatchTypeOK
<1>7. ViewComplete'
  <2>1. met \subseteq view /\ met \subseteq Nicks
    BY DEF DispatchInv, DispatchTypeOK, ViewComplete
  <2> QED
    BY <1>4, <1>5, <2>1 DEF Leaves, ViewComplete
<1>8. ViewStale'
  <2>1. CASE Told(e, from, n)
    BY <1>2, <1>4, <2>1 DEF Leaves, DispatchInv, ViewStale
  <2>2. CASE ~Told(e, from, n)
    BY <1>4, <2>2 DEF Leaves, DispatchInv, ViewStale
  <2> QED
    BY <2>1, <2>2
<1> QED
  BY <1>1, <1>6, <1>7, <1>8 DEF DispatchInv

LEMMA RenamesKeeps ==
  ASSUME DispatchInv, NEW old \in Nicks, NEW new \in Nicks, NEW from,
         NEW n \in 0..3, Renames(old, new, from, n)
  PROVE  DispatchInv'
<1> USE NicksAssumption DEF NicksAssumption
<1>1. /\ lost' \subseteq {"running", "delay"}
      /\ bare' \in BOOLEAN
      /\ overread' \subseteq (DOMAIN Examples \cup {"wrapper"}) \X Events
      /\ ParentCalled'
  <2>1. "nick" \in Events
    BY DEF Events
  <2> QED
    BY <2>1, WrapKeeps DEF Renames, Swap, Follow, DispatchInv
<1>2. Reaches("nick", from, n)
  BY ReachesNick DEF Renames
<1>3. DispatchTypeOK'
  <2>1. silent' \subseteq Nicks /\ members' \subseteq Nicks
        /\ myNick' \in Nicks \cup {NoNick}
    BY DEF Renames, Swap, Follow, DispatchInv, DispatchTypeOK
  <2>2. view' \subseteq Nicks
    BY <1>2 DEF Renames, Swap, Follow, DispatchInv, DispatchTypeOK
  <2>3. met' \subseteq members'
    BY DEF Renames, Swap, Follow, DispatchInv, DispatchTypeOK, BotIsThere
  <2> QED
    BY <1>1, <2>1, <2>2, <2>3 DEF DispatchTypeOK
<1>4. BotIsThere'
  BY DEF Renames, Swap, Follow, DispatchInv, BotIsThere
<1>5. ViewComplete'
  BY <1>2 DEF Renames, Swap, Follow, DispatchInv, DispatchTypeOK, ViewComplete
<1>6. ViewStale'
  <2>1. CASE from = NoNick
    BY <1>2, <2>1 DEF Renames, Swap, Follow, DispatchInv, ViewStale
  <2>2. CASE from # NoNick /\ old \in members
    BY <1>2, <2>2 DEF Renames, Swap, Follow, DispatchInv, ViewStale
  <2>3. CASE from # NoNick /\ old \notin members
    BY <1>2, <2>3 DEF Renames, Swap, Follow, DispatchInv, ViewStale
  <2> QED
    BY <2>1, <2>2, <2>3
<1> QED
  BY <1>1, <1>3, <1>4, <1>5, <1>6 DEF DispatchInv

LEMMA HappensKeeps ==
  ASSUME DispatchInv, NEW e \in Events, NEW from, NEW n \in 0..3,
         Happens(e, from, n)
  PROVE  DispatchInv'
<1>1. /\ lost' \subseteq {"running", "delay"}
      /\ bare' \in BOOLEAN
      /\ overread' \subseteq (DOMAIN Examples \cup {"wrapper"}) \X Events
      /\ ParentCalled'
  BY WrapKeeps DEF Happens, DispatchInv
<1>2. DispatchTypeOK'
  BY <1>1 DEF Happens, DispatchInv, DispatchTypeOK
<1> QED
  BY <1>1, <1>2 DEF Happens, DispatchInv, BotIsThere, ViewComplete, ViewStale

LEMMA DispatchStep == DispatchInv /\ [DispatchNext]_dispatchVars => DispatchInv'
<1> SUFFICES ASSUME DispatchInv, [DispatchNext]_dispatchVars PROVE DispatchInv'
  OBVIOUS
<1>1. CASE DispatchNext
  BY <1>1, ConnectedKeeps, JoinsKeeps, LeavesKeeps, RenamesKeeps, HappensKeeps
     DEF DispatchNext
<1>2. CASE UNCHANGED dispatchVars
  BY <1>2 DEF dispatchVars, DispatchInv, DispatchTypeOK, BotIsThere,
              ViewComplete, ViewStale, ParentCalled
<1> QED
  BY <1>1, <1>2

----------------------------------------------------------------------------

\* The types hold for every set of nicks.
THEOREM DispatchTypeCorrect == DispatchSpec => []DispatchTypeOK
<1>1. DispatchInv => DispatchTypeOK
  BY DEF DispatchInv
<1> QED
  BY DispatchInitially, DispatchStep, <1>1, PTL DEF DispatchSpec

\* A class that keeps the nicks it is told of never misses somebody who came or
\* took another nick while the bot was there, if the event had an origin (cpp
\* 28-54).
THEOREM ViewCompleteCorrect == DispatchSpec => []ViewComplete
<1>1. DispatchInv => ViewComplete
  BY DEF DispatchInv
<1> QED
  BY DispatchInitially, DispatchStep, <1>1, PTL DEF DispatchSpec

\* It keeps a nick too long only after an event without an origin, or a QUIT or
\* a KICK without its optional parameters (cpp 40, 86).
THEOREM ViewStaleCorrect == DispatchSpec => []ViewStale
<1>1. DispatchInv => ViewStale
  BY DEF DispatchInv
<1> QED
  BY DispatchInitially, DispatchStep, <1>1, PTL DEF DispatchSpec

\* SimpleBot loses nothing that the handlers of IrcConnection do, but for a
\* connect without parameters, which the wrapper drops (cpp 21).
THEOREM ParentCalledCorrect == DispatchSpec => []ParentCalled
<1>1. DispatchInv => ParentCalled
  BY DEF DispatchInv
<1> QED
  BY DispatchInitially, DispatchStep, <1>1, PTL DEF DispatchSpec
----------------------------------------------------------------------------
(* The parameters that are read                                            *)

\* What each reader can be made to read that is not there.
LEMMA WrapperReads ==
  ASSUME NEW e \in Events, NEW from, NEW n \in Delivered(e),
         Reaches(e, from, n), Reads(e) > n
  PROVE  e = "topic"
BY DEF Events, Delivered, Reaches, Reads, Copied, ChannelEventCount,
       MessageCount, LeastCount, callbacks

LEMMA CensorReads ==
  ASSUME NEW e \in Events, NEW from, NEW n \in Delivered(e)
  PROVE  ~ReadsPast("censor", e, from, n)
BY DEF ReadsPast, Examples, censor_handlers, Delivered, Events

LEMMA SpammerReads ==
  ASSUME NEW e \in Events, NEW from, NEW n \in Delivered(e),
         ReadsPast("spammer", e, from, n)
  PROVE  e \in {"join", "numeric"}
BY DEF ReadsPast, Examples, spammer_handlers, Delivered, Events

LEMMA IrctestReads ==
  ASSUME NEW e \in Events, NEW from, NEW n \in Delivered(e),
         ReadsPast("irctest", e, from, n)
  PROVE  e = "privmsg"
BY DEF ReadsPast, Examples, irctest_handlers, Delivered, Events

LEMMA IrcftpReads ==
  ASSUME NEW e \in Events, NEW from, NEW n \in Delivered(e)
  PROVE  ~ReadsPast("ircftp", e, from, n)
BY DEF ReadsPast, Examples, ircftp_handlers, Delivered, Events

LEMMA ColorsReads ==
  ASSUME NEW e \in Events, NEW from, NEW n \in Delivered(e),
         ReadsPast("colors", e, from, n)
  PROVE  e = "channel"
BY DEF ReadsPast, Examples, colors_handlers, Delivered, Events

\* Together, after any event with any count it may come with.
LEMMA WrapReads ==
  ASSUME NEW e \in Events, NEW from, NEW n \in Delivered(e),
         Wrap(e, from, n)
  PROVE  ReadsWithin'
<1>1. DOMAIN Examples = {"censor", "spammer", "irctest", "ircftp", "colors"}
  BY DEF Examples
<1>2. ASSUME NEW p \in DOMAIN Examples, ReadsPast(p, e, from, n)
      PROVE  \/ p = "spammer" /\ e \in {"join", "numeric"}
             \/ p = "colors" /\ e = "channel"
             \/ p = "irctest" /\ e = "privmsg"
  BY <1>1, <1>2, CensorReads, SpammerReads, IrctestReads, IrcftpReads,
     ColorsReads
<1> QED
  BY <1>2, WrapperReads DEF Wrap, ReadsWithin

LEMMA ReadsStep == ReadsWithin /\ [DispatchNext]_dispatchVars => ReadsWithin'
<1> SUFFICES ASSUME ReadsWithin, [DispatchNext]_dispatchVars
             PROVE  ReadsWithin'
  OBVIOUS
<1>1. CASE DispatchNext
  <2>1. \E e \in Events, from \in Nicks \cup {NoNick} :
          \E n \in Delivered(e) : Wrap(e, from, n)
    BY <1>1 DEF DispatchNext, Connected, Joins, Leaves, Renames, Happens,
                Events
  <2> QED
    BY <2>1, WrapReads
<1>2. CASE UNCHANGED dispatchVars
  BY <1>2 DEF dispatchVars, ReadsWithin
<1> QED
  BY <1>1, <1>2

\* Whatever counts the library delivers, a parameter that is not there is read
\* by the wrapper of topic (cpp 103), the spammer (spammer.c 108, 140), colors
\* and irctest only.
THEOREM ReadsWithinCorrect == DispatchSpec => []ReadsWithin
<1>1. DispatchInit => ReadsWithin
  BY DEF DispatchInit, ReadsWithin
<1> QED
  BY <1>1, ReadsStep, PTL DEF DispatchSpec
=============================================================================
