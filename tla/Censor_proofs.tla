---------------------------- MODULE Censor_proofs ----------------------------
(***************************************************************************)
(* Theorems about the censor, for any number of visitors and nicks and any *)
(* number of events on their way.                                          *)
(*                                                                         *)
(* The count of a nick is right only once the events before it have been   *)
(* read, so an invariant on the table alone says little.  The invariant    *)
(* speaks of all the tables to come: the one there is, the one after the   *)
(* first event on its way, and so on to the one after the last.  They are  *)
(* not state of the program; that a sequence of them exists is enough, and *)
(* it grows at its end when something happens and loses its first when the *)
(* censor has read an event.                                               *)
(***************************************************************************)
EXTENDS Censor, SequenceTheorems, TLAPS

Event == [type : {"nick", "swear"}, name : Names, new : Names]
Table == [Names -> Nat]
Tables == [Nat -> Table]

\* The table after e, as event_nick and event_channel leave it.
Read(t, e) ==
  IF e.type = "nick"
    THEN IF t[e.name] > 0
           THEN [t EXCEPT ![e.new] = t[e.name], ![e.name] = 0]
           ELSE t
    ELSE [t EXCEPT ![e.name] = @ + 1]

\* tables[i] is the table after the first i events of queue.
Follows(tables, start, queue) ==
  /\ tables[0] = start
  /\ \A i \in 1..Len(queue) : tables[i] = Read(tables[i - 1], queue[i])

----------------------------------------------------------------------------
(* Tables                                                                  *)

LEMMA ReadIsTable ==
  ASSUME NEW t \in Table, NEW e \in Event
  PROVE  Read(t, e) \in Table
BY DEF Read, Table, Event

\* A nick that is in neither place of the event keeps its count.
LEMMA ReadNick ==
  ASSUME NEW t \in Table, NEW m \in Names, NEW n \in Names, m # n
  PROVE  LET next == Read(t, [type |-> "nick", name |-> m, new |-> n])
         IN  /\ next[m] = 0
             /\ next[n] = IF t[m] > 0 THEN t[m] ELSE t[n]
             /\ \A x \in Names \ {m, n} : next[x] = t[x]
BY DEF Read, Table

LEMMA ReadSwear ==
  ASSUME NEW t \in Table, NEW m \in Names, NEW n \in Names
  PROVE  LET next == Read(t, [type |-> "swear", name |-> m, new |-> n])
         IN  /\ next[m] = t[m] + 1
             /\ \A x \in Names \ {m} : next[x] = t[x]
BY DEF Read, Table

\* One more event on its way, one more table to come.
LEMMA TablesGrow ==
  ASSUME NEW tables \in Tables, NEW start, NEW queue \in Seq(Event),
         Follows(tables, start, queue), NEW e \in Event
  PROVE  \E new \in Tables :
           /\ Follows(new, start, Append(queue, e))
           /\ new[Len(queue) + 1] = Read(tables[Len(queue)], e)
           /\ \A i \in 0..Len(queue) : new[i] = tables[i]
<1> DEFINE k == Len(queue)
           new == [tables EXCEPT ![k + 1] = Read(tables[k], e)]
<1>1. k \in Nat
  BY LenProperties
<1>2. tables[k] \in Table
  BY <1>1 DEF Tables
<1>3. new \in Tables
  BY <1>1, <1>2, ReadIsTable DEF Tables
<1>4. new[k + 1] = Read(tables[k], e)
  BY <1>1 DEF Tables
<1>5. \A i \in 0..k : new[i] = tables[i]
  BY <1>1 DEF Tables
<1>6. /\ Len(Append(queue, e)) = k + 1
      /\ \A i \in 1..k : Append(queue, e)[i] = queue[i]
      /\ Append(queue, e)[k + 1] = e
  BY AppendProperties, <1>1
<1>7. ASSUME NEW i \in 1..k + 1
      PROVE  new[i] = Read(new[i - 1], Append(queue, e)[i])
  <2>1. CASE i \in 1..k
    <3>1. i \in 0..k /\ i - 1 \in 0..k
      BY <1>1, <2>1
    <3> QED
      BY <1>5, <1>6, <2>1, <3>1 DEF Follows
  <2>2. CASE i = k + 1
    <3>1. i - 1 = k /\ k \in 0..k
      BY <1>1, <2>2
    <3> QED
      BY <1>4, <1>5, <1>6, <2>2, <3>1
  <2> QED
    BY <1>1, <2>1, <2>2
<1>8. new[0] = start
  BY <1>1, <1>5 DEF Follows
<1>9. Follows(new, start, Append(queue, e))
  BY <1>6, <1>7, <1>8 DEF Follows
<1> HIDE DEF new
<1> QED
  BY <1>3, <1>4, <1>5, <1>9

\* An event that was read takes the first table away.
LEMMA TablesShrink ==
  ASSUME NEW tables \in Tables, NEW start, NEW queue \in Seq(Event),
         Follows(tables, start, queue), queue # <<>>
  PROVE  /\ tables[1] = Read(start, Head(queue))
         /\ \E new \in Tables :
              /\ Follows(new, tables[1], Tail(queue))
              /\ \A i \in Nat : new[i] = tables[i + 1]
<1> DEFINE k == Len(queue)
           new == [i \in Nat |-> tables[i + 1]]
<1>1. k \in Nat \ {0}
  BY EmptySeq
<1>2. tables[1] = Read(start, Head(queue))
  <2>1. 1 \in 1..k /\ 1 - 1 = 0
    BY <1>1
  <2>2. tables[1] = Read(tables[1 - 1], queue[1])
    BY <2>1 DEF Follows
  <2> QED
    BY <2>1, <2>2 DEF Follows
<1>3. new \in Tables
  BY DEF Tables
<1>4. /\ Len(Tail(queue)) = k - 1
      /\ \A i \in 1..k - 1 : Tail(queue)[i] = queue[i + 1]
  BY <1>1, HeadTailProperties
<1>5. ASSUME NEW i \in 1..k - 1
      PROVE  new[i] = Read(new[i - 1], Tail(queue)[i])
  <2>1. i + 1 \in 1..k /\ (i + 1) - 1 = i /\ (i - 1) + 1 = i
        /\ i \in Nat /\ i - 1 \in Nat
    BY <1>1
  <2>2. tables[i + 1] = Read(tables[(i + 1) - 1], queue[i + 1])
    BY <2>1 DEF Follows
  <2> QED
    BY <1>4, <2>1, <2>2
<1>6. new[0] = tables[1]
  OBVIOUS
<1>7. Follows(new, tables[1], Tail(queue))
  BY <1>4, <1>5, <1>6 DEF Follows
<1> QED
  BY <1>2, <1>3, <1>7
----------------------------------------------------------------------------
(* The invariant                                                           *)

\* v has never carried a used nick, and nobody else has ever carried n.
Own(v, n) == v \notin inherits /\ carriers[n] = {v}

OneName ==
  \A v, w \in Visitors : Here(v) /\ nameOf[v] = nameOf[w] => v = w

\* Who carries a nick, and who has carried one.
Carried ==
  /\ \A v \in Visitors : Here(v) => v \in carriers[nameOf[v]]
  /\ \A n \in Names : carriers[n] \subseteq came

CleanStart ==
  \A v \in Visitors : v \notin came => nameOf[v] = NoName /\ offences[v] = 0

\* While a visitor who never inherited carries a nick, nobody else comes to it.
SoleCarrier ==
  \A v \in Visitors \ inherits : Here(v) => carriers[nameOf[v]] = {v}

\* A KICK that is on its way is deserved by the only carrier of its nick.
KicksEarned ==
  \A n \in kicks :
    /\ carriers[n] # {}
    /\ \A v \in Visitors : Own(v, n) => offences[v] >= 3

WorldInv ==
  /\ CensorTypeOK /\ events \in Seq(Event)
  /\ OneName /\ Carried /\ CleanStart /\ SoleCarrier

\* A nick that nobody has carried has no count in any table to come.
Unheard(tables) ==
  \A i \in 0..Len(events), n \in Names : carriers[n] = {} => tables[i][n] = 0

\* No table to come has a higher count than the only carrier deserves.
Bounded(tables) ==
  \A i \in 0..Len(events), v \in Visitors, n \in Names :
    Own(v, n) => tables[i][n] <= offences[v]

\* The last table has what each visitor did, under the present nick, ...
Settled(tables) ==
  \A v \in Visitors \ inherits :
    Here(v) => tables[Len(events)][nameOf[v]] = offences[v]

\* ... and nothing under the former ones.
NoneLeft(tables) ==
  \A v \in Visitors, n \in Names :
    Own(v, n) /\ Here(v) /\ n # nameOf[v] => tables[Len(events)][n] = 0

Fits(tables) ==
  /\ Follows(tables, insolents, events)
  /\ Unheard(tables) /\ Bounded(tables)
  /\ Settled(tables) /\ NoneLeft(tables)

TablesInv == \E tables \in Tables : Fits(tables)

CensorInv == WorldInv /\ TablesInv /\ KicksEarned /\ NoUndeservedKick

LEMMA CensorInitially == CensorInit => CensorInv
<1> SUFFICES ASSUME CensorInit PROVE CensorInv
  OBVIOUS
<1> USE CensorAssumption DEF CensorAssumption, CensorInit, Here
<1>1. events \in Seq(Event) /\ Len(events) = 0
  BY EmptySeq
<1>2. WorldInv
  BY <1>1 DEF WorldInv, CensorTypeOK, OneName, Carried, CleanStart, SoleCarrier
<1>3. KicksEarned /\ NoUndeservedKick
  BY DEF KicksEarned, NoUndeservedKick
<1>4. TablesInv
  <2> DEFINE tables == [i \in Nat |-> insolents]
  <2>1. tables \in Tables
    BY DEF Tables, Table
  <2>2. tables[0] = insolents
    OBVIOUS
  <2>3. Follows(tables, insolents, events)
    BY <1>1, <2>2 DEF Follows
  <2>4. Unheard(tables) /\ Bounded(tables)
    BY <1>1 DEF Unheard, Bounded, Own
  <2>5. Settled(tables) /\ NoneLeft(tables)
    BY DEF Settled, NoneLeft
  <2> QED
    BY <2>1, <2>3, <2>4, <2>5 DEF TablesInv, Fits
<1> QED
  BY <1>2, <1>3, <1>4 DEF CensorInv

----------------------------------------------------------------------------
(* The censor reads an event                                               *)

LEMMA HandleReads ==
  ASSUME WorldInv, event_nick \/ event_channel
  PROVE  insolents' = Read(insolents, Head(events))
BY DEF event_nick, event_channel, Followed, Read

LEMMA HandleWorld ==
  ASSUME WorldInv, Handle
  PROVE  WorldInv' /\ NoUndeservedKick' = NoUndeservedKick
<1> USE DEF WorldInv, Handle, Here
<1>1. events # <<>> /\ events' = Tail(events)
  BY DEF event_nick, event_channel
<1>2. Head(events) \in Event
  BY <1>1, HeadTailProperties
<1>3. events' \in Seq(Event) /\ Len(events') <= MaxEvents
  <2>1. Len(events') = Len(events) - 1 /\ Len(events) \in Nat
        /\ events' \in Seq(Event)
    BY <1>1, HeadTailProperties, LenProperties
  <2> QED
    BY <2>1, CensorAssumption DEF CensorAssumption, CensorTypeOK
<1>4. insolents' \in [Names -> Nat]
  <2>1. insolents \in Table
    BY DEF CensorTypeOK, Table
  <2>2. insolents' \in Table
    BY <1>2, <2>1, HandleReads, ReadIsTable
  <2> QED
    BY <2>2 DEF Table
<1>5. kicks' \subseteq Names /\ refused' \subseteq Names
  BY <1>2 DEF event_nick, event_channel, Kick, CensorTypeOK, Event
<1>6. CensorTypeOK'
  BY <1>3, <1>4, <1>5 DEF CensorTypeOK
<1>7. OneName' /\ Carried' /\ CleanStart' /\ SoleCarrier'
  BY DEF OneName, Carried, CleanStart, SoleCarrier
<1> QED
  BY <1>3, <1>6, <1>7 DEF NoUndeservedKick

LEMMA HandleKeeps ==
  ASSUME CensorInv, Handle
  PROVE  CensorInv'
<1> PICK tables \in Tables : Fits(tables)
  BY DEF CensorInv, TablesInv
<1>1. WorldInv' /\ NoUndeservedKick'
  BY HandleWorld DEF CensorInv
<1>2. events # <<>> /\ events' = Tail(events) /\ events \in Seq(Event)
  BY DEF Handle, event_nick, event_channel, CensorInv, WorldInv
<1>3. UNCHANGED <<nameOf, came, carriers, offences, inherits>>
  BY DEF Handle
<1>4. tables[1] = insolents'
  BY <1>2, TablesShrink, HandleReads DEF Handle, Fits, CensorInv
<1>5. Len(events) \in Nat \ {0} /\ Len(events') = Len(events) - 1
  BY <1>2, EmptySeq, HeadTailProperties
<1>6. TablesInv'
  <2>1. PICK new \in Tables : /\ Follows(new, tables[1], Tail(events))
                              /\ \A i \in Nat : new[i] = tables[i + 1]
    BY <1>2, TablesShrink DEF Fits
  <2>2. Follows(new, insolents', events')
    BY <1>2, <1>4, <2>1
  <2>3. \A i \in 0..Len(events') : i + 1 \in 0..Len(events)
                                  /\ new[i] = tables[i + 1]
    BY <1>5, <2>1
  <2>4. new[Len(events')] = tables[Len(events)]
    BY <1>5, <2>1
  <2>5. Unheard(new)'
    BY <1>3, <2>3 DEF Fits, Unheard
  <2>6. Bounded(new)'
    BY <1>3, <2>3 DEF Fits, Bounded, Own
  <2>7. Settled(new)' /\ NoneLeft(new)'
    BY <1>3, <2>4 DEF Fits, Settled, NoneLeft, Own, Here
  <2> QED
    BY <2>2, <2>5, <2>6, <2>7 DEF TablesInv, Fits
<1>7. KicksEarned'
  <2>1. ASSUME NEW n \in kicks' \ kicks
        PROVE  n \in Names /\ insolents'[n] \in Nat /\ insolents'[n] >= 3
    <3>1. Head(events) \in Event
      BY <1>2, HeadTailProperties
    <3>2. event_channel /\ n = Head(events).name
      BY <2>1 DEF Handle, event_nick, event_channel, Kick
    <3>3. n \in Names
      BY <3>1, <3>2 DEF Event
    <3>4. insolents[n] \in Nat /\ insolents'[n] = insolents[n] + 1
      BY <3>2, <3>3 DEF event_channel, CensorInv, WorldInv, CensorTypeOK
    <3>5. insolents'[n] \notin {1, 2}
      BY <2>1, <3>2 DEF event_channel
    <3> QED
      BY <3>3, <3>4, <3>5
  <2>2. 1 \in 0..Len(events)
    BY <1>5
  <2>3. ASSUME NEW n \in kicks' \ kicks
        PROVE  carriers[n] # {}
    BY <1>4, <2>1, <2>2 DEF Fits, Unheard
  <2>4. ASSUME NEW n \in kicks' \ kicks, NEW v \in Visitors, Own(v, n)
        PROVE  offences[v] >= 3
    <3>1. insolents'[n] <= offences[v]
      BY <1>4, <2>1, <2>2, <2>4 DEF Fits, Bounded
    <3>2. offences[v] \in Nat
      BY CensorAssumption
         DEF CensorAssumption, CensorInv, WorldInv, CensorTypeOK
    <3> QED
      BY <2>1, <3>1, <3>2
  <2> QED
    BY <1>3, <2>3, <2>4 DEF CensorInv, KicksEarned, Own
<1> QED
  BY <1>1, <1>6, <1>7 DEF CensorInv
----------------------------------------------------------------------------
(* What the visitors and the server do                                     *)

\* Something that happens to v, of which the censor will be told.
LEMMA EventSent ==
  ASSUME WorldInv, NEW e \in Event, Len(events) < MaxEvents,
         events' = Append(events, e)
  PROVE  /\ events' \in Seq(Event)
         /\ Len(events') = Len(events) + 1
         /\ Len(events') <= MaxEvents
<1>1. events \in Seq(Event) /\ Len(events) \in Nat
  BY LenProperties DEF WorldInv
<1>2. events' \in Seq(Event) /\ Len(events') = Len(events) + 1
  BY <1>1, AppendProperties
<1> QED
  BY <1>1, <1>2, CensorAssumption DEF CensorAssumption

\* v gets the nick n.
LEMMA CarryKeeps ==
  ASSUME WorldInv, NEW v \in Visitors, NEW n \in Names, Carry(v, n),
         v \in came', came \subseteq came'
  PROVE  /\ nameOf' \in [Visitors -> Names \cup {NoName}]
         /\ carriers' \in [Names -> SUBSET Visitors]
         /\ inherits' \subseteq Visitors
         /\ OneName' /\ Carried' /\ SoleCarrier'
<1> USE CensorAssumption DEF CensorAssumption, WorldInv, Carry, Here
<1>1. /\ nameOf' \in [Visitors -> Names \cup {NoName}]
      /\ carriers' \in [Names -> SUBSET Visitors]
      /\ inherits' \subseteq Visitors
  BY DEF CensorTypeOK
<1>2. /\ nameOf'[v] = n /\ carriers'[n] = carriers[n] \cup {v}
      /\ \A u \in Visitors \ {v} : nameOf'[u] = nameOf[u] /\ nameOf[u] # n
      /\ \A x \in Names \ {n} : carriers'[x] = carriers[x]
      /\ inherits \subseteq inherits'
      /\ v \notin inherits' => carriers[n] \subseteq {v}
  BY DEF CensorTypeOK, Free
<1>3. OneName'
  BY <1>2 DEF OneName
<1>4. Carried'
  BY <1>1, <1>2 DEF Carried, CensorTypeOK
<1>5. SoleCarrier'
  BY <1>1, <1>2 DEF SoleCarrier, CensorTypeOK
<1> QED
  BY <1>1, <1>3, <1>4, <1>5

\* A change of carriers alone disturbs no KICK on its way.
LEMMA CarryKicks ==
  ASSUME CensorInv, NEW v \in Visitors, NEW n \in Names, Carry(v, n),
         UNCHANGED <<kicks, offences>>
  PROVE  KicksEarned'
<1>1. /\ carriers'[n] = carriers[n] \cup {v}
      /\ \A x \in Names \ {n} : carriers'[x] = carriers[x]
      /\ inherits \subseteq inherits'
      /\ kicks \subseteq Names
  BY DEF Carry, CensorInv, WorldInv, CensorTypeOK
<1> SUFFICES ASSUME NEW x \in kicks
             PROVE  /\ carriers'[x] # {}
                    /\ \A u \in Visitors : Own(u, x)' => offences[u] >= 3
  BY DEF KicksEarned
<1>2. carriers[x] # {} /\ carriers[x] \subseteq carriers'[x]
  BY <1>1 DEF CensorInv, KicksEarned
<1>3. \A u \in Visitors : Own(u, x)' => Own(u, x)
  BY <1>1, <1>2 DEF Own
<1> QED
  BY <1>2, <1>3 DEF CensorInv, KicksEarned

LEMMA EnterKeeps ==
  ASSUME CensorInv, NEW v \in Visitors, NEW n \in Names, EnterChannel(v, n)
  PROVE  CensorInv'
<1>1. WorldInv'
  <2>1. /\ nameOf' \in [Visitors -> Names \cup {NoName}]
        /\ carriers' \in [Names -> SUBSET Visitors]
        /\ inherits' \subseteq Visitors
        /\ OneName' /\ Carried' /\ SoleCarrier'
    BY CarryKeeps DEF EnterChannel, CensorInv
  <2>2. CensorTypeOK'
    BY <2>1 DEF EnterChannel, CensorInv, WorldInv, CensorTypeOK
  <2>3. CleanStart'
    BY DEF EnterChannel, Carry, CensorInv, WorldInv, CensorTypeOK, CleanStart
  <2> QED
    BY <2>1, <2>2, <2>3 DEF EnterChannel, CensorInv, WorldInv
<1>2. KicksEarned'
  BY CarryKicks DEF EnterChannel
<1>3. NoUndeservedKick'
  BY DEF EnterChannel, Carry, CensorInv, NoUndeservedKick
<1>4. TablesInv'
  <2>1. PICK tables \in Tables : Fits(tables)
    BY DEF CensorInv, TablesInv
  <2>2. /\ nameOf'[v] = n /\ carriers'[n] = carriers[n] \cup {v}
        /\ \A u \in Visitors \ {v} : nameOf'[u] = nameOf[u]
        /\ \A x \in Names \ {n} : carriers'[x] = carriers[x]
        /\ inherits \subseteq inherits'
        /\ v \notin inherits' => carriers[n] \subseteq {v}
        /\ UNCHANGED <<events, insolents, offences>>
    BY DEF EnterChannel, Carry, CensorInv, WorldInv, CensorTypeOK
  <2>3. offences[v] = 0 /\ \A x \in Names : v \notin carriers[x]
    BY DEF EnterChannel, CensorInv, WorldInv, CleanStart, Carried
  <2>4. Len(events) \in Nat
    BY LenProperties DEF CensorInv, WorldInv
  <2>5. Unheard(tables)'
    BY <2>1, <2>2 DEF Fits, Unheard
  <2>6. Bounded(tables)'
    <3> SUFFICES ASSUME NEW i \in 0..Len(events), NEW u \in Visitors,
                        NEW x \in Names, Own(u, x)'
                 PROVE  tables[i][x] <= offences[u]
      BY <2>2 DEF Bounded
    <3>1. CASE x # n
      BY <2>1, <2>2, <3>1 DEF Fits, Bounded, Own
    <3>2. CASE x = n
      <4>1. u = v /\ carriers[n] = {}
        BY <2>2, <2>3, <3>2 DEF Own
      <4>2. tables[i][n] = 0
        BY <2>1, <4>1 DEF Fits, Unheard
      <4> QED
        BY <2>3, <3>2, <4>1, <4>2
    <3> QED
      BY <3>1, <3>2
  <2>7. Settled(tables)'
    <3> SUFFICES ASSUME NEW u \in Visitors \ inherits', Here(u)'
                 PROVE  tables[Len(events)][nameOf'[u]] = offences[u]
      BY <2>2 DEF Settled
    <3>1. CASE u # v
      BY <2>1, <2>2, <3>1 DEF Fits, Settled, Here
    <3>2. CASE u = v
      <4>1. carriers[n] = {}
        BY <2>2, <2>3, <3>2
      <4> QED
        BY <2>1, <2>2, <2>3, <2>4, <3>2, <4>1 DEF Fits, Unheard
    <3> QED
      BY <3>1, <3>2
  <2>8. NoneLeft(tables)'
    <3> SUFFICES ASSUME NEW u \in Visitors, NEW x \in Names, Own(u, x)',
                        Here(u)', x # nameOf'[u]
                 PROVE  tables[Len(events)][x] = 0
      BY <2>2 DEF NoneLeft
    <3>1. u # v /\ x # n
      BY <2>2, <2>3 DEF Own
    <3> QED
      BY <2>1, <2>2, <3>1 DEF Fits, NoneLeft, Own, Here
  <2> QED
    BY <2>1, <2>2, <2>5, <2>6, <2>7, <2>8 DEF TablesInv, Fits
<1> QED
  BY <1>1, <1>2, <1>3, <1>4 DEF CensorInv
LEMMA RenameTables ==
  ASSUME CensorInv, NEW v \in Visitors, NEW n \in Names, Rename(v, n)
  PROVE  TablesInv'
<1> DEFINE m == nameOf[v]
           k == Len(events)
           e == [type |-> "nick", name |-> m, new |-> n]
<1> USE DEF CensorInv
<1>1. m \in Names /\ m # n /\ Here(v)
  BY DEF Rename, Carry, Free, Here, WorldInv, CensorTypeOK
<1>2. e \in Event /\ events' = Append(events, e)
  BY <1>1 DEF Rename, Event
<1>3. k \in Nat /\ Len(events') = k + 1
  BY <1>2, AppendProperties, LenProperties DEF WorldInv
<1>4. /\ nameOf'[v] = n /\ carriers'[n] = carriers[n] \cup {v}
      /\ \A u \in Visitors \ {v} : nameOf'[u] = nameOf[u]
      /\ \A x \in Names \ {n} : carriers'[x] = carriers[x]
      /\ inherits \subseteq inherits'
      /\ v \notin inherits' => carriers[n] \subseteq {v}
      /\ UNCHANGED <<insolents, offences>>
  BY DEF Rename, Carry, WorldInv, CensorTypeOK
<1>5. v \in carriers[m] /\ v \in carriers'[m] /\ v \in carriers'[n]
  BY <1>1, <1>4 DEF WorldInv, Carried
<1>6. \A u \in Visitors \ {v} : Here(u) => nameOf[u] \in Names \ {m, n}
  BY <1>1 DEF Rename, Carry, Free, Here, WorldInv, CensorTypeOK, OneName
<1>7. PICK tables \in Tables : Fits(tables)
  BY DEF TablesInv
<1>8. PICK new \in Tables :
        /\ Follows(new, insolents, Append(events, e))
        /\ new[k + 1] = Read(tables[k], e)
        /\ \A i \in 0..k : new[i] = tables[i]
  <2>1. events \in Seq(Event) /\ Follows(tables, insolents, events)
    BY <1>7 DEF WorldInv, Fits
  <2> QED
    BY <1>2, <2>1, TablesGrow
<1> DEFINE last == tables[k]
           next == new[k + 1]
<1>9. last \in Table /\ k \in 0..k
  BY <1>3, <1>7 DEF Tables
<1>10. /\ next[m] = 0
       /\ next[n] = IF last[m] > 0 THEN last[m] ELSE last[n]
       /\ \A x \in Names \ {m, n} : next[x] = last[x]
  BY <1>1, <1>8, <1>9, ReadNick
<1>11. last[m] \in Nat /\ last[n] \in Nat
  BY <1>1, <1>9 DEF Table
<1> HIDE DEF m, k, e, last, next
\* What the new table has for the new nick of a visitor who never inherited.
<1>12. v \notin inherits' => next[n] = offences[v]
  <2> SUFFICES ASSUME v \notin inherits' PROVE next[n] = offences[v]
    OBVIOUS
  <2>1. last[m] = offences[v]
    BY <1>1, <1>4, <1>7 DEF Fits, Settled, m, k, last
  <2>2. carriers[n] = {} \/ Own(v, n)
    BY <1>4 DEF Own
  <2>3. last[n] = 0
    <3>1. CASE carriers[n] = {}
      BY <1>7, <1>9, <3>1 DEF Fits, Unheard, k, last
    <3>2. CASE Own(v, n)
      BY <1>1, <1>7, <3>2 DEF Fits, NoneLeft, m, k, last
    <3> QED
      BY <2>2, <3>1, <3>2
  <2> QED
    BY <1>10, <1>11, <2>1, <2>3
<1>13. Unheard(new)'
  <2> SUFFICES ASSUME NEW i \in 0..k + 1, NEW x \in Names, carriers'[x] = {}
               PROVE  new[i][x] = 0
    BY <1>3 DEF Unheard
  <2>1. x \notin {m, n} /\ carriers[x] = {}
    BY <1>4, <1>5
  <2>2. CASE i \in 0..k
    BY <1>7, <1>8, <2>1, <2>2 DEF Fits, Unheard, k
  <2>3. CASE i = k + 1
    BY <1>7, <1>9, <1>10, <2>1, <2>3 DEF Fits, Unheard, k, last, next
  <2> QED
    BY <1>3, <2>2, <2>3
<1>14. Bounded(new)'
  <2> SUFFICES ASSUME NEW i \in 0..k + 1, NEW u \in Visitors, NEW x \in Names,
                      Own(u, x)'
               PROVE  new[i][x] <= offences[u]
    BY <1>3, <1>4 DEF Bounded
  <2>1. offences[u] \in Nat
    BY CensorAssumption DEF CensorAssumption, WorldInv, CensorTypeOK
  <2>2. carriers[x] = {} \/ Own(u, x)
    BY <1>4 DEF Own
  <2>3. ASSUME NEW j \in 0..k
        PROVE  tables[j][x] <= offences[u]
    <3>1. CASE carriers[x] = {}
      BY <1>7, <2>1, <3>1 DEF Fits, Unheard, k
    <3>2. CASE Own(u, x)
      BY <1>7, <3>2 DEF Fits, Bounded, k
    <3> QED
      BY <2>2, <3>1, <3>2
  <2>4. CASE i \in 0..k
    BY <1>8, <2>3, <2>4
  <2>5. CASE i = k + 1
    <3>1. CASE x = n
      <4>1. u = v
        BY <1>5, <3>1 DEF Own
      <4> QED
        BY <1>12, <2>1, <2>5, <3>1, <4>1 DEF Own, next
    <3>2. CASE x = m
      BY <1>10, <2>1, <2>5, <3>2 DEF next
    <3>3. CASE x \notin {m, n}
      BY <1>9, <1>10, <2>3, <2>5, <3>3 DEF last, next
    <3> QED
      BY <3>1, <3>2, <3>3
  <2> QED
    BY <1>3, <2>4, <2>5
<1>15. Settled(new)'
  <2> SUFFICES ASSUME NEW u \in Visitors \ inherits', Here(u)'
               PROVE  next[nameOf'[u]] = offences[u]
    BY <1>3, <1>4 DEF Settled, next
  <2>1. CASE u = v
    BY <1>4, <1>12, <2>1
  <2>2. CASE u # v
    <3>1. Here(u) /\ u \notin inherits /\ nameOf'[u] = nameOf[u]
      BY <1>4, <2>2 DEF Here
    <3>2. last[nameOf[u]] = offences[u]
      BY <1>7, <3>1 DEF Fits, Settled, k, last
    <3> QED
      BY <1>6, <1>10, <2>2, <3>1, <3>2
  <2> QED
    BY <2>1, <2>2
<1>16. NoneLeft(new)'
  <2> SUFFICES ASSUME NEW u \in Visitors, NEW x \in Names, Own(u, x)',
                      Here(u)', x # nameOf'[u]
               PROVE  next[x] = 0
    BY <1>3 DEF NoneLeft, next
  <2>1. CASE x = m
    BY <1>10, <2>1
  <2>2. CASE x # m
    <3>1. x # n
      BY <1>4, <1>5 DEF Own
    <3>2. Own(u, x)
      BY <1>4, <3>1 DEF Own
    <3>3. Here(u) /\ x # nameOf[u]
      <4>1. CASE u = v
        BY <1>1, <2>2, <4>1 DEF m
      <4>2. CASE u # v
        BY <1>4, <4>2 DEF Here
      <4> QED
        BY <4>1, <4>2
    <3>4. last[x] = 0
      BY <1>7, <3>2, <3>3 DEF Fits, NoneLeft, k, last
    <3> QED
      BY <1>10, <2>2, <3>1, <3>4
  <2> QED
    BY <2>1, <2>2
<1> QED
  BY <1>2, <1>4, <1>8, <1>13, <1>14, <1>15, <1>16 DEF TablesInv, Fits

LEMMA RenameKeeps ==
  ASSUME CensorInv, NEW v \in Visitors, NEW n \in Names, Rename(v, n)
  PROVE  CensorInv'
<1>1. WorldInv'
  <2>1. v \in came
    BY DEF Rename, Here, CensorInv, WorldInv, CleanStart
  <2>2. /\ nameOf' \in [Visitors -> Names \cup {NoName}]
        /\ carriers' \in [Names -> SUBSET Visitors]
        /\ inherits' \subseteq Visitors
        /\ OneName' /\ Carried' /\ SoleCarrier'
    BY <2>1, CarryKeeps DEF Rename, CensorInv
  <2>3. [type |-> "nick", name |-> nameOf[v], new |-> n] \in Event
    BY DEF Rename, Here, Event, CensorInv, WorldInv, CensorTypeOK
  <2>4. events' \in Seq(Event) /\ Len(events') <= MaxEvents
    BY <2>3, EventSent DEF Rename, CensorInv
  <2>5. CensorTypeOK'
    BY <2>2, <2>4 DEF Rename, CensorInv, WorldInv, CensorTypeOK
  <2>6. CleanStart'
    BY <2>1 DEF Rename, Carry, CensorInv, WorldInv, CensorTypeOK, CleanStart
  <2> QED
    BY <2>2, <2>4, <2>5, <2>6 DEF WorldInv
<1>2. KicksEarned'
  BY CarryKicks DEF Rename
<1>3. NoUndeservedKick'
  BY DEF Rename, Carry, CensorInv, NoUndeservedKick
<1> QED
  BY <1>1, <1>2, <1>3, RenameTables DEF CensorInv
LEMMA SwearTables ==
  ASSUME CensorInv, NEW v \in Visitors, Swear(v)
  PROVE  TablesInv'
<1> DEFINE m == nameOf[v]
           k == Len(events)
           e == [type |-> "swear", name |-> m, new |-> m]
<1> USE DEF CensorInv
<1>1. m \in Names /\ Here(v)
  BY DEF Swear, Here, WorldInv, CensorTypeOK
<1>2. e \in Event /\ events' = Append(events, e)
  BY <1>1 DEF Swear, Event
<1>3. k \in Nat /\ Len(events') = k + 1
  BY <1>2, AppendProperties, LenProperties DEF WorldInv
<1>4. /\ offences'[v] = offences[v] + 1
      /\ \A u \in Visitors \ {v} : offences'[u] = offences[u]
      /\ \A u \in Visitors : offences[u] \in Nat
      /\ UNCHANGED <<insolents, nameOf, carriers, inherits>>
  BY CensorAssumption
     DEF CensorAssumption, Swear, WorldInv, CensorTypeOK
<1>5. v \in carriers[m]
  BY <1>1 DEF WorldInv, Carried
<1>6. \A u \in Visitors \ {v} : Here(u) => nameOf[u] \in Names \ {m}
  BY <1>1 DEF Here, WorldInv, CensorTypeOK, OneName
<1>7. PICK tables \in Tables : Fits(tables)
  BY DEF TablesInv
<1>8. PICK new \in Tables :
        /\ Follows(new, insolents, Append(events, e))
        /\ new[k + 1] = Read(tables[k], e)
        /\ \A i \in 0..k : new[i] = tables[i]
  <2>1. events \in Seq(Event) /\ Follows(tables, insolents, events)
    BY <1>7 DEF WorldInv, Fits
  <2> QED
    BY <1>2, <2>1, TablesGrow
<1> DEFINE last == tables[k]
           next == new[k + 1]
<1>9. last \in Table /\ k \in 0..k
  BY <1>3, <1>7 DEF Tables
<1>10. next[m] = last[m] + 1 /\ \A x \in Names \ {m} : next[x] = last[x]
  BY <1>1, <1>8, <1>9, ReadSwear
<1>11. last[m] \in Nat
  BY <1>1, <1>9 DEF Table
<1>12. \A i \in 0..k, x \in Names : tables[i][x] \in Nat
  BY <1>3, <1>7 DEF Tables, Table
<1> HIDE DEF m, k, e, last, next
<1>13. Unheard(new)'
  <2> SUFFICES ASSUME NEW i \in 0..k + 1, NEW x \in Names, carriers[x] = {}
               PROVE  new[i][x] = 0
    BY <1>3, <1>4 DEF Unheard
  <2>1. CASE i \in 0..k
    BY <1>7, <1>8, <2>1 DEF Fits, Unheard, k
  <2>2. CASE i = k + 1
    BY <1>5, <1>7, <1>9, <1>10, <2>2 DEF Fits, Unheard, k, last, next
  <2> QED
    BY <1>3, <2>1, <2>2
<1>14. Bounded(new)'
  <2> SUFFICES ASSUME NEW i \in 0..k + 1, NEW u \in Visitors, NEW x \in Names,
                      Own(u, x)
               PROVE  new[i][x] <= offences'[u]
    BY <1>3, <1>4 DEF Bounded, Own
  <2>1. offences[u] <= offences'[u] /\ offences'[u] \in Nat
    BY <1>4
  <2>2. ASSUME NEW j \in 0..k
        PROVE  tables[j][x] <= offences[u]
    BY <1>7 DEF Fits, Bounded, k
  <2>3. CASE i \in 0..k
    BY <1>4, <1>8, <1>12, <2>1, <2>2, <2>3
  <2>4. CASE i = k + 1 /\ x = m
    <3>1. u = v
      BY <1>5, <2>4 DEF Own
    <3>2. last[m] <= offences[v]
      BY <1>9, <2>2, <2>4, <3>1 DEF last
    <3> QED
      BY <1>4, <1>10, <1>11, <2>4, <3>1, <3>2 DEF next
  <2>5. CASE i = k + 1 /\ x # m
    <3>1. last[x] <= offences[u] /\ last[x] \in Nat
      BY <1>9, <1>12, <2>2 DEF last
    <3>2. new[i][x] = last[x]
      BY <1>10, <2>5 DEF next
    <3> QED
      BY <1>4, <2>1, <3>1, <3>2
  <2> QED
    BY <1>3, <2>3, <2>4, <2>5
<1>15. Settled(new)'
  <2> SUFFICES ASSUME NEW u \in Visitors \ inherits, Here(u)
               PROVE  next[nameOf[u]] = offences'[u]
    BY <1>3, <1>4 DEF Settled, Here, next
  <2>1. last[nameOf[u]] = offences[u]
    BY <1>7 DEF Fits, Settled, k, last
  <2>2. CASE u = v
    BY <1>4, <1>10, <2>1, <2>2 DEF m
  <2>3. CASE u # v
    BY <1>4, <1>6, <1>10, <2>1, <2>3
  <2> QED
    BY <2>2, <2>3
<1>16. NoneLeft(new)'
  <2> SUFFICES ASSUME NEW u \in Visitors, NEW x \in Names, Own(u, x),
                      Here(u), x # nameOf[u]
               PROVE  next[x] = 0
    BY <1>3, <1>4 DEF NoneLeft, Own, Here, next
  <2>1. x # m
    BY <1>5 DEF Own, m
  <2>2. last[x] = 0
    BY <1>7 DEF Fits, NoneLeft, k, last
  <2> QED
    BY <1>10, <2>1, <2>2
<1> QED
  BY <1>2, <1>4, <1>8, <1>13, <1>14, <1>15, <1>16 DEF TablesInv, Fits

LEMMA SwearKeeps ==
  ASSUME CensorInv, NEW v \in Visitors, Swear(v)
  PROVE  CensorInv'
<1>1. WorldInv'
  <2>1. [type |-> "swear", name |-> nameOf[v], new |-> nameOf[v]] \in Event
    BY DEF Swear, Here, Event, CensorInv, WorldInv, CensorTypeOK
  <2>2. events' \in Seq(Event) /\ Len(events') <= MaxEvents
    BY <2>1, EventSent DEF Swear, CensorInv
  <2>3. CensorTypeOK'
    <3>1. offences' \in [Visitors -> 0..MaxSwears]
      BY CensorAssumption
         DEF CensorAssumption, Swear, CensorInv, WorldInv, CensorTypeOK
    <3> QED
      BY <2>2, <3>1 DEF Swear, CensorInv, WorldInv, CensorTypeOK
  <2>4. OneName' /\ Carried' /\ SoleCarrier' /\ CleanStart'
    BY DEF Swear, Here, CensorInv, WorldInv, CensorTypeOK, OneName, Carried,
           SoleCarrier, CleanStart
  <2> QED
    BY <2>2, <2>3, <2>4 DEF WorldInv
<1>2. \A u \in Visitors : offences[u] >= 3 => offences'[u] >= 3
  BY CensorAssumption
     DEF CensorAssumption, Swear, CensorInv, WorldInv, CensorTypeOK
<1>3. KicksEarned'
  BY <1>2 DEF Swear, CensorInv, KicksEarned, Own
<1>4. NoUndeservedKick'
  BY <1>2 DEF Swear, CensorInv, NoUndeservedKick, WorldInv, CensorTypeOK
<1> QED
  BY <1>1, <1>3, <1>4, SwearTables DEF CensorInv

\* Whoever leaves, of their own will or not, takes nothing along.
LEMMA GoneKeeps ==
  ASSUME CensorInv, nameOf' \in [Visitors -> Names \cup {NoName}],
         \A v \in Visitors : nameOf'[v] \in {nameOf[v], NoName},
         UNCHANGED <<came, events, insolents, refused, carriers, offences,
                     inherits, moved>>,
         kicks' \subseteq kicks, kicked' \subseteq Visitors
  PROVE  WorldInv' /\ TablesInv' /\ KicksEarned'
<1> USE DEF CensorInv, Here, Own
<1>1. WorldInv'
  BY DEF WorldInv, CensorTypeOK, OneName, Carried, CleanStart, SoleCarrier
<1>2. KicksEarned'
  BY DEF KicksEarned
<1>3. PICK tables \in Tables : Fits(tables)
  BY DEF TablesInv
<1>4. Unheard(tables)' /\ Bounded(tables)'
  BY <1>3 DEF Fits, Unheard, Bounded
<1>5. Settled(tables)' /\ NoneLeft(tables)'
  BY <1>3 DEF Fits, Settled, NoneLeft
<1>6. TablesInv'
  BY <1>3, <1>4, <1>5 DEF TablesInv, Fits
<1> QED
  BY <1>1, <1>2, <1>6

LEMMA LeaveKeeps ==
  ASSUME CensorInv, NEW v \in Visitors, LeaveChannel(v)
  PROVE  CensorInv'
<1>1. /\ nameOf' \in [Visitors -> Names \cup {NoName}]
      /\ \A u \in Visitors : nameOf'[u] \in {nameOf[u], NoName}
  BY DEF LeaveChannel, CensorInv, WorldInv, CensorTypeOK
<1>2. WorldInv' /\ TablesInv' /\ KicksEarned'
  BY <1>1, GoneKeeps DEF LeaveChannel, CensorInv, WorldInv, CensorTypeOK
<1>3. NoUndeservedKick'
  BY DEF LeaveChannel, CensorInv, NoUndeservedKick
<1> QED
  BY <1>2, <1>3 DEF CensorInv

LEMMA KickKeeps ==
  ASSUME CensorInv, NEW n \in Names, KickArrives(n)
  PROVE  CensorInv'
<1>1. /\ nameOf' \in [Visitors -> Names \cup {NoName}]
      /\ \A u \in Visitors : nameOf'[u] \in {nameOf[u], NoName}
  BY DEF KickArrives, CensorInv, WorldInv, CensorTypeOK
<1>2. kicked' \subseteq Visitors /\ kicks' \subseteq kicks
  BY DEF KickArrives, CensorInv, WorldInv, CensorTypeOK
<1>3. WorldInv' /\ TablesInv' /\ KicksEarned'
  BY <1>1, <1>2, GoneKeeps DEF KickArrives
<1>4. ASSUME NEW v \in Visitors \ inherits, nameOf[v] = n
      PROVE  offences[v] >= 3
  <2>1. Own(v, n)
    BY <1>4, CensorAssumption
       DEF CensorAssumption, CensorInv, WorldInv, SoleCarrier, Here, Own
  <2> QED
    BY <2>1 DEF KickArrives, CensorInv, KicksEarned
<1>5. NoUndeservedKick'
  BY <1>4 DEF KickArrives, CensorInv, WorldInv, CensorTypeOK, NoUndeservedKick
<1> QED
  BY <1>3, <1>5 DEF CensorInv

LEMMA CensorStep == CensorInv /\ [CensorNext]_censorVars => CensorInv'
<1> SUFFICES ASSUME CensorInv, [CensorNext]_censorVars PROVE CensorInv'
  OBVIOUS
<1>1. CASE CensorNext
  BY <1>1, HandleKeeps, KickKeeps, SwearKeeps, LeaveKeeps, EnterKeeps,
     RenameKeeps DEF CensorNext
<1>2. CASE UNCHANGED censorVars
  <2> USE <1>2 DEF censorVars, CensorInv, Here, Own
  <2>1. WorldInv'
    BY DEF WorldInv, CensorTypeOK, OneName, Carried, CleanStart, SoleCarrier
  <2>2. TablesInv'
    BY DEF TablesInv, Fits, Unheard, Bounded, Settled, NoneLeft
  <2>3. KicksEarned' /\ NoUndeservedKick'
    BY DEF KicksEarned, NoUndeservedKick
  <2> QED
    BY <2>1, <2>2, <2>3
<1> QED
  BY <1>1, <1>2

----------------------------------------------------------------------------

\* The types hold for any number of visitors and nicks.
THEOREM CensorTypeCorrect == CensorSpec => []CensorTypeOK
<1>1. CensorInv => CensorTypeOK
  BY DEF CensorInv, WorldInv
<1> QED
  BY CensorInitially, CensorStep, <1>1, PTL DEF CensorSpec

\* Changing the nick does not shake off the count (censor.cpp 63-82): once
\* everything was read, a visitor who never took a used nick has the count of
\* what that visitor did.
THEOREM CountFollowsCorrect == CensorSpec => []CountFollows
<1>1. CensorInv => CountFollows
  <2> SUFFICES ASSUME CensorInv, events = <<>>, NEW v \in Visitors \ inherits,
                      Here(v)
               PROVE  insolents[nameOf[v]] = offences[v]
    BY DEF CountFollows
  <2>1. PICK tables \in Tables : Fits(tables)
    BY DEF CensorInv, TablesInv
  <2>2. tables[Len(events)] = insolents
    BY <2>1, EmptySeq DEF Fits, Follows
  <2> QED
    BY <2>1, <2>2 DEF Fits, Settled
<1> QED
  BY CensorInitially, CensorStep, <1>1, PTL DEF CensorSpec

\* Whoever is kicked swore three times or took a used nick (censor.cpp
\* 108-129), however late the kick comes.
THEOREM NoUndeservedKickCorrect == CensorSpec => []NoUndeservedKick
<1>1. CensorInv => NoUndeservedKick
  BY DEF CensorInv
<1> QED
  BY CensorInitially, CensorStep, <1>1, PTL DEF CensorSpec
=============================================================================
