------------------------- MODULE ConnectionService -------------------------
(***************************************************************************)
(* What an IrcConnection object promises its callers, without locks,       *)
(* sessions or retries: at any time at most one thread carries the         *)
(* connection, the connection is the same one from its start to its end,   *)
(* and the updates of the library come from the carrier, one at a time.    *)
(* A connection ends by being dropped, after which a new one may be        *)
(* carried, or by being abandoned: the carrier leaves and the object keeps *)
(* the connection for ever, which is what disconnect() brings about.       *)
(***************************************************************************)
CONSTANTS Carriers, Connections, None

VARIABLES
  carriers,    \* the threads that carry a connection
  connection,  \* the connection the object stands for, or None
  upcalls      \* the threads that execute a callback

serviceVars == <<carriers, connection, upcalls>>

Init ==
  /\ carriers = {}
  /\ connection = None
  /\ upcalls = {}

Carry(t) ==
  /\ carriers = {}
  /\ connection = None
  /\ carriers' = {t}
  /\ connection' \in Connections
  /\ UNCHANGED upcalls

BeginUpcall(t) ==
  /\ carriers = {t}
  /\ connection # None
  /\ upcalls = {}
  /\ upcalls' = {t}
  /\ UNCHANGED <<carriers, connection>>

EndUpcall(t) ==
  /\ upcalls = {t}
  /\ upcalls' = {}
  /\ UNCHANGED <<carriers, connection>>

Leave(t) ==
  /\ carriers = {t}
  /\ upcalls = {}
  /\ carriers' = {}
  /\ UNCHANGED upcalls

Drop(t) == Leave(t) /\ connection' = None

Abandon(t) == Leave(t) /\ UNCHANGED connection

Next ==
  \E t \in Carriers :
    Carry(t) \/ BeginUpcall(t) \/ EndUpcall(t) \/ Drop(t) \/ Abandon(t)

Spec == Init /\ [][Next]_serviceVars
=============================================================================
