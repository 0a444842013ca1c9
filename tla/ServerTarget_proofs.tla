------------------------ MODULE ServerTarget_proofs ------------------------
(***************************************************************************)
(* The properties of ServerTarget for prefixes of every length, every set  *)
(* of ports and every number of retries and reconnects.                    *)
(***************************************************************************)
EXTENDS ServerTarget, TLAPS

\* What advancing the server string leaves of the target that was set.
StringKept ==
  server # None =>
    /\ configured # None
    /\ server.rest = configured.rest
    /\ server.hashes <= configured.hashes
    /\ server.hashes >= 1 <=> configured.hashes >= 1

\* The option of the session that is being prepared, and the port it will be
\* dialled with.
SessionReady ==
  /\ phase \in {"port", "prefix"} => options = {"STRIPNICKS"}
  /\ phase = "dial" => ("SSL_NO_VERIFY" \in options => configured.hashes >= 2)
  /\ phase \in {"prefix", "dial"} /\ server.rest = "host:port" => port = 0

\* Before the first attempt the string is the one that was set.
Untouched ==
  dialed = None =>
    /\ phase \in {"stopped", "create", "port", "prefix"} => server = configured
    /\ phase = "dial" => ("SSL_NO_VERIFY" \in options <=> configured.hashes >= 2)
    /\ phase # "up"

Configured ==
  /\ server = None <=> configured = None
  /\ dialed # None => configured # None

TypeInv == TypeOK /\ Configured

Inv ==
  /\ StringKept
  /\ SessionReady
  /\ Untouched
  /\ SslAsConfigured
  /\ VerifiedUnlessAsked
  /\ PortFromString

----------------------------------------------------------------------------
(* Types                                                                   *)

LEMMA TargetFields ==
  ASSUME NEW t \in Targets
  PROVE  t.hashes \in Nat /\ t.rest \in {"host", "host:port"} /\ t # None
BY TargetAssumption, NoneAssumption DEF TargetAssumption, NoneAssumption, Targets

LEMMA Skipped ==
  ASSUME NEW t \in Targets, t.hashes >= 2
  PROVE  [hashes |-> t.hashes - 1, rest |-> t.rest] \in Targets
BY TargetAssumption DEF TargetAssumption, Targets

LEMMA DialType ==
  ASSUME TypeOK, phase = "dial", Dial
  PROVE  dialed' \in Dialings /\ dialed' # None
BY NoneAssumption DEF TypeOK, Dial, Dialings, NoneAssumption

LEMMA PortRange ==
  /\ 0 \in PortNumbers /\ 6667 \in PortNumbers
  /\ \A p \in Nat : p % 65536 \in PortNumbers
<1>1. 0 \in PortNumbers /\ 6667 \in PortNumbers
  BY DEF PortNumbers
<1>2. ASSUME NEW p \in Nat PROVE p % 65536 \in PortNumbers
  BY SMTT(60) DEF PortNumbers
<1> QED
  BY <1>1, <1>2

LEMMA TypeInit == Init => TypeInv
BY TargetAssumption, PortRange
   DEF TargetAssumption, Init, TypeInv, TypeOK, Configured, Phases, Options

LEMMA TypeNext == TypeInv /\ [Next]_vars => TypeInv'
<1> SUFFICES ASSUME TypeInv, [Next]_vars PROVE TypeInv'
  OBVIOUS
<1> USE TargetAssumption, NoneAssumption
    DEF TargetAssumption, NoneAssumption, TypeInv, TypeOK, Configured, Phases
<1>1. CASE phase = "stopped" /\ setServerInfo
  BY <1>1 DEF setServerInfo, NotRunning, Configure
<1>2. CASE phase = "stopped" /\ setPort
  <2>1. port' \in PortNumbers
    BY <1>2, PortRange DEF setPort
  <2> QED
    BY <1>2, <2>1 DEF setPort
<1>3. CASE start
  BY <1>3 DEF start, Configure
<1>4. CASE CreateSession
  BY <1>4 DEF CreateSession, Options
<1>5. CASE ParsePort
  BY <1>5, PortRange DEF ParsePort
<1>6. CASE SkipPrefix
  <2>1. server \in Targets /\ phase = "prefix"
    BY <1>6 DEF SkipPrefix, Skip
  <2>2. server' \in Targets /\ options' \subseteq Options
    BY <1>6, <2>1, Skipped DEF SkipPrefix, Skip, Options
  <2> QED
    BY <1>6, <2>1, <2>2 DEF SkipPrefix, Skip
<1>7. CASE ConnectStarts
  BY <1>7, DialType DEF ConnectStarts
<1>8. CASE ConnectFails
  BY <1>8, DialType DEF ConnectFails
<1>9. CASE ConnectionEnds \/ SearchesNothing
  BY <1>9 DEF ConnectionEnds, SearchesNothing
<1>10. CASE UNCHANGED vars
  BY <1>10 DEF vars
<1> QED
  BY <1>1, <1>2, <1>3, <1>4, <1>5, <1>6, <1>7, <1>8, <1>9, <1>10
  DEF Next, Setter

\* Every variable keeps its type; the port always fits an unsigned short.
THEOREM TypeCorrect == Spec => []TypeOK
BY TypeInit, TypeNext, PTL DEF Spec, TypeInv

----------------------------------------------------------------------------
(* The target that is dialled                                              *)

LEMMA InvInit == Init => Inv
BY NoneAssumption
   DEF Init, Inv, StringKept, SessionReady, Untouched, SslAsConfigured,
       VerifiedUnlessAsked, PortFromString

LEMMA DialKeepsInv ==
  ASSUME TypeInv, Inv, phase = "dial", Dial,
         phase' \in {"up", "stopped", "dial"},
         UNCHANGED <<server, port, options, configured>>
  PROVE  Inv'
<1>1. dialed' # None /\ server # None /\ configured # None
  BY DialType DEF TypeInv, TypeOK, Configured
<1> QED
  BY <1>1 DEF Inv, StringKept, SessionReady, Untouched, SslAsConfigured,
              VerifiedUnlessAsked, PortFromString, Dial

LEMMA InvNext == TypeInv /\ Inv /\ [Next]_vars => Inv'
<1> SUFFICES ASSUME TypeInv, Inv, [Next]_vars PROVE Inv'
  OBVIOUS
<1> USE TargetFields
    DEF TypeInv, TypeOK, Configured, Phases, Inv, StringKept, SessionReady,
        Untouched, SslAsConfigured, VerifiedUnlessAsked, PortFromString
<1>1. CASE phase = "stopped" /\ setServerInfo
  BY <1>1 DEF setServerInfo, NotRunning, Configure
<1>2. CASE phase = "stopped" /\ setPort
  BY <1>2 DEF setPort
<1>3. CASE start
  BY <1>3 DEF start, Configure
<1>4. CASE CreateSession
  BY <1>4 DEF CreateSession
<1>5. CASE ParsePort
  BY <1>5 DEF ParsePort
<1>6. CASE SkipPrefix
  BY <1>6 DEF SkipPrefix, Skip
<1>7. CASE ConnectStarts
  BY <1>7, DialKeepsInv DEF ConnectStarts
<1>8. CASE ConnectFails
  BY <1>8, DialKeepsInv DEF ConnectFails
<1>9. CASE ConnectionEnds \/ SearchesNothing
  BY <1>9 DEF ConnectionEnds, SearchesNothing
<1>10. CASE UNCHANGED vars
  BY <1>10 DEF vars
<1> QED
  BY <1>1, <1>2, <1>3, <1>4, <1>5, <1>6, <1>7, <1>8, <1>9, <1>10
  DEF Next, Setter

LEMMA InvCorrect == Spec => []Inv
<1>1. TypeInv /\ Inv /\ [Next]_vars => Inv' /\ TypeInv'
  BY InvNext, TypeNext
<1> QED
  BY <1>1, TypeInit, InvInit, PTL DEF Spec

\* SSL is used exactly for the targets that ask for it, over any number of
\* reconnects.
THEOREM SslAsConfiguredCorrect == Spec => []SslAsConfigured
<1>1. Inv => SslAsConfigured
  BY DEF Inv
<1> QED
  BY <1>1, InvCorrect, PTL

\* The certificate is checked unless the target asked for the opposite.
THEOREM VerifiedUnlessAskedCorrect == Spec => []VerifiedUnlessAsked
<1>1. Inv => VerifiedUnlessAsked
  BY DEF Inv
<1> QED
  BY <1>1, InvCorrect, PTL

\* A port in the server string is never overruled.
THEOREM PortFromStringCorrect == Spec => []PortFromString
<1>1. Inv => PortFromString
  BY DEF Inv
<1> QED
  BY <1>1, InvCorrect, PTL

LEMMA FirstDialStep ==
  ASSUME TypeInv, Inv, [Next]_vars, dialed = None, dialed' # None
  PROVE  "SSL_NO_VERIFY" \in dialed'.options <=> configured.hashes >= 2
<1>1. ConnectStarts \/ ConnectFails
  BY DEF Next, Setter, vars, setServerInfo, setPort, start, Configure, CreateSession,
         SearchesNothing, ParsePort, SkipPrefix, Skip, ConnectionEnds
<1>2. phase = "dial" /\ dialed'.options = options
  BY <1>1 DEF ConnectStarts, ConnectFails, Dial
<1> QED
  BY <1>2 DEF Inv, Untouched

\* The first attempt after a target was set follows its "##".
THEOREM PrefixFollowedFirstCorrect == Spec => PrefixFollowedFirst
<1>1. TypeInv /\ Inv /\ [Next]_vars
        => [dialed = None /\ dialed' # None
              => ("SSL_NO_VERIFY" \in dialed'.options
                    <=> configured.hashes >= 2)]_vars
  BY FirstDialStep
<1>2. TypeInv /\ [Next]_vars => TypeInv'
  BY TypeNext
<1> QED
  BY <1>1, <1>2, TypeInit, InvCorrect, PTL DEF Spec, PrefixFollowedFirst
=============================================================================
