--------------------------- MODULE Startup_proofs ---------------------------
(***************************************************************************)
(* Theorems about the main functions of the examples, whatever a port that *)
(* was given no value holds.                                               *)
(***************************************************************************)
EXTENDS Startup, TLAPS

----------------------------------------------------------------------------
(* The programs                                                            *)

LEMMA MainIs ==
  /\ Main("censor") = censor_main /\ Main("spammer") = spammer_main
  /\ Main("irctest") = irctest_main /\ Main("ircftp") = ircftp_main
  /\ Main("colors") = colors_main
BY DEF Main

LEMMA Fits == 0 \in PortNumbers /\ DefaultPort \in PortNumbers
BY SMT DEF PortNumbers, DefaultPort

LEMMA MainPorts ==
  ASSUME NEW p \in Programs
  PROVE  /\ Main(p).ports \subseteq PortNumbers
         /\ p # "irctest" => Main(p).ports = {DefaultPort}
<1>1. /\ censor_main.ports = {DefaultPort} /\ spammer_main.ports = {DefaultPort}
      /\ ircftp_main.ports = {DefaultPort} /\ colors_main.ports = {DefaultPort}
      /\ irctest_main.ports = Leftovers
  BY DEF censor_main, spammer_main, irctest_main, ircftp_main, colors_main
<1>2. p # "irctest" => Main(p).ports = {DefaultPort}
  BY <1>1, MainIs DEF Programs
<1>3. p = "irctest" => Main(p).ports = Leftovers
  BY <1>1, MainIs
<1> QED
  BY <1>2, <1>3, Fits, LeftoversAssumption DEF LeftoversAssumption

LEMMA MainRest ==
  ASSUME NEW p \in Programs
  PROVE  /\ Main(p).options \subseteq {"STRIPNICKS"}
         /\ Main(p).last \in {0, 1}
<1> USE DEF Main
<1>1. CASE p = "censor"
  BY <1>1 DEF censor_main
<1>2. CASE p = "spammer"
  BY <1>2 DEF spammer_main
<1>3. CASE p = "irctest"
  BY <1>3 DEF irctest_main
<1>4. CASE p = "ircftp"
  BY <1>4 DEF ircftp_main
<1>5. CASE p = "colors"
  BY <1>5 DEF colors_main
<1> QED
  BY <1>1, <1>2, <1>3, <1>4, <1>5 DEF Programs
----------------------------------------------------------------------------
(* The way through main                                                    *)

\* The program and its options, once main has taken them.
Given ==
  /\ where # "shell" => program \in Programs
  /\ where \in {"port", "prefix", "connect", "run"} =>
       Main(program).options \subseteq options

\* The port that will be dialled.
PortKept ==
  /\ where \in {"create", "port"} => port \in Main(program).ports
  /\ where \in {"prefix", "connect"} =>
       IF server.hasPort THEN port = 0 ELSE port \in Main(program).ports

\* Nothing was skipped, and no verification given up, before the prefix was
\* looked at.
PrefixKept ==
  /\ where \in {"shell", "create", "port", "prefix"} =>
       skipped = 0 /\ "SSL_NO_VERIFY" \notin options
  /\ where = "connect" =>
       /\ skipped = (IF server.hashes = 2 THEN 1 ELSE 0)
       /\ ("SSL_NO_VERIFY" \in options) = (server.hashes = 2)

Undialed == where \notin {"run", "exited"} => dialed = Unset

StartupInv ==
  /\ StartupTypeOK /\ Given /\ PortKept /\ PrefixKept /\ Undialed
  /\ DialsAsMeant

LEMMA StartupInitially == StartupInit => StartupInv
BY Fits
   DEF StartupInit, StartupInv, StartupTypeOK, Given, PortKept, PrefixKept,
       Undialed, DialsAsMeant

LEMMA BeginKeeps ==
  ASSUME StartupInv, NEW p \in Programs, NEW hashes \in 0..2,
         NEW hasPort \in BOOLEAN, Begin(p, hashes, hasPort)
  PROVE  StartupInv'
<1> USE DEF StartupInv, Begin, Exit
<1>1. port' \in PortNumbers
  BY MainPorts
<1>3. StartupTypeOK'
  BY <1>1 DEF StartupTypeOK
<1>4. Given' /\ PortKept' /\ Undialed'
  BY DEF Given, PortKept, Undialed
<1>5. PrefixKept'
  BY DEF PrefixKept
<1>6. DialsAsMeant'
  BY DEF Undialed, DialsAsMeant
<1> QED
  BY <1>3, <1>4, <1>5, <1>6

LEMMA CreateKeeps ==
  ASSUME StartupInv, Create
  PROVE  StartupInv'
<1> USE DEF StartupInv, Create, Exit
<1>1. program \in Programs
  BY DEF Given
<1>2. StartupTypeOK'
  BY <1>1, MainRest DEF StartupTypeOK
<1>3. Given' /\ PortKept' /\ Undialed'
  BY DEF Given, PortKept, Undialed
<1>4. PrefixKept'
  BY <1>1, MainRest DEF PrefixKept
<1>5. DialsAsMeant'
  BY DEF Undialed, DialsAsMeant
<1> QED
  BY <1>2, <1>3, <1>4, <1>5

LEMMA PortInServerKeeps ==
  ASSUME StartupInv, PortInServer
  PROVE  StartupInv'
<1> USE DEF StartupInv, PortInServer
<1>1. StartupTypeOK'
  BY Fits DEF StartupTypeOK
<1>2. Given' /\ PortKept' /\ PrefixKept' /\ Undialed'
  BY DEF Given, PortKept, PrefixKept, Undialed
<1>3. DialsAsMeant'
  BY DEF Undialed, DialsAsMeant
<1> QED
  BY <1>1, <1>2, <1>3

LEMMA PrefixKeeps ==
  ASSUME StartupInv, Prefix
  PROVE  StartupInv'
<1> USE DEF StartupInv, Prefix
<1>1. StartupTypeOK'
  <2>1. skipped' \in 0..1
    <3>1. CASE server.hashes >= 2
      BY <3>1
    <3>2. CASE ~(server.hashes >= 2)
      BY <3>2 DEF StartupTypeOK
    <3> QED
      BY <3>1, <3>2
  <2>2. options' \subseteq {"STRIPNICKS", "SSL_NO_VERIFY"}
    BY DEF StartupTypeOK
  <2> QED
    BY <2>1, <2>2 DEF StartupTypeOK
<1>2. Given' /\ PortKept' /\ Undialed'
  BY DEF Given, PortKept, Undialed
<1>3. server.hashes >= 2 <=> server.hashes = 2
  BY DEF StartupTypeOK
<1>4. PrefixKept'
  <2>1. CASE server.hashes = 2
    BY <1>3, <2>1 DEF PrefixKept
  <2>2. CASE server.hashes # 2
    BY <1>3, <2>2 DEF PrefixKept
  <2> QED
    BY <2>1, <2>2
<1>5. DialsAsMeant'
  BY DEF Undialed, DialsAsMeant
<1> QED
  BY <1>1, <1>2, <1>4, <1>5

LEMMA ConnectKeeps ==
  ASSUME StartupInv, Connect
  PROVE  StartupInv'
<1> USE DEF StartupInv, Connect, Exit
<1>1. StartupTypeOK'
  BY DEF StartupTypeOK
<1>2. Given' /\ PortKept' /\ PrefixKept' /\ Undialed'
  BY DEF Given, PortKept, PrefixKept, Undialed
<1>3. dialed' = [hashes |-> server.hashes - skipped, port |-> port]
  OBVIOUS
<1>4. server.hashes \in 0..2
  BY DEF StartupTypeOK
<1>5. dialed'.hashes = (IF server'.hashes = 0 THEN 0 ELSE 1)
  BY <1>3, <1>4 DEF PrefixKept
<1>6. \/ dialed'.port = (IF server'.hasPort THEN 0 ELSE DefaultPort)
      \/ program' = "irctest" /\ ~server'.hasPort
  <2>1. program \in Programs
    BY DEF Given
  <2> QED
    BY <1>3, <2>1, MainPorts DEF PortKept
<1>7. ("SSL_NO_VERIFY" \in options') = (server'.hashes = 2)
  BY DEF PrefixKept
<1>8. DialsAsMeant'
  BY <1>5, <1>6, <1>7 DEF DialsAsMeant
<1> QED
  BY <1>1, <1>2, <1>8

LEMMA RunReturnsKeeps ==
  ASSUME StartupInv, RunReturns
  PROVE  StartupInv'
<1> USE DEF StartupInv, RunReturns, Exit
<1>1. program \in Programs
  BY DEF Given
<1>2. StartupTypeOK'
  BY <1>1, MainRest DEF StartupTypeOK
<1>3. Given' /\ PortKept' /\ PrefixKept' /\ Undialed' /\ DialsAsMeant'
  BY <1>1 DEF Given, PortKept, PrefixKept, Undialed, DialsAsMeant
<1> QED
  BY <1>2, <1>3

LEMMA StartupStep == StartupInv /\ [StartupNext]_startupVars => StartupInv'
<1> SUFFICES ASSUME StartupInv, [StartupNext]_startupVars PROVE StartupInv'
  OBVIOUS
<1>1. CASE StartupNext
  BY <1>1, BeginKeeps, CreateKeeps, PortInServerKeeps, PrefixKeeps,
     ConnectKeeps, RunReturnsKeeps DEF StartupNext
<1>2. CASE UNCHANGED startupVars
  BY <1>2 DEF startupVars, StartupInv, StartupTypeOK, Given, PortKept,
              PrefixKept, Undialed, DialsAsMeant
<1> QED
  BY <1>1, <1>2

----------------------------------------------------------------------------

\* The types hold whatever the port without a value holds.
THEOREM StartupTypeCorrect == StartupSpec => []StartupTypeOK
<1>1. StartupInv => StartupTypeOK
  BY DEF StartupInv
<1> QED
  BY StartupInitially, StartupStep, <1>1, PTL DEF StartupSpec

\* Every example dials the port, with or without SSL and a verification, that
\* its command line asks for; only irctest without a port may not.
THEOREM DialsAsMeantCorrect == StartupSpec => []DialsAsMeant
<1>1. StartupInv => DialsAsMeant
  BY DEF StartupInv
<1> QED
  BY StartupInitially, StartupStep, <1>1, PTL DEF StartupSpec
=============================================================================
