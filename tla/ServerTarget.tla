---------------------------- MODULE ServerTarget ----------------------------
(***************************************************************************)
(* What becomes of the server string and the port between the program that *)
(* sets them (setServerInfo, setPort, start) and the arguments irc_connect *)
(* is given, over any number of failed attempts and reconnects.            *)
(*                                                                         *)
(* A server string is "##host", "#host" or "host", each with or without    *)
(* ":port"; a target stands for it.  run() changes _serverInfo.server and  *)
(* _port in place.  In Spec the program sets them while no execution of    *)
(* run() exists, as main.cpp does; in RacingSpec whenever the methods let  *)
(* it, which is also while run() prepares a connection.  Threads and locks *)
(* are the subject of IrcConnection.                                       *)
(***************************************************************************)
EXTENDS Naturals

CONSTANTS
  MaxHashes,   \* leading '#' characters of the longest prefix
  Ports,       \* arguments the program gives setPort
  RetryLimit,  \* max_retry_count in run()
  None         \* nothing was set, or dialled, yet

ASSUME TargetAssumption ==
  /\ MaxHashes \in Nat
  /\ Ports \subseteq Nat
  /\ RetryLimit \in Nat

\* The characters "#" in front of the server string, and what follows them.
Targets == [hashes : 0..MaxHashes, rest : {"host", "host:port"}]

\* The options run() sets on a session.
Options == {"STRIPNICKS", "SSL_NO_VERIFY"}

\* The values of an unsigned short.
PortNumbers == 0..65535

\* The arguments of irc_connect, and the options of the session it is given.
Dialings == [server : Targets, port : PortNumbers, options : SUBSET Options]

ASSUME NoneAssumption == None \notin Targets \cup Dialings

VARIABLES
  phase,       \* where the execution of run() is, "stopped" when there is
               \* none, "crashed" when it ended the program
  server,      \* _serverInfo.server
  port,        \* _port
  options,     \* the options of the current session, none without a session
  retry,       \* retry_count
  configured,  \* what the program last set, as it set it
  dialed       \* what the last irc_connect since then was given

vars == <<phase, server, port, options, retry, configured, dialed>>

Phases == {"stopped", "create", "port", "prefix", "dial", "up", "crashed"}

Init ==
  /\ phase = "stopped"
  /\ server = None
  /\ port = 6667
  /\ options = {}
  /\ retry = 0
  /\ configured = None
  /\ dialed = None

----------------------------------------------------------------------------

Configure(target) ==
  /\ server' = target
  /\ configured' = target
  /\ dialed' = None

\* _running is set while the connection is up.  No lock is taken.
NotRunning == phase \notin {"up", "crashed"}

setServerInfo ==
  /\ NotRunning
  /\ \E target \in Targets : Configure(target)
  /\ UNCHANGED <<phase, port, options, retry>>

\* Mutant: the port is not cut to the width of the field.
setPort_Wide ==
  /\ NotRunning
  /\ \E p \in Ports : port' = p
  /\ UNCHANGED <<phase, server, options, retry, configured, dialed>>

\* The parameter is an unsigned int, the field an unsigned short.
setPort ==
  /\ NotRunning
  /\ \E p \in Ports : port' = p % 65536
  /\ UNCHANGED <<phase, server, options, retry, configured, dialed>>

\* start() with or without a new target, which it does not miss if none was
\* ever set; the thread is created.
start ==
  /\ phase = "stopped"
  /\ \/ UNCHANGED <<server, configured, dialed>>
     \/ \E target \in Targets : Configure(target)
  /\ phase' = "create"
  /\ UNCHANGED <<port, options, retry>>

\* Mutant: the session, and with it its options, outlives the reconnect.
CreateSession_KeepsOptions ==
  /\ phase = "create"
  /\ options' = options \cup {"STRIPNICKS"}
  /\ retry' = 0
  /\ phase' = "port"
  /\ UNCHANGED <<server, port, configured, dialed>>

\* The old session goes, with its options.  A new one is made, or cannot be,
\* and run() returns.
CreateSession ==
  /\ phase = "create"
  /\ \/ options' = {"STRIPNICKS"} /\ retry' = 0 /\ phase' = "port"
     \/ options' = {} /\ retry' = retry /\ phase' = "stopped"
  /\ UNCHANGED <<server, port, configured, dialed>>

\* strchr(NULL, ':'): nobody has set a server.
SearchesNothing ==
  /\ phase = "port"
  /\ server = None
  /\ phase' = "crashed"
  /\ UNCHANGED <<server, port, options, retry, configured, dialed>>

\* Mutant: only the default port gives way to the one in the string.
ParsePort_DefaultOnly ==
  /\ phase = "port"
  /\ server # None
  /\ port' = IF server.rest = "host:port" /\ port = 6667 THEN 0 ELSE port
  /\ phase' = "prefix"
  /\ UNCHANGED <<server, options, retry, configured, dialed>>

\* A port in the server string is left to the library, which parses it only
\* when it is given port 0.
ParsePort ==
  /\ phase = "port"
  /\ server # None
  /\ port' = IF server.rest = "host:port" THEN 0 ELSE port
  /\ phase' = "prefix"
  /\ UNCHANGED <<server, options, retry, configured, dialed>>

Skip ==
  /\ server' = [hashes |-> server.hashes - 1, rest |-> server.rest]
  /\ options' = options \cup {"SSL_NO_VERIFY"}

\* Mutant: a single "#" is skipped, too.
SkipPrefix_Single ==
  /\ phase = "prefix"
  /\ IF server.hashes >= 1 THEN Skip ELSE UNCHANGED <<server, options>>
  /\ phase' = "dial"
  /\ UNCHANGED <<port, retry, configured, dialed>>

\* Mutant: only a third "#" asks for it.
SkipPrefix_Three ==
  /\ phase = "prefix"
  /\ IF server.hashes > 2 THEN Skip ELSE UNCHANGED <<server, options>>
  /\ phase' = "dial"
  /\ UNCHANGED <<port, retry, configured, dialed>>

\* "##": the first character is skipped by advancing _serverInfo.server.
SkipPrefix ==
  /\ phase = "prefix"
  /\ IF server.hashes >= 2 THEN Skip ELSE UNCHANGED <<server, options>>
  /\ phase' = "dial"
  /\ UNCHANGED <<port, retry, configured, dialed>>

Dial == dialed' = [server |-> server, port |-> port, options |-> options]

ConnectStarts ==
  /\ phase = "dial"
  /\ Dial
  /\ phase' = "up"
  /\ UNCHANGED <<server, port, options, retry, configured>>

ConnectFails ==
  /\ phase = "dial"
  /\ Dial
  /\ IF retry = RetryLimit
       THEN phase' = "stopped" /\ retry' = retry
       ELSE phase' = phase /\ retry' = retry + 1
  /\ UNCHANGED <<server, port, options, configured>>

\* irc_run has returned: doesReconnect() holds unless the program quit.
ConnectionEnds ==
  /\ phase = "up"
  /\ phase' \in {"create", "stopped"}
  /\ UNCHANGED <<server, port, options, retry, configured, dialed>>

Setter == setServerInfo \/ setPort

Next ==
  \/ phase = "stopped" /\ Setter
  \/ start
  \/ CreateSession \/ SearchesNothing \/ ParsePort \/ SkipPrefix
  \/ ConnectStarts \/ ConnectFails \/ ConnectionEnds

Spec == Init /\ [][Next]_vars

\* The program uses the setters also while run() prepares a connection.
RacingSpec == Init /\ [][Next \/ Setter]_vars

----------------------------------------------------------------------------

\* Types of the variables.  Only a program that never set a target crashes.
TypeOK ==
  /\ phase \in Phases
  /\ server \in Targets \cup {None}
  /\ port \in PortNumbers
  /\ options \subseteq Options
  /\ retry \in 0..RetryLimit
  /\ configured \in Targets \cup {None}
  /\ dialed \in Dialings \cup {None}
  /\ phase \in {"prefix", "dial", "up"} => server # None
  /\ phase = "crashed" => configured = None

\* However often run() advances the server string, a target that asks for SSL
\* (a leading '#', or more) is always dialled with SSL, and no other is.
SslAsConfigured ==
  dialed # None =>
    (dialed.server.hashes >= 1 <=> configured.hashes >= 1)

\* The certificate check is never switched off for a target that did not ask
\* for it, whatever was dialled before by the same object.
VerifiedUnlessAsked ==
  dialed # None /\ "SSL_NO_VERIFY" \in dialed.options
    => configured.hashes >= 2

\* A port in the server string is what the library uses: it is dialled with
\* port 0, also after setPort and after other targets.
PortFromString ==
  dialed # None /\ configured.rest = "host:port" => dialed.port = 0

\* The first attempt after a target was set follows its "##".
PrefixFollowedFirst ==
  [][dialed = None /\ dialed' # None
       => ("SSL_NO_VERIFY" \in dialed'.options <=> configured.hashes >= 2)]_vars

\* What the comment in run() says of "##", for every attempt: it does not
\* hold, because the first pass leaves "#" behind for the next one.
PrefixFollowed ==
  dialed # None =>
    ("SSL_NO_VERIFY" \in dialed.options <=> configured.hashes >= 2)
=============================================================================
