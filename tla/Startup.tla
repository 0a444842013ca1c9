------------------------------ MODULE Startup ------------------------------
(***************************************************************************)
(* The main functions of the example programs of libircclient, from the    *)
(* command line to irc_connect and irc_run.  They are alike; what they     *)
(* differ in is one record per program.                                    *)
(***************************************************************************)
EXTENDS Naturals

CONSTANTS
  Leftovers,  \* what a port that was given no value may hold
  Unset       \* no program, or nothing dialled, yet

\* The values of an unsigned short.
PortNumbers == 0..65535

ASSUME LeftoversAssumption ==
  Leftovers \subseteq PortNumbers /\ Leftovers # {}

VARIABLES
  program,      \* the program that was started
  server,       \* argv[1]: the number of leading # and whether it has a port
  where,        \* the place in main
  options,      \* options of the session
  port,         \* port
  skipped,      \* characters of argv[1] that were skipped
  dialed,       \* the arguments of irc_connect
  exitCode      \* what main returned

startupVars ==
  <<program, server, where, options, port, skipped, dialed, exitCode>>

Programs == {"censor", "spammer", "irctest", "ircftp", "colors"}
DefaultPort == 6667

\* The options of the session before the prefix is looked at, what port may
\* hold before the server string is, and the result after irc_run.
censor_main == [options |-> {}, ports |-> {DefaultPort}, last |-> 0]

spammer_main ==
  [options |-> {"STRIPNICKS"}, ports |-> {DefaultPort}, last |-> 1]

\* port is a local variable that gets a value in one branch only.
irctest_main == [options |-> {}, ports |-> Leftovers, last |-> 1]

ircftp_main ==
  [options |-> {"STRIPNICKS"}, ports |-> {DefaultPort}, last |-> 1]

colors_main == [options |-> {}, ports |-> {DefaultPort}, last |-> 1]

Main(p) ==
  CASE p = "censor" -> censor_main
    [] p = "spammer" -> spammer_main
    [] p = "irctest" -> irctest_main
    [] p = "ircftp" -> ircftp_main
    [] OTHER -> colors_main

StartupInit ==
  /\ program = Unset
  /\ server = [hashes |-> 0, hasPort |-> FALSE]
  /\ where = "shell"
  /\ options = {}
  /\ port = 0 /\ skipped = 0
  /\ dialed = Unset
  /\ exitCode = Unset

\* main returns.
Exit(code) == where' = "exited" /\ exitCode' = code

\* The command line; a wrong number of arguments ends the program.
Begin(p, hashes, hasPort) ==
  /\ where = "shell"
  /\ program' = p
  /\ server' = [hashes |-> hashes, hasPort |-> hasPort]
  /\ port' \in Main(p).ports
  /\ Exit(1) \/ (where' = "create" /\ UNCHANGED exitCode)
  /\ UNCHANGED <<options, skipped, dialed>>

\* irc_create_session may fail.
Create ==
  /\ where = "create"
  /\ \/ Exit(1) /\ UNCHANGED options
     \/ where' = "port" /\ options' = Main(program).options
        /\ UNCHANGED exitCode
  /\ UNCHANGED <<program, server, port, skipped, dialed>>

\* Mutant: the port in the server string is left to the string, but the
\* default is passed too.
PortInServer_Kept ==
  /\ where = "port"
  /\ where' = "prefix"
  /\ UNCHANGED <<program, server, options, port, skipped, dialed, exitCode>>

\* Port 0 lets the library take the one in the server string.
PortInServer ==
  /\ where = "port"
  /\ port' = IF server.hasPort THEN 0 ELSE port
  /\ where' = "prefix"
  /\ UNCHANGED <<program, server, options, skipped, dialed, exitCode>>

\* Mutant: both # are skipped, and no SSL is used.
Prefix_Both ==
  /\ where = "prefix"
  /\ IF server.hashes >= 2
       THEN skipped' = 2 /\ options' = options \cup {"SSL_NO_VERIFY"}
       ELSE UNCHANGED <<skipped, options>>
  /\ where' = "connect"
  /\ UNCHANGED <<program, server, port, dialed, exitCode>>

\* "##server" means "#server" without a verification of its certificate.
Prefix ==
  /\ where = "prefix"
  /\ IF server.hashes >= 2
       THEN skipped' = 1 /\ options' = options \cup {"SSL_NO_VERIFY"}
       ELSE UNCHANGED <<skipped, options>>
  /\ where' = "connect"
  /\ UNCHANGED <<program, server, port, dialed, exitCode>>

Connect ==
  /\ where = "connect"
  /\ dialed' = [hashes |-> server.hashes - skipped, port |-> port]
  /\ \/ Exit(1)
     \/ where' = "run" /\ UNCHANGED exitCode
  /\ UNCHANGED <<program, server, options, port, skipped>>

\* irc_run returns an error, or not.
RunReturns ==
  /\ where = "run"
  /\ Exit(1) \/ Exit(Main(program).last)
  /\ UNCHANGED <<program, server, options, port, skipped, dialed>>

StartupNext ==
  \/ \E p \in Programs, hashes \in 0..2, hasPort \in BOOLEAN :
       Begin(p, hashes, hasPort)
  \/ Create \/ PortInServer \/ Prefix \/ Connect \/ RunReturns

StartupSpec == StartupInit /\ [][StartupNext]_startupVars

----------------------------------------------------------------------------

\* Types of the variables.
StartupTypeOK ==
  /\ program \in Programs \cup {Unset}
  /\ server \in [hashes : 0..2, hasPort : BOOLEAN]
  /\ where \in {"shell", "create", "port", "prefix", "connect", "run", "exited"}
  /\ options \subseteq {"STRIPNICKS", "SSL_NO_VERIFY"}
  /\ port \in PortNumbers /\ skipped \in 0..1
  /\ exitCode \in {Unset, 0, 1}

\* Every example dials what it was told: the port in the server string or
\* else 6667, SSL for one # or two, no verification for two.  The exception is
\* irctest, which without a port in the string dials whatever its variable
\* happens to hold (line 270).
DialsAsMeant ==
  dialed # Unset =>
    /\ dialed.port = (IF server.hasPort THEN 0 ELSE DefaultPort)
         \/ (program = "irctest" /\ ~server.hasPort)
    /\ dialed.hashes = (IF server.hashes = 0 THEN 0 ELSE 1)
    /\ ("SSL_NO_VERIFY" \in options) = (server.hashes = 2)
=============================================================================
