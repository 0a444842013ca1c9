------------------------------ MODULE DccFiles ------------------------------
(***************************************************************************)
(* Files that the example irctest of libircclient receives by DCC          *)
(* (source/examples/irctest.c 150-172 and 245-254): every offer is         *)
(* accepted into a file of one and the same name, opened anew for each     *)
(* transfer, and closed by the last callback of the transfer.              *)
(*                                                                         *)
(* Each FILE has its own position and its own buffer, which goes to the    *)
(* disk some time, at the latest when it is closed.                        *)
(***************************************************************************)
EXTENDS Naturals, FiniteSets

CONSTANTS
  Transfers,  \* DCC SEND requests
  Hole,       \* a place of the file with no data of a transfer
  MaxChunks,  \* pieces of data of a transfer
  MaxFiles    \* FILEs that the program can have open

ASSUME FilesAssumption ==
  /\ IsFiniteSet(Transfers)
  /\ Hole \notin Transfers
  /\ MaxChunks \in Nat
  /\ MaxFiles \in Nat

VARIABLES
  stage,     \* where each transfer is
  got,       \* pieces that the callback has been given
  written,   \* pieces of those that are on the disk
  file,      \* whose data each place of the file holds
  opened,    \* FILEs that are open
  aborted,   \* the program has called abort()
  disturbed  \* history: transfers that do not have the file to themselves,
             \* because another one opened it after them, or was still
             \* running when they did

filesVars == <<stage, got, written, file, opened, aborted, disturbed>>

Stages == {"offered", "accepted", "refused", "complete", "failed"}

FilesInit ==
  /\ stage = [t \in Transfers |-> "offered"]
  /\ got = [t \in Transfers |-> 0]
  /\ written = [t \in Transfers |-> 0]
  /\ file = [i \in 1..MaxChunks |-> Hole]
  /\ opened = 0
  /\ aborted = FALSE
  /\ disturbed = {}

Receiving == {t \in Transfers : stage[t] = "accepted"}

\* Mutant: the file is opened for update, what it held stays.
Truncated_Update == file

\* fopen (..., "wb")
Truncated == [i \in 1..MaxChunks |-> Hole]

\* The file is opened, then the transfer accepted; when that fails nobody
\* closes the file.
irc_event_dcc_send(t) ==
  /\ ~aborted
  /\ stage[t] = "offered"
  /\ opened < MaxFiles
  /\ file' = Truncated
  /\ opened' = opened + 1
  /\ \E s \in {"accepted", "refused"} : stage' = [stage EXCEPT ![t] = s]
  /\ disturbed' =
       disturbed \cup {u \in Transfers : stage[u] # "offered"}
                 \cup (IF Receiving = {} THEN {} ELSE {t})
  /\ UNCHANGED <<got, written, aborted>>

CannotOpen(t) ==
  /\ ~aborted
  /\ stage[t] = "offered"
  /\ opened >= MaxFiles
  /\ aborted' = TRUE
  /\ UNCHANGED <<stage, got, written, file, opened, disturbed>>

\* fwrite, into the buffer of the FILE
Piece(t) ==
  /\ ~aborted
  /\ t \in Receiving
  /\ got[t] < MaxChunks
  /\ got' = [got EXCEPT ![t] = @ + 1]
  /\ UNCHANGED <<stage, written, file, opened, aborted, disturbed>>

\* The buffered pieces of t go to their places in the file.
OnDisk(t) ==
  /\ file' = [i \in 1..MaxChunks |->
                IF written[t] < i /\ i <= got[t] THEN t ELSE file[i]]
  /\ written' = [written EXCEPT ![t] = got[t]]

BufferWritten(t) ==
  /\ ~aborted
  /\ t \in Receiving
  /\ written[t] < got[t]
  /\ OnDisk(t)
  /\ UNCHANGED <<stage, got, opened, aborted, disturbed>>

\* fclose
Close(t) == OnDisk(t) /\ opened' = opened - 1

\* Mutant: the file is not closed after an error.
dcc_file_recv_callback_Leaks(t, status) ==
  /\ ~aborted
  /\ t \in Receiving
  /\ IF status = "complete" THEN Close(t) ELSE UNCHANGED <<written, file, opened>>
  /\ stage' = [stage EXCEPT ![t] = status]
  /\ UNCHANGED <<got, aborted, disturbed>>

\* Mutant: the callback closes at the end of the data, and again because the
\* test of the error has no else.
dcc_file_recv_callback_Twice(t, status) ==
  /\ ~aborted
  /\ t \in Receiving
  /\ OnDisk(t)
  /\ opened' = opened - 2
  /\ stage' = [stage EXCEPT ![t] = status]
  /\ UNCHANGED <<got, aborted, disturbed>>

\* The last callback of a transfer: status 0 and no data at its end, or an
\* error; the file is closed in both cases.
dcc_file_recv_callback(t, status) ==
  /\ ~aborted
  /\ t \in Receiving
  /\ Close(t)
  /\ stage' = [stage EXCEPT ![t] = status]
  /\ UNCHANGED <<got, aborted, disturbed>>

FilesNext ==
  \E t \in Transfers :
    \/ irc_event_dcc_send(t) \/ CannotOpen(t)
    \/ Piece(t) \/ BufferWritten(t)
    \/ \E status \in {"complete", "failed"} : dcc_file_recv_callback(t, status)

FilesSpec == FilesInit /\ [][FilesNext]_filesVars

----------------------------------------------------------------------------

\* Types of the variables.
FilesTypeOK ==
  /\ stage \in [Transfers -> Stages]
  /\ got \in [Transfers -> 0..MaxChunks]
  /\ written \in [Transfers -> 0..MaxChunks]
  /\ file \in [1..MaxChunks -> Transfers \cup {Hole}]
  /\ opened \in 0..MaxFiles
  /\ aborted \in BOOLEAN
  /\ disturbed \subseteq Transfers

\* A transfer that ended well has left all its pieces, and nothing else, in
\* the file, if all transfers before it had ended when it began and none began
\* since: what they left, and what a failed one had in its buffer, is gone.
\* Of transfers that overlap nothing is claimed: they spoil each other's file.
TransferIntact ==
  \A t \in Transfers \ disturbed :
    stage[t] = "complete" =>
      \A i \in 1..MaxChunks : file[i] = IF i <= got[t] THEN t ELSE Hole

\* Every FILE belongs to a running transfer or to one that was opened and
\* could not be accepted: no way a transfer ends leaves its file open, and the
\* program aborts for want of a FILE only if as many as it can open do.
FilesAccounted ==
  /\ opened = Cardinality({t \in Transfers : stage[t] \in {"accepted", "refused"}})
  /\ aborted => opened = MaxFiles
=============================================================================
