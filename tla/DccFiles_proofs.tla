--------------------------- MODULE DccFiles_proofs ---------------------------
(***************************************************************************)
(* Theorems about the files irctest receives, for any number of transfers  *)
(* of any length.                                                          *)
(***************************************************************************)
EXTENDS DccFiles, FiniteSetTheorems, TLAPS

\* Transfers whose FILE is open.
Held == {t \in Transfers : stage[t] \in {"accepted", "refused"}}

\* No data before the offer is accepted, and none on the disk before it came.
PiecesInOrder ==
  \A t \in Transfers :
    /\ written[t] <= got[t]
    /\ stage[t] = "offered" => got[t] = 0
    /\ stage[t] = "complete" => written[t] = got[t]

\* Nobody else writes to the file of a transfer that was not disturbed.
Alone ==
  \A t \in Transfers \ disturbed : stage[t] # "offered" => Receiving \subseteq {t}

\* What is on the disk of such a transfer is in its place.
InPlace ==
  \A t \in Transfers \ disturbed :
    stage[t] # "offered" =>
      \A i \in 1..MaxChunks : file[i] = IF i <= written[t] THEN t ELSE Hole

FilesInv ==
  /\ FilesTypeOK /\ PiecesInOrder /\ Alone /\ InPlace

----------------------------------------------------------------------------

LEMMA FilesInitially == FilesInit => FilesInv
<1> SUFFICES ASSUME FilesInit PROVE FilesInv
  OBVIOUS
<1> USE FilesAssumption DEF FilesAssumption, FilesInit
<1>1. stage \in [Transfers -> Stages]
  BY DEF Stages
<1>2. FilesTypeOK
  <2>1. 0 \in 0..MaxChunks /\ 0 \in 0..MaxFiles
    OBVIOUS
  <2>2. got \in [Transfers -> 0..MaxChunks]
        /\ written \in [Transfers -> 0..MaxChunks]
    BY <2>1
  <2>3. file \in [1..MaxChunks -> Transfers \cup {Hole}]
    OBVIOUS
  <2> QED
    BY <1>1, <2>1, <2>2, <2>3 DEF FilesTypeOK
<1>3. PiecesInOrder
  BY DEF PiecesInOrder
<1>4. Alone /\ InPlace
  BY DEF Alone, InPlace
<1> QED
  BY <1>2, <1>3, <1>4 DEF FilesInv

\* The buffered pieces of a transfer go to the file of that transfer only,
\* if it was not disturbed.
LEMMA OnDiskKeeps ==
  ASSUME FilesInv, NEW t \in Receiving, OnDisk(t)
  PROVE  /\ file' \in [1..MaxChunks -> Transfers \cup {Hole}]
         /\ written' \in [Transfers -> 0..MaxChunks]
         /\ \A u \in Transfers : written'[u] = IF u = t THEN got[t] ELSE written[u]
         /\ \A u \in Transfers \ disturbed :
              stage[u] # "offered" =>
                \A i \in 1..MaxChunks :
                  file'[i] = IF i <= written'[u] THEN u ELSE Hole
<1> USE FilesAssumption DEF FilesAssumption, FilesInv, FilesTypeOK, Receiving
<1>1. /\ file' \in [1..MaxChunks -> Transfers \cup {Hole}]
      /\ written' \in [Transfers -> 0..MaxChunks]
      /\ \A u \in Transfers : written'[u] = IF u = t THEN got[t] ELSE written[u]
  BY DEF OnDisk
<1>2. ASSUME NEW u \in Transfers \ disturbed, stage[u] # "offered",
             NEW i \in 1..MaxChunks
      PROVE  file'[i] = IF i <= written'[u] THEN u ELSE Hole
  <2>1. u = t
    BY <1>2 DEF Alone
  <2>2. file[i] = IF i <= written[t] THEN t ELSE Hole
    BY <1>2, <2>1 DEF InPlace
  <2>3. file'[i] = IF written[t] < i /\ i <= got[t] THEN t ELSE file[i]
    BY DEF OnDisk
  <2>4. written[t] <= got[t] /\ written[t] \in Nat /\ got[t] \in Nat
    BY DEF PiecesInOrder
  <2> QED
    BY <1>1, <2>1, <2>2, <2>3, <2>4
<1> QED
  BY <1>1, <1>2

LEMMA DccSendKeeps ==
  ASSUME FilesInv, NEW t \in Transfers, irc_event_dcc_send(t)
  PROVE  FilesInv'
<1> USE FilesAssumption
    DEF FilesAssumption, FilesInv, FilesTypeOK, Stages, Receiving
<1>1. FilesTypeOK'
  BY DEF irc_event_dcc_send, Truncated
<1>2. PiecesInOrder'
  BY DEF irc_event_dcc_send, PiecesInOrder
<1>3. \A u \in Transfers \ disturbed' : stage'[u] # "offered" => u = t
  BY DEF irc_event_dcc_send
<1>4. t \notin disturbed' => Receiving' \subseteq {t}
  BY DEF irc_event_dcc_send
<1>5. Alone'
  BY <1>3, <1>4 DEF Alone
<1>6. InPlace'
  <2>1. written'[t] = 0
    BY DEF irc_event_dcc_send, PiecesInOrder
  <2>2. \A i \in 1..MaxChunks : file'[i] = Hole
    BY DEF irc_event_dcc_send, Truncated
  <2> QED
    BY <1>3, <2>1, <2>2 DEF InPlace
<1> QED
  BY <1>1, <1>2, <1>5, <1>6

LEMMA PieceKeeps ==
  ASSUME FilesInv, NEW t \in Transfers, Piece(t)
  PROVE  FilesInv'
<1> USE FilesAssumption
    DEF FilesAssumption, FilesInv, FilesTypeOK, Stages, Receiving, Piece
<1>1. FilesTypeOK'
  OBVIOUS
<1>2. PiecesInOrder'
  BY DEF PiecesInOrder
<1>3. Alone' /\ InPlace'
  BY DEF Alone, InPlace
<1> QED
  BY <1>1, <1>2, <1>3

LEMMA BufferWrittenKeeps ==
  ASSUME FilesInv, NEW t \in Transfers, BufferWritten(t)
  PROVE  FilesInv'
<1>1. t \in Receiving /\ OnDisk(t)
  BY DEF BufferWritten
<1>2. FilesTypeOK'
  BY <1>1, OnDiskKeeps DEF BufferWritten, FilesInv, FilesTypeOK
<1>3. PiecesInOrder'
  <2> SUFFICES ASSUME NEW u \in Transfers
               PROVE  /\ written'[u] <= got[u]
                      /\ stage[u] = "offered" => got[u] = 0
                      /\ stage[u] = "complete" => written'[u] = got[u]
    BY DEF BufferWritten, PiecesInOrder
  <2>1. written'[u] = IF u = t THEN got[t] ELSE written[u]
    BY <1>1, OnDiskKeeps
  <2> QED
    BY <2>1 DEF FilesInv, FilesTypeOK, PiecesInOrder
<1>4. Alone'
  BY DEF BufferWritten, FilesInv, Alone, Receiving
<1>5. InPlace'
  BY <1>1, OnDiskKeeps DEF BufferWritten, InPlace
<1> QED
  BY <1>2, <1>3, <1>4, <1>5 DEF FilesInv

LEMMA LastCallbackKeeps ==
  ASSUME FilesInv, opened = Cardinality(Held),
         NEW t \in Transfers, NEW status \in {"complete", "failed"},
         dcc_file_recv_callback(t, status)
  PROVE  FilesInv'
<1>1. t \in Receiving /\ OnDisk(t)
  BY DEF dcc_file_recv_callback, Close
<1>2. FilesTypeOK'
  <2>1. opened > 0
    <3>1. IsFiniteSet(Held)
      BY FilesAssumption, FS_Subset DEF FilesAssumption, Held
    <3>2. t \in Held
      BY <1>1 DEF Held, Receiving
    <3>3. Cardinality(Held) # 0
      BY <3>1, <3>2, FS_EmptySet
    <3> QED
      BY <3>3 DEF FilesInv, FilesTypeOK
  <2>2. opened' \in 0..MaxFiles
    BY <2>1, FilesAssumption
       DEF FilesAssumption, dcc_file_recv_callback, Close, FilesInv, FilesTypeOK
  <2>3. stage' \in [Transfers -> Stages]
    BY DEF dcc_file_recv_callback, FilesInv, FilesTypeOK, Stages
  <2> QED
    BY <1>1, <2>2, <2>3, OnDiskKeeps
       DEF dcc_file_recv_callback, FilesInv, FilesTypeOK
<1>3. PiecesInOrder'
  <2> SUFFICES ASSUME NEW u \in Transfers
               PROVE  /\ written'[u] <= got[u]
                      /\ stage'[u] = "offered" => got[u] = 0
                      /\ stage'[u] = "complete" => written'[u] = got[u]
    BY DEF dcc_file_recv_callback, PiecesInOrder
  <2>1. written'[u] = IF u = t THEN got[t] ELSE written[u]
    BY <1>1, OnDiskKeeps
  <2>2. stage'[u] = IF u = t THEN status ELSE stage[u]
    BY DEF dcc_file_recv_callback, FilesInv, FilesTypeOK
  <2> QED
    BY <2>1, <2>2 DEF FilesInv, FilesTypeOK, PiecesInOrder
<1>4. \A u \in Transfers : stage'[u] # "offered" => stage[u] # "offered"
  BY <1>1 DEF dcc_file_recv_callback, Receiving, FilesInv, FilesTypeOK
<1>5. Receiving' \subseteq Receiving
  BY <1>1 DEF dcc_file_recv_callback, Receiving, FilesInv, FilesTypeOK
<1>6. Alone'
  BY <1>4, <1>5 DEF dcc_file_recv_callback, FilesInv, Alone
<1>7. InPlace'
  BY <1>1, <1>4, OnDiskKeeps DEF dcc_file_recv_callback, InPlace
<1> QED
  BY <1>2, <1>3, <1>6, <1>7 DEF FilesInv

\* The FILEs that are open are counted.
LEMMA HeldStep ==
  ASSUME FilesInv, FilesAccounted, FilesNext
  PROVE  FilesAccounted'
<1> USE FilesAssumption DEF FilesAssumption, FilesInv, FilesTypeOK
<1>1. IsFiniteSet(Held)
  BY FS_Subset DEF Held
<1>2. PICK t \in Transfers :
        \/ irc_event_dcc_send(t) \/ CannotOpen(t)
        \/ Piece(t) \/ BufferWritten(t)
        \/ \E status \in {"complete", "failed"} :
             dcc_file_recv_callback(t, status)
  BY DEF FilesNext
<1>3. CASE irc_event_dcc_send(t)
  <2>1. Held' = Held \cup {t} /\ t \notin Held
    <3>1. PICK s \in {"accepted", "refused"} : stage' = [stage EXCEPT ![t] = s]
      BY <1>3 DEF irc_event_dcc_send
    <3>2. \A u \in Transfers : stage'[u] = IF u = t THEN s ELSE stage[u]
      BY <3>1
    <3>3. stage[t] = "offered"
      BY <1>3 DEF irc_event_dcc_send
    <3> QED
      BY <3>2, <3>3 DEF Held
  <2>2. Cardinality(Held') = Cardinality(Held) + 1
    BY <1>1, <2>1, FS_AddElement
  <2> QED
    BY <1>3, <2>2 DEF irc_event_dcc_send, FilesAccounted, Held
<1>4. CASE CannotOpen(t)
  BY <1>4 DEF CannotOpen, FilesAccounted
<1>5. CASE Piece(t)
  BY <1>5 DEF Piece, FilesAccounted
<1>6. CASE BufferWritten(t)
  BY <1>6 DEF BufferWritten, FilesAccounted
<1>7. ASSUME NEW status \in {"complete", "failed"},
             dcc_file_recv_callback(t, status)
      PROVE  FilesAccounted'
  <2>1. Held' = Held \ {t} /\ t \in Held
    BY <1>7 DEF dcc_file_recv_callback, Held, Receiving
  <2>2. Cardinality(Held') = Cardinality(Held) - 1
    BY <1>1, <2>1, FS_RemoveElement
  <2> QED
    BY <1>7, <2>2 DEF dcc_file_recv_callback, Close, FilesAccounted, Held
<1> QED
  BY <1>2, <1>3, <1>4, <1>5, <1>6, <1>7

LEMMA FilesStep ==
  ASSUME FilesInv, FilesAccounted, [FilesNext]_filesVars
  PROVE  FilesInv' /\ FilesAccounted'
<1>1. CASE UNCHANGED filesVars
  BY <1>1 DEF filesVars, FilesInv, FilesTypeOK, PiecesInOrder, Alone, InPlace,
              Receiving, FilesAccounted
<1>2. CASE FilesNext
  <2>1. FilesAccounted'
    BY <1>2, HeldStep
  <2>2. opened = Cardinality(Held)
    BY DEF FilesAccounted, Held
  <2>3. ASSUME NEW t \in Transfers, CannotOpen(t)
        PROVE  FilesInv'
    BY <2>3 DEF CannotOpen, FilesInv, FilesTypeOK, PiecesInOrder, Alone,
                InPlace, Receiving
  <2>4. FilesInv'
    BY <1>2, <2>2, <2>3, DccSendKeeps, PieceKeeps, BufferWrittenKeeps,
       LastCallbackKeeps DEF FilesNext
  <2> QED
    BY <2>1, <2>4
<1> QED
  BY <1>1, <1>2

LEMMA FilesInvCorrect == FilesSpec => [](FilesInv /\ FilesAccounted)
<1>1. FilesInit => FilesAccounted
  <2> SUFFICES ASSUME FilesInit PROVE FilesAccounted
    OBVIOUS
  <2>1. {t \in Transfers : stage[t] \in {"accepted", "refused"}} = {}
    BY DEF FilesInit
  <2>2. Cardinality({}) = 0
    BY FS_EmptySet
  <2> QED
    BY <2>1, <2>2 DEF FilesInit, FilesAccounted
<1>2. FilesInv /\ FilesAccounted /\ [FilesNext]_filesVars
        => (FilesInv /\ FilesAccounted)'
  BY FilesStep
<1> QED
  BY FilesInitially, <1>1, <1>2, PTL DEF FilesSpec

----------------------------------------------------------------------------

\* The types hold; the program never has more FILEs open than it can.
THEOREM FilesTypeCorrect == FilesSpec => []FilesTypeOK
<1>1. FilesInv => FilesTypeOK
  BY DEF FilesInv
<1> QED
  BY FilesInvCorrect, <1>1, PTL

\* A transfer that ended well has its data in the file, and nothing else, if
\* it overlapped no other and none began since, however many came before and
\* however they ended (irctest.c 150-172, 250-253).
THEOREM TransferIntactCorrect == FilesSpec => []TransferIntact
<1>1. FilesInv => TransferIntact
  BY DEF FilesInv, InPlace, PiecesInOrder, TransferIntact
<1> QED
  BY FilesInvCorrect, <1>1, PTL

\* Every open FILE belongs to a transfer that runs or was never accepted.
THEOREM FilesAccountedCorrect == FilesSpec => []FilesAccounted
BY FilesInvCorrect, PTL
=============================================================================
