---------------------------- MODULE FifoTransfer ----------------------------
(***************************************************************************)
(* cw05/zad3: producers send pieces of their files through a FIFO, and     *)
(* consumers add each piece to the producer's line of a file.  Both use    *)
(* buffered streams, and lock a file with flock while they fill the        *)
(* buffer; what is left in it is written when the file is closed.  All     *)
(* that is sent fits into one buffer, so that no piece is cut.  The file   *)
(* is a sequence of cells: the label of a line, the text of a piece, or    *)
(* the end of a line.  A piece is so many characters of a producer's file, *)
(* the ends of lines among them.                                           *)
(***************************************************************************)
EXTENDS Integers, Sequences, FiniteSets

CONSTANTS Producers, Consumers,
          Line,         \* producer_number: the line that a producer's pieces go to
          MaxPieces,    \* bound: pieces in a producer's file
          BUFF_SIZE     \* cells a consumer moves behind the piece it puts in

ASSUME FifoAssumption ==
    /\ Producers \cap Consumers = {}
    /\ Line \in [Producers -> 1 .. 99]    \* the label of a line has room for two digits
    /\ BUFF_SIZE \in Nat

VARIABLES
    newlines,   \* the producers whose files have more lines than one
    input,      \* pieces each producer has not read yet
    buffer,     \* pieces in the buffer of its stream
    locked,     \* who has the lock on the FIFO, and who on the file
    fifo,       \* the pieces in the FIFO, each with its line
    file,       \* the output file
    stage,      \* where each producer and consumer is
    taken,      \* pieces in the buffer a consumer reads the FIFO through, the first in hand
    pending,    \* what is in the buffer of its other stream: offset and cells
    received,   \* history: pieces that have been put into each line
    raced       \* history: who has locked the file before another had closed it

fifoVars == <<newlines, input, buffer, locked, fifo, file, stage, taken, pending,
              received, raced>>

Label == 0
NL    == -1
Lines == {Line[p] : p \in Producers}
None  == [offset |-> 0, cells |-> <<>>]

\* What a producer may read: an end of a line is a character as any other.
Text(p) == {<<Line[p]>>} \cup (IF p \in newlines THEN {<<Line[p], NL>>, <<NL, Line[p]>>} ELSE {})

FifoInit ==
    /\ newlines \in SUBSET Producers
    /\ input \in [Producers -> 0 .. MaxPieces]
    /\ buffer = [p \in Producers |-> <<>>]
    /\ locked = [fifo |-> {}, file |-> {}]
    /\ fifo = <<>> /\ file = <<>>
    /\ stage = [x \in Producers \cup Consumers |-> "read"]
    /\ taken = [c \in Consumers |-> <<>>]
    /\ pending = [c \in Consumers |-> None]
    /\ received = [l \in Lines |-> 0]
    /\ raced = {}

To(x, l) == stage' = [stage EXCEPT ![x] = l]

----------------------------------------------------------------------------
(* The producers *)

ReadPiece(p) ==
    /\ stage[p] = "read" /\ input[p] > 0 /\ locked.fifo = {}
    /\ input' = [input EXCEPT ![p] = @ - 1]
    /\ locked' = [locked EXCEPT !.fifo = {p}]
    /\ To(p, "write")
    /\ UNCHANGED <<newlines, buffer, fifo, file, taken, pending, received, raced>>

WritePiece(p) ==
    /\ stage[p] = "write"
    /\ \E t \in Text(p) :
         buffer' = [buffer EXCEPT ![p] = Append(@, [line |-> Line[p], text |-> t])]
    /\ locked' = [locked EXCEPT !.fifo = {}]
    /\ To(p, "read")
    /\ UNCHANGED <<newlines, input, fifo, file, taken, pending, received, raced>>

\* fclose writes the buffer, without the lock.
CloseFifo(p) ==
    /\ stage[p] = "read" /\ input[p] = 0
    /\ fifo' = fifo \o buffer[p]
    /\ buffer' = [buffer EXCEPT ![p] = <<>>]
    /\ To(p, "end")
    /\ UNCHANGED <<newlines, input, locked, file, taken, pending, received, raced>>

----------------------------------------------------------------------------
(* The consumers *)

\* The cells of f from offset on are overwritten.
Written(f, w) ==
    SubSeq(f, 1, w.offset) \o w.cells \o SubSeq(f, w.offset + Len(w.cells) + 1, Len(f))

Ends(f) == {k \in DOMAIN f : f[k] = NL}
EndOf(f, line) == CHOOSE k \in Ends(f) : Cardinality({j \in Ends(f) : j <= k}) = line

\* A read of the FIFO takes all that is there.
Fill(c) ==
    /\ stage[c] = "read" /\ taken[c] = <<>> /\ fifo # <<>>
    /\ taken' = [taken EXCEPT ![c] = fifo]
    /\ fifo' = <<>>
    /\ UNCHANGED <<newlines, input, buffer, locked, file, stage, pending, received, raced>>

piece(c) == Head(taken[c])

Lock(c) ==
    /\ stage[c] = "read" /\ taken[c] # <<>> /\ locked.file = {}
    /\ locked' = [locked EXCEPT !.file = {c}]
    /\ raced' = raced \cup {x \in {c} : \E d \in Consumers : stage[d] = "close"}
    /\ To(c, "edit")
    /\ UNCHANGED <<newlines, input, buffer, fifo, file, taken, pending, received>>

\* The line is there: the piece goes before its end, and the rest behind the piece.
Insert(c) ==
    /\ stage[c] = "edit" /\ Cardinality(Ends(file)) >= piece(c).line
    /\ LET e == EndOf(file, piece(c).line)
           Smaller(m, n) == IF m < n THEN m ELSE n
           buff == SubSeq(file, e, Smaller(Len(file), e + BUFF_SIZE - 1))
       IN pending' = [pending EXCEPT ![c] = [offset |-> e - 1, cells |-> piece(c).text \o buff]]
    /\ To(c, "unlock")
    /\ UNCHANGED <<newlines, input, buffer, locked, fifo, file, taken, received, raced>>

\* It is not: the lines up to it are added, which seeking back over the last end writes.
AddLines(c) ==
    /\ stage[c] = "edit" /\ Cardinality(Ends(file)) < piece(c).line
    /\ LET n == piece(c).line - Cardinality(Ends(file))
           f == file \o [k \in 1 .. 2 * n |-> IF k % 2 = 1 THEN Label ELSE NL]
       IN /\ file' = f
          /\ pending' = [pending EXCEPT ![c] = [offset |-> Len(f) - 1,
                                             cells  |-> piece(c).text \o <<NL>>]]
    /\ To(c, "unlock")
    /\ UNCHANGED <<newlines, input, buffer, locked, fifo, taken, received, raced>>

Unlock(c) ==
    /\ stage[c] = "unlock"
    /\ locked' = [locked EXCEPT !.file = {}]
    /\ To(c, "close")
    /\ UNCHANGED <<newlines, input, buffer, fifo, file, taken, pending, received, raced>>

\* Mutant of CloseFile: the stream is not closed, and its buffer is lost.
M_LeavesOpen(c) ==
    /\ stage[c] = "close"
    /\ pending' = [pending EXCEPT ![c] = None]
    /\ received' = [received EXCEPT ![piece(c).line] = @ + 1]
    /\ taken' = [taken EXCEPT ![c] = Tail(@)]
    /\ To(c, "read")
    /\ UNCHANGED <<newlines, input, buffer, locked, fifo, file, raced>>

\* fclose writes the buffer, where the stream was then and without the lock.
CloseFile(c) ==
    /\ stage[c] = "close"
    /\ file' = Written(file, pending[c])
    /\ pending' = [pending EXCEPT ![c] = None]
    /\ received' = [received EXCEPT ![piece(c).line] = @ + 1]
    /\ taken' = [taken EXCEPT ![c] = Tail(@)]
    /\ To(c, "read")
    /\ UNCHANGED <<newlines, input, buffer, locked, fifo, raced>>

FifoNext ==
    \/ \E p \in Producers : ReadPiece(p) \/ WritePiece(p) \/ CloseFifo(p)
    \/ \E c \in Consumers :
         Fill(c) \/ Lock(c) \/ Insert(c) \/ AddLines(c) \/ Unlock(c) \/ CloseFile(c)

FifoSpec == FifoInit /\ [][FifoNext]_fifoVars

----------------------------------------------------------------------------
FifoTypeOK ==
    /\ received \in [Lines -> 0 .. MaxPieces * Cardinality(Producers)]
    /\ \A k \in DOMAIN file : file[k] \in {Label, NL} \cup Lines
    /\ \A k \in DOMAIN fifo : fifo[k].line \in Lines

LineAt(f, k) == 1 + Cardinality({j \in Ends(f) : j < k})

\* Each piece is in its line, each line holds what was received for it, and has a label.
WellFormed(f, r) ==
    /\ \A k \in DOMAIN f : f[k] \in Lines => LineAt(f, k) = f[k]
    /\ \A l \in Lines : Cardinality({k \in DOMAIN f : f[k] = l}) = r[l]
    /\ \A k \in DOMAIN f : f[k] = Label <=> (k = 1 \/ k - 1 \in Ends(f))

\* What the file may be relied on for: the producers' files have no ends of lines, what is
\* written back fits into a buffer, and nobody locked the file before the one before it,
\* which unlocks it first, had closed it.
Reliable == newlines = {} /\ raced = {} /\ Len(file) < BUFF_SIZE

\* No piece is lost, doubled or put into another line, however many consumers there are
\* and in whatever order the producers close the FIFO: at every step each line holds those
\* received for it, behind its label.  The lock alone does not make this true: the file
\* must also be closed before another locks it.
EveryPieceInItsLine == Reliable => WellFormed(file, received)

Cells == {Label, NL} \cup Lines

\* What c writes back puts its piece before the end of its line.
BeforeTheEnd(c) ==
    \E e \in Ends(file) :
      /\ Cardinality({j \in Ends(file) : j <= e}) = piece(c).line
      /\ pending[c] = [offset |-> e - 1,
                       cells  |-> <<piece(c).line>> \o SubSeq(file, e, Len(file))]

\* A piece that a producer sends: its text is one cell if no file has ends of lines.
Piece ==
    {x \in [line : Lines, text : Seq(Cells)] : newlines = {} => x.text = <<x.line>>}

FifoTypes ==
    /\ buffer \in [Producers -> Seq(Piece)] /\ fifo \in Seq(Piece) /\ file \in Seq(Cells)
    /\ stage \in [Producers \cup Consumers ->
                    {"read", "write", "end", "edit", "unlock", "close"}]
    /\ taken \in [Consumers -> Seq(Piece)]
    /\ pending \in [Consumers -> [offset : Nat, cells : Seq(Cells)]]
    /\ received \in [Lines -> Nat] /\ raced \subseteq Consumers
    /\ locked \in [fifo : SUBSET Producers, file : SUBSET Consumers]
    /\ \A c \in Consumers :
         /\ pending[c].offset <= Len(file)
         /\ stage[c] \in {"edit", "unlock", "close"} => taken[c] # <<>>

\* The inductive invariant: who changes the file is alone from its lock to its close, and
\* what it is about to write back is the file as it is, with the piece in it.
Alone ==
    /\ \A c \in Consumers : stage[c] \in {"edit", "unlock"} => locked.file = {c}
    /\ raced = {} => \A c, d \in Consumers :
         {stage[c], stage[d]} \subseteq {"edit", "unlock", "close"} => c = d

Kept ==
    Reliable =>
      /\ WellFormed(file, received)
      /\ file # <<>> => file[Len(file)] = NL
      /\ \A c \in Consumers : stage[c] \in {"unlock", "close"} => BeforeTheEnd(c)

FifoInv == FifoTypes /\ Alone /\ Kept
=============================================================================
