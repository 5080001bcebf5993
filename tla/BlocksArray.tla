---------------------------- MODULE BlocksArray ----------------------------
(***************************************************************************)
(* cw01: an array of blocks on the heap, and the commands that create it,  *)
(* add a block per counted file, remove a block, and remove everything at  *)
(* the end.  A step is one command, one counted file, or one turn of the   *)
(* loop that removes everything.  Texts and times are left out, but for    *)
(* the writes past the end of what was allocated for them.                 *)
(***************************************************************************)
EXTENDS Integers, Sequences, FiniteSets

CONSTANTS MaxCommands,   \* bound: commands given
          MaxTable       \* bound: sizes given to create_table

ASSUME BlocksAssumption == MaxCommands \in Nat /\ MaxTable \in Nat

VARIABLES
    table,     \* curr_length, max_size and the pointers to blocks in use; NULL before the first
    heap,      \* blocks allocated and not freed
    made,      \* blocks ever allocated, which are numbered from 1
    given,     \* commands so far
    state,     \* "running", "broken" off, "removing", "ended", "crashed", or "freed_twice"
    loop,      \* i of the loop of removeArrayOfBlocks
    condition  \* of the heap: "whole", or "damaged" by a write past the end of a block

blockVars == <<table, heap, made, given, state, loop, condition>>

NULL == [curr_length |-> 0, max_size |-> -1, blocks |-> <<>>]

BlocksInit ==
    /\ table = NULL
    /\ heap = {} /\ made = 0 /\ given = 0
    /\ state = "running" /\ loop = 0 /\ condition = "whole"

\* times() writes a struct tms where there is room for a pointer to one.
Command ==
    /\ state = "running" /\ given < MaxCommands
    /\ given' = given + 1
    /\ condition' \in {condition, "damaged"}
    /\ UNCHANGED loop

Crashes == state' = "crashed" /\ UNCHANGED <<table, heap, made>>

\* What is undefined after a write past the end of a block: any later use of the heap may
\* stop the process, or do as if nothing had happened.
Aborts ==
    /\ condition = "damaged" /\ state \in {"running", "broken", "removing"}
    /\ Crashes
    /\ UNCHANGED <<given, loop, condition>>

\* The table before is forgotten with its blocks.
create_table(size) ==
    /\ Command
    /\ table' = [curr_length |-> 0, max_size |-> size, blocks |-> <<>>]
    /\ UNCHANGED <<heap, made, state>>

get_new_index(t) == [t EXCEPT !.curr_length = @ + 1]

check_for_realloc(t) ==
    IF t.curr_length >= t.max_size THEN [t EXCEPT !.max_size = @ * 2] ELSE t

\* Pointers past curr_length are left behind, and overwritten by the next block.
Place(t, index, b) ==
    [t EXCEPT !.blocks = SubSeq(@, 1, index) \o <<b>>]

\* One file of wc_files.  When the file of results cannot be opened nothing is added.  The
\* table of size 0 is doubled to size 0, which realloc takes for free.  The zero behind the
\* text and a name longer than temp.txt are written past the end of their blocks, which
\* Command stands for, too.
count ==
    /\ Command
    /\ \/ /\ table.max_size > 0
          /\ LET t == get_new_index(table) IN
             table' = Place(check_for_realloc(t), t.curr_length - 1, made + 1)
          /\ made' = made + 1
          /\ heap' = heap \cup {made + 1}
          /\ UNCHANGED state
       \/ UNCHANGED <<table, heap, made, state>>
       \/ table.max_size <= 0 /\ Crashes

\* Mutant of Shifted: one pointer too few is moved.
M_ShiftsOneLess(s, index) ==
    [k \in 1 .. Len(s) - 1 |-> IF k > index + 1 THEN s[k + 1] ELSE s[k]]

\* The pointers without the one at index.
Shifted(s, index) ==
    [k \in 1 .. Len(s) - 1 |-> IF k > index THEN s[k + 1] ELSE s[k]]

Removed(t, index) == [t EXCEPT !.curr_length = @ - 1, !.blocks = Shifted(@, index)]
Freed(t, index)   == t.blocks[index + 1]

\* The blocks are freed, the last one of three being the Block itself, and their pointer
\* goes.
RemoveAt(index) ==
    IF Freed(table, index) \in heap
    THEN /\ table' = Removed(table, index)
         /\ heap' = heap \ {Freed(table, index)}
         /\ UNCHANGED state
    ELSE state' = "freed_twice" /\ UNCHANGED <<table, heap>>

removeBlock(index) ==
    /\ Command /\ UNCHANGED made
    /\ \/ index \in 0 .. table.curr_length - 1 /\ RemoveAt(index)
       \/ /\ index \notin 0 .. table.curr_length - 1 /\ table # NULL
          /\ state' = "broken"
          /\ UNCHANGED <<table, heap>>
       \/ table = NULL /\ Crashes

\* The commands are done, or one of them was wrong.
removeArrayOfBlocks ==
    /\ state \in {"running", "broken"}
    /\ state' = IF table = NULL THEN "crashed" ELSE "removing"
    /\ UNCHANGED <<table, heap, made, given, loop, condition>>

\* The loop goes up while the array gets shorter: it frees every second block.
RemoveTurn ==
    /\ state = "removing"
    /\ \/ loop < table.curr_length /\ RemoveAt(loop) /\ loop' = loop + 1
       \/ /\ loop >= table.curr_length
          /\ table' = NULL /\ state' = "ended"
          /\ UNCHANGED <<heap, loop>>
    /\ UNCHANGED <<made, given, condition>>

BlocksNext ==
    \/ \E size \in 0 .. MaxTable : create_table(size)
    \/ count
    \/ \E index \in 0 .. MaxCommands : removeBlock(index)
    \/ removeArrayOfBlocks \/ RemoveTurn \/ Aborts

BlocksSpec == BlocksInit /\ [][BlocksNext]_blockVars

----------------------------------------------------------------------------
States == {"running", "broken", "removing", "ended", "crashed", "freed_twice"}

BlocksTypeOK ==
    /\ table.curr_length \in 0 .. MaxCommands /\ loop \in 0 .. MaxCommands
    /\ heap \subseteq 1 .. MaxCommands /\ made \in 0 .. MaxCommands
    /\ state \in States /\ condition \in {"whole", "damaged"}

\* The array's pointers are as many as it says and fit into what was allocated for them,
\* and each is to a block of its own that is still allocated: neither remove_block nor the
\* loop at the end, which takes from the array it runs over, frees a block twice.  Only a
\* table that was not created, or for nothing, and a heap written past the end of a block
\* (mylib.c 127-137, main.c 49) crash the program.
BlocksLive ==
    /\ Len(table.blocks) = table.curr_length
    /\ table = NULL \/ table.curr_length <= table.max_size
    /\ \A k \in DOMAIN table.blocks : table.blocks[k] \in heap
    /\ \A k, l \in DOMAIN table.blocks : table.blocks[k] = table.blocks[l] => k = l
    /\ state # "freed_twice"
    /\ state = "crashed" => table.max_size <= 0 \/ condition = "damaged"

\* The inductive invariant: a new block is none of those the array points to.
BlocksInv ==
    /\ table \in [curr_length : Nat, max_size : Nat \cup {-1}, blocks : Seq(Nat)]
    /\ given \in 0 .. MaxCommands /\ made \in 0 .. given /\ heap \subseteq 1 .. made
    /\ loop \in Nat /\ loop + table.curr_length <= given
    /\ state \in States /\ condition \in {"whole", "damaged"}
    /\ state \in {"running", "broken"} => loop = 0
    /\ BlocksLive
=============================================================================
