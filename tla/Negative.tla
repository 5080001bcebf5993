------------------------------ MODULE Negative ------------------------------
(***************************************************************************)
(* cw08: threads that invert an image together, each the pixels whose      *)
(* value belongs to it (numbers) or a block of columns (block).  A step is *)
(* one pixel looked at by one thread.                                      *)
(***************************************************************************)
EXTENDS Integers, FiniteSets

CONSTANTS Values,       \* the values of pixels
          MaxWidth, MaxThreads, height

ASSUME NegAssumption ==
    /\ Values \subseteq 0 .. 255
    /\ MaxWidth \in Nat /\ MaxThreads \in Nat /\ height \in Nat

VARIABLES
    mode,            \* "numbers" or "block"
    width, no_threads,
    input_matrix, output_matrix,   \* pixels by row and column
    next,            \* the next row and column of each thread
    written          \* history: which thread wrote which row and column

negVars == <<mode, width, no_threads, input_matrix, output_matrix, next, written>>

Rows    == 0 .. height - 1
Columns == 0 .. width - 1
Threads == 0 .. no_threads - 1

\* Mutant of Share: the quotient is rounded up, as the comment over block_mode says.
M_RoundsUp == (width + no_threads - 1) \div no_threads

\* ceil gets the quotient of two integers, which is a whole number already.
Share == width \div no_threads

\* Columns of the thread that main starts with k = t + 1.
left_range(t)  == (t + 1 - 1) * Share
right_range(t) == (t + 1) * Share - 1

First(t) == IF mode = "block" THEN left_range(t) ELSE 0
Last(t)  == IF mode = "block" THEN right_range(t) ELSE width - 1

NegInit ==
    /\ mode \in {"numbers", "block"}
    /\ width \in 1 .. MaxWidth
    /\ no_threads \in 1 .. MaxThreads
    /\ input_matrix \in [Rows -> [Columns -> Values]]
    /\ output_matrix = [i \in Rows |-> [j \in Columns |-> 0]]
    /\ next = [t \in Threads |-> <<0, First(t)>>]
    /\ written = {}

Runs(t) == next[t][1] < height

\* One turn of the inner loop, or its end.
Goes(t) == next' = [next EXCEPT ![t] =
                      IF @[2] < Last(t) THEN <<@[1], @[2] + 1>> ELSE <<@[1] + 1, First(t)>>]

Inverts(t) ==
    LET i == next[t][1]
        j == next[t][2]
    IN /\ written' = written \cup {<<t, i, j>>}
       /\ output_matrix' = IF j \in Columns
                           THEN [output_matrix EXCEPT ![i][j] = 255 - input_matrix[i][j]]
                           ELSE output_matrix

Keeps == UNCHANGED <<written, output_matrix>>

numbers_mode(t) ==
    /\ mode = "numbers" /\ Runs(t)
    /\ IF input_matrix[next[t][1]][next[t][2]] % no_threads = t THEN Inverts(t) ELSE Keeps
    /\ Goes(t)
    /\ UNCHANGED <<mode, width, no_threads, input_matrix>>

block_mode(t) ==
    /\ mode = "block" /\ Runs(t)
    /\ IF First(t) <= Last(t) THEN Inverts(t) ELSE Keeps
    /\ Goes(t)
    /\ UNCHANGED <<mode, width, no_threads, input_matrix>>

NegNext == \E t \in Threads : numbers_mode(t) \/ block_mode(t)

NegSpec == NegInit /\ [][NegNext]_negVars

----------------------------------------------------------------------------
NegTypeOK ==
    /\ mode \in {"numbers", "block"}
    /\ output_matrix \in [Rows -> [Columns -> 0 .. 255]]
    /\ \A t \in Threads : next[t][1] \in 0 .. height

\* Threads write inside the image and no two of them the same pixel, each its negative and
\* nothing else; and when all have ended no pixel is left out, in numbers mode whatever the
\* pixels are and in block mode if the columns can be shared out evenly.
EachPixelOnce ==
    /\ \A w \in written : w[3] \in Columns
    /\ \A v, w \in written : v[2] = w[2] /\ v[3] = w[3] => v = w
    /\ \A i \in Rows, j \in Columns :
         output_matrix[i][j] = IF \E w \in written : w[2] = i /\ w[3] = j
                               THEN 255 - input_matrix[i][j] ELSE 0
    /\ (\A t \in Threads : ~Runs(t)) /\ (mode = "numbers" \/ width % no_threads = 0) =>
         \A i \in Rows, j \in Columns : \E w \in written : w[2] = i /\ w[3] = j

\* What the comment over block_mode says (main.c 97): thread k has the columns from
\* (k - 1) * ceil(N / m) to k * ceil(N / m) - 1, as far as there are any.
Ceiling(a, b) == (a + b - 1) \div b
BlockShares ==
    mode = "block" =>
      \A t \in Threads : ~Runs(t) =>
        {w[3] : w \in {v \in written : v[1] = t}} =
          {j \in Columns : t * Ceiling(width, no_threads) <= j
                            /\ j <= (t + 1) * Ceiling(width, no_threads) - 1}

\* The inductive invariant: a thread writes its own pixels, row after row, and what it has
\* passed of them is inverted.
Mine(t, i, j) == IF mode = "numbers" THEN input_matrix[i][j] % no_threads = t
                                     ELSE j \in First(t) .. Last(t)
Passed(t, i, j) == i < next[t][1] \/ (i = next[t][1] /\ j < next[t][2])
Wrote(t, i, j)  == t \in Threads /\ Mine(t, i, j) /\ Passed(t, i, j)

NegInv ==
    /\ NegTypeOK
    /\ width \in 1 .. MaxWidth /\ no_threads \in 1 .. MaxThreads
    /\ input_matrix \in [Rows -> [Columns -> Values]]
    /\ next \in [Threads -> (0 .. height) \X Nat]
    /\ \A t \in Threads : next[t][2] \in First(t) .. Last(t) \cup {First(t)}
    /\ written = {w \in Threads \X Rows \X Columns : Wrote(w[1], w[2], w[3])}
    /\ \A i \in Rows, j \in Columns :
         output_matrix[i][j] = IF \E t \in Threads : Wrote(t, i, j)
                               THEN 255 - input_matrix[i][j] ELSE 0
=============================================================================
