----------------------------- MODULE LabProofs -----------------------------
(***************************************************************************)
(* Proofs about the array of blocks of cw01, the image of cw08, the        *)
(* pipelines of cw05/zad1, the producers and consumers of cw05/zad3 and    *)
(* the boards of cw10.                                                     *)
(***************************************************************************)
EXTENDS BlocksArray, Negative, Pipeline, FifoTransfer, Board, SequenceTheorems,
        FiniteSetTheorems, TLAPS

----------------------------------------------------------------------------
(* The array of blocks *)

LEMMA BlocksInitInv == BlocksInit => BlocksInv
BY BlocksAssumption DEF BlocksInit, BlocksInv, BlocksLive, NULL, States

\* A block is placed behind the last pointer, in an array that is large enough for it.
LEMMA PlaceIt ==
  ASSUME BlocksInv, table.max_size > 0
  PROVE  LET t == Place(check_for_realloc(get_new_index(table)), table.curr_length, made + 1)
         IN /\ t \in [curr_length : Nat, max_size : Nat \cup {-1}, blocks : Seq(Nat)]
            /\ t.curr_length = table.curr_length + 1
            /\ t.curr_length <= t.max_size
            /\ t.blocks = Append(table.blocks, made + 1)
<1> DEFINE u == check_for_realloc(get_new_index(table))
           n == table.curr_length
<1>1. /\ table \in [curr_length : Nat, max_size : Nat \cup {-1}, blocks : Seq(Nat)]
      /\ Len(table.blocks) = n /\ n <= table.max_size /\ n \in Nat /\ made \in Nat
      /\ table.max_size \in Nat
  BY DEF BlocksInv, BlocksLive, NULL
<1>2. /\ u.curr_length = n + 1 /\ u.blocks = table.blocks
      /\ u.max_size \in Nat /\ n + 1 <= u.max_size
      /\ u \in [curr_length : Nat, max_size : Nat \cup {-1}, blocks : Seq(Nat)]
  <2> DEFINE g == get_new_index(table)
  <2>1. /\ g \in [curr_length : Nat, max_size : Nat \cup {-1}, blocks : Seq(Nat)]
        /\ g.curr_length = n + 1 /\ g.max_size = table.max_size /\ g.blocks = table.blocks
    BY <1>1 DEF get_new_index
  <2> HIDE DEF g
  <2>2. CASE g.curr_length >= g.max_size
    <3>1. u = [g EXCEPT !.max_size = g.max_size * 2]
      BY <2>2 DEF check_for_realloc, g
    <3>2. g.max_size * 2 \in Nat /\ n + 1 <= g.max_size * 2
      BY <1>1, <2>1, <2>2
    <3> HIDE DEF u
    <3> QED BY <1>1, <2>1, <3>1, <3>2
  <2>3. CASE ~(g.curr_length >= g.max_size)
    <3>1. u = g
      BY <2>3 DEF check_for_realloc, g
    <3> HIDE DEF u
    <3> QED BY <1>1, <2>1, <2>3, <3>1
  <2> QED BY <2>2, <2>3
<1>3. SubSeq(table.blocks, 1, n) \o <<made + 1>> = Append(table.blocks, made + 1)
  BY <1>1
<1>4. Append(table.blocks, made + 1) \in Seq(Nat)
  BY <1>1
<1> HIDE DEF u
<1>5. /\ Place(u, n, made + 1) = [u EXCEPT !.blocks = Append(table.blocks, made + 1)]
      /\ u \in [curr_length : Nat, max_size : Nat \cup {-1}, blocks : Seq(Nat)]
  BY <1>2, <1>3 DEF Place
<1> QED BY <1>2, <1>4, <1>5 DEF u

\* What is left of the pointers when one has been removed.
LEMMA ShiftedIt ==
  ASSUME NEW s \in Seq(Nat), NEW index \in 0 .. Len(s) - 1
  PROVE  /\ Shifted(s, index) \in Seq(Nat) /\ Len(Shifted(s, index)) = Len(s) - 1
         /\ \A k \in 1 .. Len(s) - 1 :
              Shifted(s, index)[k] = IF k > index THEN s[k + 1] ELSE s[k]
BY DEF Shifted

LEMMA CrashInv ==
  ASSUME BlocksInv, Command, Crashes, table.max_size <= 0
  PROVE  BlocksInv'
BY BlocksAssumption DEF BlocksInv, BlocksLive, Command, Crashes, NULL, States

LEMMA CountInv == BlocksInv /\ count => BlocksInv'
<1> SUFFICES ASSUME BlocksInv, count PROVE BlocksInv'
  OBVIOUS
<1>1. CASE /\ table.max_size > 0
           /\ LET t == get_new_index(table) IN
              table' = Place(check_for_realloc(t), t.curr_length - 1, made + 1)
           /\ made' = made + 1 /\ heap' = heap \cup {made + 1} /\ UNCHANGED state
  <2> DEFINE t == Place(check_for_realloc(get_new_index(table)), table.curr_length, made + 1)
  <2>1. table' = t
    BY <1>1 DEF get_new_index, BlocksInv
  <2>2. /\ t \in [curr_length : Nat, max_size : Nat \cup {-1}, blocks : Seq(Nat)]
        /\ t.curr_length = table.curr_length + 1 /\ t.curr_length <= t.max_size
        /\ t.blocks = Append(table.blocks, made + 1)
    BY <1>1, PlaceIt
  <2> HIDE DEF t
  <2>3. /\ given' \in 0 .. MaxCommands /\ given' = given + 1 /\ state = "running"
        /\ loop' = 0 /\ condition' \in {"whole", "damaged"}
    BY BlocksAssumption DEF count, Command, BlocksInv
  <2>4. /\ Len(t.blocks) = t.curr_length
        /\ \A k \in DOMAIN t.blocks : t.blocks[k] \in heap'
        /\ \A k, l \in DOMAIN t.blocks : t.blocks[k] = t.blocks[l] => k = l
    <3>1. /\ Len(table.blocks) = table.curr_length /\ table.blocks \in Seq(Nat) /\ made \in Nat
          /\ \A k \in DOMAIN table.blocks : table.blocks[k] \in heap /\ table.blocks[k] <= made
          /\ \A k, l \in DOMAIN table.blocks : table.blocks[k] = table.blocks[l] => k = l
      BY DEF BlocksInv, BlocksLive
    <3> DEFINE n == Len(table.blocks)
    <3>2. /\ n \in Nat /\ DOMAIN table.blocks = 1 .. n /\ DOMAIN t.blocks = 1 .. n + 1
          /\ Len(t.blocks) = n + 1 /\ t.blocks[n + 1] = made + 1
          /\ \A k \in 1 .. n : t.blocks[k] = table.blocks[k]
      BY <3>1, <2>2
    <3>3. \A k \in 1 .. n + 1 : k \in 1 .. n \/ k = n + 1
      BY <3>2
    <3> HIDE DEF n
    <3>4. made + 1 \in heap' /\ heap \subseteq heap' /\ \A b \in Nat : b <= made => b # made + 1
      BY <1>1, <3>1
    <3>5. \A k \in 1 .. n : table.blocks[k] # made + 1
      <4>1. TAKE k \in 1 .. n
      <4>2. k \in DOMAIN table.blocks
        BY <3>2
      <4>3. table.blocks[k] \in Nat /\ table.blocks[k] <= made
        BY <3>1, <4>2
      <4> HIDE DEF n
      <4> QED BY <3>4, <4>3
    <3>6. \A k \in DOMAIN t.blocks : t.blocks[k] \in heap'
      BY <3>1, <3>2, <3>3, <3>4
    <3>7. \A k, l \in DOMAIN t.blocks : t.blocks[k] = t.blocks[l] => k = l
      BY <3>1, <3>2, <3>3, <3>5
    <3>8. Len(t.blocks) = t.curr_length
      BY <2>2, <3>1, <3>2 DEF n
    <3> QED BY <3>6, <3>7, <3>8
  <2>5. /\ made \in Nat /\ made <= given /\ heap \subseteq 1 .. made /\ given \in Nat
        /\ table.curr_length \in Nat /\ table.curr_length <= given
    BY DEF BlocksInv
  <2>6. BlocksLive'
    BY <1>1, <2>1, <2>2, <2>3, <2>4 DEF BlocksLive
  <2>7. loop' \in Nat /\ loop' + table'.curr_length <= given'
    BY <2>1, <2>2, <2>3, <2>5
  <2>8. made' \in 0 .. given' /\ heap' \subseteq 1 .. made'
    BY <1>1, <2>3, <2>5
  <2> QED BY <1>1, <2>1, <2>2, <2>3, <2>6, <2>7, <2>8 DEF BlocksInv
<1>2. CASE UNCHANGED <<table, heap, made, state>>
  BY <1>2, BlocksAssumption DEF count, Command, BlocksInv, BlocksLive, NULL, States
<1>3. CASE table.max_size <= 0 /\ Crashes
  BY <1>3, CrashInv DEF count
<1> QED BY <1>1, <1>2, <1>3 DEF count

\* What a removal leaves: the array without one of its blocks, which was still allocated.
LEMMA RemovedIt ==
  ASSUME BlocksInv, NEW index \in 0 .. table.curr_length - 1, RemoveAt(index)
  PROVE  /\ table' \in [curr_length : Nat, max_size : Nat \cup {-1}, blocks : Seq(Nat)]
         /\ table'.curr_length = table.curr_length - 1
         /\ table'.max_size = table.max_size /\ table.max_size # -1
         /\ Len(table'.blocks) = table'.curr_length
         /\ \A k \in DOMAIN table'.blocks : table'.blocks[k] \in heap'
         /\ \A k, l \in DOMAIN table'.blocks : table'.blocks[k] = table'.blocks[l] => k = l
         /\ heap' \subseteq heap /\ state' = state
<1> DEFINE s == table.blocks
           r == Shifted(s, index)
<1>1. /\ s \in Seq(Nat) /\ Len(s) = table.curr_length /\ index \in 0 .. Len(s) - 1
      /\ index + 1 \in DOMAIN s /\ s[index + 1] \in heap
      /\ \A k \in DOMAIN s : s[k] \in heap
      /\ \A k, l \in DOMAIN s : s[k] = s[l] => k = l
  BY DEF BlocksInv, BlocksLive
<1>2. /\ table # NULL /\ table' = Removed(table, index) /\ heap' = heap \ {s[index + 1]}
      /\ state' = state
  BY <1>1 DEF RemoveAt, Freed, BlocksInv, NULL
<1>3. /\ r \in Seq(Nat) /\ Len(r) = Len(s) - 1
      /\ \A k \in 1 .. Len(s) - 1 : r[k] = IF k > index THEN s[k + 1] ELSE s[k]
  BY <1>1, ShiftedIt
<1> HIDE DEF s, r
<1>4. /\ \A k \in DOMAIN r : r[k] \in heap \ {s[index + 1]}
      /\ \A k, l \in DOMAIN r : r[k] = r[l] => k = l
  <2>1. \A k \in DOMAIN r : \E m \in DOMAIN s :
          r[k] = s[m] /\ m # index + 1 /\ m = IF k > index THEN k + 1 ELSE k
    <3> TAKE k \in DOMAIN r
    <3> DEFINE m == IF k > index THEN k + 1 ELSE k
    <3>1. DOMAIN s = 1 .. Len(s) /\ Len(s) \in Nat
      BY <1>1
    <3>2. DOMAIN r = 1 .. Len(s) - 1
      BY <1>3, <3>1
    <3>3. k \in 1 .. Len(s) - 1 /\ index \in 0 .. Len(s) - 1 /\ r[k] = s[m]
      BY <1>1, <1>3, <3>2
    <3>4. m \in 1 .. Len(s) /\ m # index + 1
      BY <3>1, <3>3
    <3> QED BY <3>1, <3>3, <3>4
  <2>2. \A k \in DOMAIN r : r[k] \in heap \ {s[index + 1]}
    BY <1>1, <2>1
  <2>3. ASSUME NEW k \in DOMAIN r, NEW l \in DOMAIN r, r[k] = r[l] PROVE k = l
    <3>1. PICK m \in DOMAIN s :
            r[k] = s[m] /\ m # index + 1 /\ m = IF k > index THEN k + 1 ELSE k
      BY <2>1
    <3>2. PICK o \in DOMAIN s :
            r[l] = s[o] /\ o # index + 1 /\ o = IF l > index THEN l + 1 ELSE l
      BY <2>1
    <3>3. m = o
      <4>1. s[m] = s[o]
        BY <2>3, <3>1, <3>2
      <4> QED BY <1>1, <4>1
    <3>4. k \in Int /\ l \in Int /\ index \in Int
      BY <1>3
    <3> QED BY <3>1, <3>2, <3>3, <3>4
  <2> QED BY <2>2, <2>3
<1>5. /\ table'.curr_length = table.curr_length - 1 /\ table'.max_size = table.max_size
      /\ table'.blocks = r
      /\ table' \in [curr_length : Nat, max_size : Nat \cup {-1}, blocks : Seq(Nat)]
  <2>1. table' = [table EXCEPT !.curr_length = table.curr_length - 1, !.blocks = r]
    BY <1>2 DEF Removed, s, r
  <2>2. /\ table \in [curr_length : Nat, max_size : Nat \cup {-1}, blocks : Seq(Nat)]
        /\ table.curr_length - 1 \in Nat
    BY DEF BlocksInv
  <2> QED BY <1>3, <2>1, <2>2
<1>6. Len(r) = table.curr_length - 1 /\ table.max_size # -1
  BY <1>1, <1>2, <1>3 DEF BlocksInv, BlocksLive
<1> QED BY <1>2, <1>4, <1>5, <1>6

LEMMA RemoveInv == \A index \in 0 .. MaxCommands : BlocksInv /\ removeBlock(index) => BlocksInv'
<1> SUFFICES ASSUME NEW index \in 0 .. MaxCommands, BlocksInv, removeBlock(index)
             PROVE  BlocksInv'
  OBVIOUS
<1>1. /\ given' \in 0 .. MaxCommands /\ given' = given + 1 /\ state = "running" /\ Command
      /\ loop = 0 /\ loop' = 0 /\ condition' \in {"whole", "damaged"} /\ made' = made
  BY BlocksAssumption DEF removeBlock, Command, BlocksInv
<1>2. CASE index \in 0 .. table.curr_length - 1 /\ RemoveAt(index)
  <2>0. /\ table' \in [curr_length : Nat, max_size : Nat \cup {-1}, blocks : Seq(Nat)]
        /\ table'.curr_length = table.curr_length - 1
        /\ table'.max_size = table.max_size /\ table.max_size # -1
        /\ heap' \subseteq heap /\ state' = state
    BY <1>2, RemovedIt
  <2>1. /\ made \in Nat /\ made <= given /\ heap \subseteq 1 .. made /\ given \in Nat
        /\ table.curr_length \in Nat /\ table.curr_length <= given
        /\ table = NULL \/ table.curr_length <= table.max_size
    BY <1>1 DEF BlocksInv, BlocksLive
  <2>2. table'.curr_length \in Nat /\ table'.curr_length <= given' /\ table # NULL
    BY <1>1, <1>2, <2>0, <2>1 DEF NULL
  <2>3. made' \in 0 .. given' /\ heap' \subseteq 1 .. made'
    BY <1>1, <2>0, <2>1
  <2>4. table'.curr_length <= table'.max_size
    BY <2>0, <2>1, <2>2
  <2>5. BlocksLive'
    BY <1>1, <1>2, <2>4, RemovedIt DEF BlocksLive
  <2> QED BY <1>1, <2>0, <2>2, <2>3, <2>5 DEF BlocksInv
<1>3. CASE table # NULL /\ state' = "broken" /\ UNCHANGED <<table, heap>>
  BY <1>1, <1>3 DEF BlocksInv, BlocksLive, NULL, States
<1>4. CASE table = NULL /\ Crashes
  BY <1>1, <1>4, CrashInv DEF NULL
<1> QED BY <1>2, <1>3, <1>4 DEF removeBlock

\* The loop at the end removes from an array that gets shorter under it.
LEMMA RemoveTurnInv == BlocksInv /\ RemoveTurn => BlocksInv'
<1> SUFFICES ASSUME BlocksInv, RemoveTurn PROVE BlocksInv'
  OBVIOUS
<1>1. CASE loop < table.curr_length /\ RemoveAt(loop) /\ loop' = loop + 1
  <2>1. /\ made \in Nat /\ made <= given /\ heap \subseteq 1 .. made /\ given \in Nat
        /\ table.curr_length \in Nat /\ loop + table.curr_length <= given /\ loop \in Nat
        /\ table = NULL \/ table.curr_length <= table.max_size
        /\ state = "removing" /\ loop \in 0 .. table.curr_length - 1
        /\ UNCHANGED <<made, given, condition>>
    BY <1>1 DEF BlocksInv, BlocksLive, RemoveTurn
  <2>0. /\ table' \in [curr_length : Nat, max_size : Nat \cup {-1}, blocks : Seq(Nat)]
        /\ table'.curr_length = table.curr_length - 1
        /\ table'.max_size = table.max_size /\ table.max_size # -1
        /\ heap' \subseteq heap /\ state' = state
    BY <1>1, <2>1, RemovedIt
  <2>2. /\ table'.curr_length \in Nat /\ loop' \in Nat /\ table # NULL
        /\ loop' + table'.curr_length <= given'
    BY <1>1, <2>0, <2>1 DEF NULL
  <2>3. made' \in 0 .. given' /\ heap' \subseteq 1 .. made'
    BY <2>0, <2>1
  <2>4. table'.curr_length <= table'.max_size
    BY <2>0, <2>1, <2>2
  <2>5. BlocksLive'
    BY <1>1, <2>1, <2>4, RemovedIt DEF BlocksLive
  <2>6. given' \in 0 .. MaxCommands /\ condition' \in {"whole", "damaged"} /\ state' = "removing"
    BY <2>0, <2>1 DEF BlocksInv
  <2> QED BY <2>0, <2>1, <2>2, <2>3, <2>5, <2>6 DEF BlocksInv, States
<1>2. CASE table' = NULL /\ state' = "ended" /\ UNCHANGED <<heap, loop, made, given, condition>>
  BY <1>2 DEF BlocksInv, BlocksLive, NULL, States
<1> QED BY <1>1, <1>2 DEF RemoveTurn

LEMMA BlocksStep == BlocksInv /\ [BlocksNext]_blockVars => BlocksInv'
<1> SUFFICES ASSUME BlocksInv, [BlocksNext]_blockVars PROVE BlocksInv'
  OBVIOUS
<1>1. CASE \E size \in 0 .. MaxTable : create_table(size)
  BY <1>1, BlocksAssumption DEF create_table, Command, BlocksInv, BlocksLive, NULL
<1>2. CASE removeArrayOfBlocks
  BY <1>2 DEF removeArrayOfBlocks, BlocksInv, BlocksLive, NULL, States
<1>3. CASE Aborts
  BY <1>3 DEF Aborts, Crashes, BlocksInv, BlocksLive, States
<1>4. CASE UNCHANGED blockVars
  BY <1>4 DEF blockVars, BlocksInv, BlocksLive, NULL
<1> QED BY <1>1, <1>2, <1>3, <1>4, CountInv, RemoveInv, RemoveTurnInv DEF BlocksNext

LEMMA BlocksInductive == BlocksSpec => []BlocksInv
BY BlocksInitInv, BlocksStep, PTL DEF BlocksSpec

\* The array, the heap and the counters have their types (cw01/z1/mylib.c).
THEOREM BlocksTypeCorrect == BlocksSpec => []BlocksTypeOK
<1>1. BlocksInv => BlocksTypeOK
  BY BlocksAssumption DEF BlocksInv, BlocksTypeOK
<1> QED BY <1>1, BlocksInductive, PTL

\* Every pointer of the array is to a block of its own that is still allocated, for any
\* sequence of commands, and neither removeBlock nor the loop of removeArrayOfBlocks frees
\* anything twice (cw01/z1/mylib.c 21-147).
THEOREM BlocksStayLive == BlocksSpec => []BlocksLive
BY BlocksInductive, PTL DEF BlocksInv

----------------------------------------------------------------------------
(* The negative *)

\* The quotient and the rest.
LEMMA Division ==
  ASSUME NEW w \in Nat, NEW n \in Nat \ {0}
  PROVE  w \div n \in Nat /\ w = n * (w \div n) + (w % n) /\ w % n \in 0 .. n - 1
OBVIOUS

LEMMA Products ==
  ASSUME NEW a \in Nat, NEW b \in Nat, NEW q \in Nat, a <= b
  PROVE  a * q \in Nat /\ b * q \in Nat /\ a * q <= b * q /\ (a + 1) * q = a * q + q
OBVIOUS

\* Where the columns of a thread begin and end: in the image, and with one thread after
\* the other.
LEMMA ColumnsOf ==
  ASSUME NegInv, NEW t \in Threads
  PROVE  /\ width \in Nat \ {0} /\ no_threads \in Nat \ {0} /\ t \in Nat /\ t < no_threads
         /\ Share \in Nat /\ no_threads * Share = width - (width % no_threads)
         /\ width % no_threads \in Nat
         /\ First(t) \in Nat /\ Last(t) \in Int /\ Last(t) < width
         /\ mode = "block" =>
              /\ First(t) = t * Share /\ Last(t) = t * Share + Share - 1
              /\ Last(t) < no_threads * Share
<1>1. width \in Nat \ {0} /\ no_threads \in Nat \ {0} /\ t \in Nat /\ t < no_threads
  BY NegAssumption DEF NegInv, Threads
<1>2. /\ Share \in Nat /\ width = no_threads * Share + (width % no_threads)
      /\ width % no_threads \in Nat
  <2>1. /\ width \div no_threads \in Nat
        /\ width = no_threads * (width \div no_threads) + (width % no_threads)
        /\ width % no_threads \in 0 .. no_threads - 1
    BY <1>1, Division, Zenon
  <2>2. width % no_threads \in Nat
    BY <1>1, <2>1
  <2> QED BY <2>1, <2>2, Zenon DEF Share
<1> DEFINE q == Share
           n == no_threads
<1>3. /\ t * q \in Nat /\ (t + 1) * q = t * q + q /\ (t + 1) * q <= n * q
      /\ t * q + q <= n * q /\ n * q \in Nat
  BY <1>1, <1>2, Products
<1>4. t + 1 - 1 = t
  BY <1>1
<1>5. left_range(t) = t * q /\ right_range(t) = t * q + q - 1
  <2>1. left_range(t) = t * q
    BY <1>4, Zenon DEF left_range
  <2>2. right_range(t) = t * q + q - 1
    <3>1. right_range(t) = (t + 1) * q - 1
      BY Zenon DEF right_range
    <3>2. (t + 1) * q = t * q + q
      BY <1>3
    <3> DEFINE a == t * q
    <3>3. a \in Nat /\ q \in Nat
      BY <1>2, <1>3
    <3>4. right_range(t) = (a + q) - 1
      BY <3>1, <3>2, Zenon
    <3>5. right_range(t) = a + q - 1
      <4> HIDE DEF a, q
      <4> QED BY <3>3, <3>4
    <3> QED BY <3>5
  <2> QED BY <2>1, <2>2
<1>6. CASE mode = "block"
  <2>1. First(t) = t * q /\ Last(t) = t * q + q - 1
    BY <1>5, <1>6 DEF First, Last
  <2> HIDE DEF q, n
  <2>2. n * q <= width /\ n * q \in Int
    BY <1>1, <1>2, <1>3 DEF q, n
  <2>3. First(t) \in Nat /\ Last(t) \in Int /\ Last(t) < n * q /\ Last(t) < width
    <3> DEFINE a == t * q
               b == n * q
    <3>1. a \in Nat /\ b \in Nat /\ a + q <= b /\ b <= width /\ q \in Nat
      BY <1>2, <1>3, <2>2 DEF q
    <3>2. First(t) = a /\ Last(t) = a + q - 1
      BY <2>1
    <3> HIDE DEF a, b
    <3>3. First(t) \in Nat /\ Last(t) \in Int /\ Last(t) < b /\ Last(t) < width
      BY <1>1, <3>1, <3>2
    <3> QED BY <3>3 DEF b
  <2> QED BY <1>1, <1>2, <1>3, <2>1, <2>2, <2>3 DEF q, n
<1>7. CASE mode # "block"
  <2>1. First(t) = 0 /\ Last(t) = width - 1
    BY <1>7 DEF First, Last
  <2> QED BY <1>1, <1>2, <1>3, <1>7, <2>1
<1> QED BY <1>6, <1>7

\* No two threads have the same pixel.
LEMMA OneThread ==
  ASSUME NegInv, NEW t \in Threads, NEW u \in Threads, NEW row \in Rows, NEW j \in Columns,
         Mine(t, row, j), Mine(u, row, j)
  PROVE  t = u
<1>1. CASE mode = "numbers"
  BY <1>1 DEF Mine
<1>2. CASE mode = "block"
  <2>1. /\ t \in Nat /\ u \in Nat /\ Share \in Nat
        /\ First(t) = t * Share /\ Last(t) = t * Share + Share - 1
        /\ First(u) = u * Share /\ Last(u) = u * Share + Share - 1
    BY <1>2, ColumnsOf
  <2>2. j \in First(t) .. Last(t) /\ j \in First(u) .. Last(u)
    BY <1>2 DEF Mine
  <2>3. ~(t < u)
    <3> SUFFICES ASSUME t < u PROVE FALSE
      OBVIOUS
    <3>1. t * Share + Share <= u * Share /\ t * Share \in Nat /\ u * Share \in Nat
      BY <2>1, Products
    <3> QED BY <2>1, <2>2, <3>1
  <2>4. ~(u < t)
    <3> SUFFICES ASSUME u < t PROVE FALSE
      OBVIOUS
    <3>1. u * Share + Share <= t * Share /\ t * Share \in Nat /\ u * Share \in Nat
      BY <2>1, Products
    <3> QED BY <2>1, <2>2, <3>1
  <2> QED BY <2>1, <2>3, <2>4
<1> QED BY <1>1, <1>2 DEF NegInv, NegTypeOK

\* Every pixel has a thread, but for the columns at the right that block leaves.
LEMMA SomeThread ==
  ASSUME NegInv, NEW row \in Rows, NEW j \in Columns
  PROVE  (\E t \in Threads : Mine(t, row, j))
           <=> ~(mode = "block" /\ j >= width - (width % no_threads))
<1>1. /\ width \in Nat \ {0} /\ no_threads \in Nat \ {0} /\ j \in Nat
  BY NegAssumption DEF NegInv, Columns
<1>2. 0 \in Threads
  BY <1>1 DEF Threads
<1>3. /\ Share \in Nat /\ no_threads * Share = width - (width % no_threads)
  BY <1>2, ColumnsOf
<1>4. CASE mode = "numbers"
  <2>1. input_matrix[row][j] \in Nat
    <3>1. input_matrix \in [Rows -> [Columns -> Values]]
      BY DEF NegInv
    <3>2. input_matrix[row][j] \in Values
      BY <3>1, Zenon
    <3>3. Values \subseteq 0 .. 255
      BY NegAssumption
    <3>4. input_matrix[row][j] \in 0 .. 255
      BY <3>2, <3>3, Zenon
    <3> QED BY <3>4
  <2>2. input_matrix[row][j] % no_threads \in Threads
    BY <1>1, <2>1, Division DEF Threads
  <2> QED BY <1>4, <2>2 DEF Mine
<1>5. CASE mode = "block"
  <2>1. ASSUME NEW t \in Threads, Mine(t, row, j) PROVE j < no_threads * Share
    <3>1. j <= Last(t)
      BY <1>5, <2>1 DEF Mine
    <3>2. Last(t) < no_threads * Share /\ Last(t) \in Int /\ no_threads * Share \in Int
      BY <1>1, <1>3, <1>5, ColumnsOf
    <3> QED BY <1>1, <3>1, <3>2
  <2>2. ASSUME j < no_threads * Share PROVE \E t \in Threads : Mine(t, row, j)
    <3>1. Share # 0
      BY <1>1, <2>2
    <3> DEFINE t == j \div Share
    <3>2. t \in Nat /\ j = Share * t + (j % Share) /\ j % Share \in 0 .. Share - 1
      BY <1>1, <1>3, <3>1, Division
    <3>3. t < no_threads
      <4> SUFFICES ASSUME no_threads <= t PROVE FALSE
        BY <1>1, <3>2
      <4>1. no_threads * Share <= t * Share /\ t * Share \in Nat
        BY <1>1, <1>3, <3>2, Products
      <4>2. Share * t = t * Share
        BY <1>3, <3>2
      <4> HIDE DEF t
      <4> QED BY <1>1, <1>3, <2>2, <3>2, <4>1, <4>2
    <3> HIDE DEF t
    <3>4. t \in Threads
      BY <1>1, <3>2, <3>3 DEF Threads
    <3>5. First(t) = t * Share /\ Last(t) = t * Share + Share - 1
      BY <1>5, <3>4, ColumnsOf
    <3>6. j \in First(t) .. Last(t)
      <4>1. Share * t = t * Share /\ t * Share \in Nat
        BY <1>3, <3>2
      <4> QED BY <1>1, <1>3, <3>2, <3>5, <4>1
    <3> QED BY <1>5, <3>4, <3>6 DEF Mine
  <2>3. j >= width - (width % no_threads) <=> ~(j < no_threads * Share)
    BY <1>1, <1>3
  <2> QED BY <1>5, <2>1, <2>2, <2>3
<1> QED BY <1>4, <1>5 DEF NegInv, NegTypeOK

LEMMA NegInitInv == NegInit => NegInv
<1> SUFFICES ASSUME NegInit PROVE NegInv
  OBVIOUS
<1>1. width \in Nat \ {0} /\ no_threads \in Nat \ {0} /\ height \in Nat
  BY NegAssumption DEF NegInit
<1>2. Share \in Nat
  BY <1>1, Division DEF Share
<1>3. ASSUME NEW t \in Threads PROVE First(t) \in Nat
  <2>1. t \in Nat
    BY <1>1 DEF Threads
  <2>2. t * Share \in Nat /\ t + 1 - 1 = t
    BY <1>2, <2>1, Products
  <2> QED BY <2>2 DEF First, left_range
<1>4. next \in [Threads -> (0 .. height) \X Nat]
  BY <1>1, <1>3 DEF NegInit
<1>5. \A t \in Threads : next[t][1] = 0 /\ next[t][2] = First(t)
  BY DEF NegInit
<1>6. ASSUME NEW t \in Threads, NEW row \in Rows, NEW j \in Columns PROVE ~Wrote(t, row, j)
  <2>1. row \in Nat /\ j \in Nat
    BY DEF Rows, Columns
  <2>2. CASE mode = "numbers"
    BY <1>5, <2>1, <2>2 DEF Wrote, Passed, First
  <2>3. CASE mode = "block"
    BY <1>3, <1>5, <2>1, <2>3 DEF Wrote, Passed, Mine
  <2> QED BY <2>2, <2>3 DEF NegInit
<1>7. written = {w \in Threads \X Rows \X Columns : Wrote(w[1], w[2], w[3])}
  <2>1. \A w \in Threads \X Rows \X Columns : ~Wrote(w[1], w[2], w[3])
    BY <1>6
  <2> QED BY <2>1 DEF NegInit
<1>8. \A row \in Rows, j \in Columns :
        output_matrix[row][j] = IF \E t \in Threads : Wrote(t, row, j)
                              THEN 255 - input_matrix[row][j] ELSE 0
  BY <1>6 DEF NegInit
<1>9. NegTypeOK
  BY <1>1, <1>5 DEF NegInit, NegTypeOK
<1> QED BY <1>4, <1>5, <1>7, <1>8, <1>9 DEF NegInv, NegInit

\* The shares do not change.
LEMMA SharesStay ==
  ASSUME UNCHANGED <<mode, width, no_threads, input_matrix>>
  PROVE  /\ Threads' = Threads /\ Columns' = Columns /\ Rows' = Rows
         /\ \A t : First(t)' = First(t) /\ Last(t)' = Last(t)
         /\ \A t, row, j : Mine(t, row, j)' <=> Mine(t, row, j)
<1>1. Share' = Share
  BY DEF Share
<1>2. \A t : First(t)' = First(t) /\ Last(t)' = Last(t)
  BY <1>1 DEF First, Last, left_range, right_range
<1> QED BY <1>2 DEF Threads, Columns, Rows, Mine

\* Where a thread is looking, and where it goes from there.
LEMMA GoesIt ==
  ASSUME NegInv, NEW t \in Threads, Runs(t), Goes(t),
         UNCHANGED <<mode, width, no_threads, input_matrix>>
  PROVE  /\ next' \in [Threads -> (0 .. height) \X Nat]
         /\ \A u \in Threads : next'[u][2] \in First(u) .. Last(u) \cup {First(u)}
         /\ next[t][1] \in Rows
         /\ \A u \in Threads, row \in Rows, j \in Columns :
              Wrote(u, row, j)' <=>
                \/ Wrote(u, row, j)
                \/ u = t /\ row = next[t][1] /\ j = next[t][2] /\ Mine(t, row, j)
<1> DEFINE x == next[t][1]
           y == next[t][2]
<1>1. /\ next \in [Threads -> (0 .. height) \X Nat] /\ height \in Nat
      /\ \A u \in Threads : next[u][2] \in First(u) .. Last(u) \cup {First(u)}
  BY NegAssumption DEF NegInv
<1>2. x \in Nat /\ y \in Nat /\ x < height /\ next[t] = <<x, y>>
  BY <1>1 DEF Runs
<1>3. /\ \A u \in Threads : First(u) \in Nat /\ Last(u) \in Int
      /\ y \in First(t) .. Last(t) \cup {First(t)}
  BY <1>1, ColumnsOf
<1>4. next' = [next EXCEPT ![t] = IF y < Last(t) THEN <<x, y + 1>> ELSE <<x + 1, First(t)>>]
  BY <1>2 DEF Goes
<1>5. \A u \in Threads \ {t} : next'[u] = next[u]
  BY <1>1, <1>4
<1>6. \/ y < Last(t) /\ next'[t] = <<x, y + 1>>
      \/ ~(y < Last(t)) /\ next'[t] = <<x + 1, First(t)>>
  BY <1>1, <1>4
<1>7. /\ next'[t] \in (0 .. height) \X Nat
      /\ next'[t][2] \in First(t) .. Last(t) \cup {First(t)}
  BY <1>1, <1>2, <1>3, <1>6
<1>8. /\ next' \in [Threads -> (0 .. height) \X Nat]
      /\ \A u \in Threads : next'[u][2] \in First(u) .. Last(u) \cup {First(u)}
  BY <1>1, <1>4, <1>5, <1>7
<1>9. ASSUME NEW u \in Threads, NEW row \in Rows, NEW j \in Columns
      PROVE  Wrote(u, row, j)' <=>
               Wrote(u, row, j) \/ (u = t /\ row = x /\ j = y /\ Mine(t, row, j))
  <2>1. Wrote(u, row, j)' <=> Mine(u, row, j) /\ Passed(u, row, j)'
    BY SharesStay DEF Wrote
  <2>2. CASE u # t
    BY <1>5, <2>1, <2>2 DEF Wrote, Passed
  <2>3. CASE u = t /\ ~Mine(t, row, j)
    BY <2>1, <2>3 DEF Wrote
  <2>4. CASE u = t /\ Mine(t, row, j)
    <3>1. row \in Nat /\ j \in Nat
      BY <1>1 DEF Rows, Columns, NegInv
    <3>2. j \in First(t) .. Last(t)
      <4>1. CASE mode = "numbers"
        <5>1. First(t) = 0 /\ Last(t) = width - 1
          BY <4>1 DEF First, Last
        <5> QED BY <5>1 DEF Columns
      <4>2. CASE mode = "block"
        BY <2>4, <4>2 DEF Mine
      <4> QED BY <4>1, <4>2 DEF NegInv, NegTypeOK
    <3> HIDE DEF x, y
    <3>3. Passed(t, row, j) <=> row < x \/ (row = x /\ j < y)
      BY <1>2 DEF Passed, x, y
    <3>4. CASE y < Last(t)
      <4>1. Passed(t, row, j)' <=> row < x \/ (row = x /\ j < y + 1)
        BY <1>6, <3>4 DEF Passed
      <4>2. Passed(t, row, j)' <=> Passed(t, row, j) \/ (row = x /\ j = y)
        BY <1>2, <3>1, <3>3, <4>1
      <4> QED BY <2>1, <2>4, <4>2 DEF Wrote
    <3>5. CASE ~(y < Last(t))
      <4>1. y = Last(t)
        BY <1>2, <1>3, <3>1, <3>2, <3>5
      <4>2. Passed(t, row, j)' <=> row < x + 1 \/ (row = x + 1 /\ j < First(t))
        BY <1>6, <3>5 DEF Passed
      <4>3. Passed(t, row, j)' <=> Passed(t, row, j) \/ (row = x /\ j = y)
        BY <1>2, <1>3, <3>1, <3>2, <3>3, <4>1, <4>2
      <4> QED BY <2>1, <2>4, <4>3 DEF Wrote
    <3> QED BY <3>4, <3>5
  <2> QED BY <2>2, <2>3, <2>4
<1>10. x \in Rows
  BY <1>1, <1>2 DEF Rows
<1> QED BY <1>8, <1>9, <1>10

\* One pixel of one thread.
LEMMA PixelInv ==
  ASSUME NegInv, NEW t \in Threads, Runs(t), Goes(t),
         UNCHANGED <<mode, width, no_threads, input_matrix>>,
         \/ next[t][2] \in Columns /\ Mine(t, next[t][1], next[t][2]) /\ Inverts(t)
         \/ (\A j \in Columns : j = next[t][2] => ~Mine(t, next[t][1], j)) /\ Keeps
  PROVE  NegInv'
<1> DEFINE x == next[t][1]
           y == next[t][2]
<1>1. /\ next' \in [Threads -> (0 .. height) \X Nat]
      /\ \A u \in Threads : next'[u][2] \in First(u) .. Last(u) \cup {First(u)}
      /\ x \in Rows
      /\ \A u \in Threads, row \in Rows, j \in Columns :
           Wrote(u, row, j)' <=> Wrote(u, row, j) \/ (u = t /\ row = x /\ j = y /\ Mine(t, row, j))
  BY GoesIt
<1>2. /\ Threads' = Threads /\ Columns' = Columns /\ Rows' = Rows
      /\ \A u : First(u)' = First(u) /\ Last(u)' = Last(u)
      /\ \A u, row, j : Mine(u, row, j)' <=> Mine(u, row, j)
  BY SharesStay
<1>3. /\ written = {w \in Threads \X Rows \X Columns : Wrote(w[1], w[2], w[3])}
      /\ output_matrix \in [Rows -> [Columns -> 0 .. 255]]
      /\ \A row \in Rows, j \in Columns :
           output_matrix[row][j] = IF \E u \in Threads : Wrote(u, row, j)
                                 THEN 255 - input_matrix[row][j] ELSE 0
      /\ input_matrix \in [Rows -> [Columns -> Values]]
  BY DEF NegInv, NegTypeOK
<1> HIDE DEF x, y
<1>4. CASE y \in Columns /\ Mine(t, x, y) /\ Inverts(t)
  <2>1. /\ written' = written \cup {<<t, x, y>>}
        /\ output_matrix' = [output_matrix EXCEPT ![x][y] = 255 - input_matrix[x][y]]
    BY <1>4 DEF Inverts, x, y
  <2>2. \A u \in Threads, row \in Rows, j \in Columns :
          Wrote(u, row, j)' <=> Wrote(u, row, j) \/ (u = t /\ row = x /\ j = y)
    BY <1>1, <1>4
  <2>3. written' = {w \in Threads \X Rows \X Columns : Wrote(w[1], w[2], w[3])'}
    BY <1>1, <1>3, <1>4, <2>1, <2>2
  <2>4. 255 - input_matrix[x][y] \in 0 .. 255
    <3>1. input_matrix[x][y] \in Values /\ Values \subseteq 0 .. 255
      <4>1. input_matrix[x] \in [Columns -> Values]
        BY <1>1, <1>3
      <4> QED BY <1>4, <4>1, NegAssumption
    <3>2. input_matrix[x][y] \in 0 .. 255
      BY <3>1, Zenon
    <3> QED BY <3>2
  <2>5. output_matrix' \in [Rows -> [Columns -> 0 .. 255]]
    BY <1>1, <1>3, <1>4, <2>1, <2>4
  <2>6. ASSUME NEW row \in Rows, NEW j \in Columns
        PROVE  output_matrix'[row][j] = IF \E u \in Threads : Wrote(u, row, j)'
                                      THEN 255 - input_matrix[row][j] ELSE 0
    <3>1. CASE row = x /\ j = y
      BY <1>3, <2>1, <2>2, <3>1
    <3>2. CASE ~(row = x /\ j = y)
      <4>1. output_matrix'[row][j] = output_matrix[row][j]
        BY <1>1, <1>3, <1>4, <2>1, <3>2
      <4> QED BY <1>3, <2>2, <3>2, <4>1
    <3> QED BY <3>1, <3>2
  <2> QED BY <1>1, <1>2, <2>3, <2>5, <2>6 DEF NegInv, NegTypeOK
<1>5. CASE (\A j \in Columns : j = y => ~Mine(t, x, j)) /\ Keeps
  <2>1. UNCHANGED <<written, output_matrix>>
    BY <1>5 DEF Keeps
  <2>2. \A u \in Threads, row \in Rows, j \in Columns : Wrote(u, row, j)' <=> Wrote(u, row, j)
    BY <1>1, <1>5
  <2>3. written' = {w \in Threads \X Rows \X Columns : Wrote(w[1], w[2], w[3])'}
    BY <1>3, <2>1, <2>2
  <2>4. \A row \in Rows, j \in Columns :
          output_matrix'[row][j] = IF \E u \in Threads : Wrote(u, row, j)'
                                 THEN 255 - input_matrix[row][j] ELSE 0
    BY <1>3, <2>1, <2>2
  <2> QED BY <1>1, <1>2, <1>3, <2>1, <2>3, <2>4 DEF NegInv, NegTypeOK
<1> QED BY <1>4, <1>5 DEF x, y

LEMMA NegStep == NegInv /\ [NegNext]_negVars => NegInv'
<1> SUFFICES ASSUME NegInv, [NegNext]_negVars PROVE NegInv'
  OBVIOUS
<1>1. ASSUME NEW t \in Threads, numbers_mode(t) PROVE NegInv'
  <2>1. next[t][2] \in First(t) .. Last(t) \cup {First(t)}
    BY DEF NegInv
  <2>2. First(t) = 0 /\ Last(t) = width - 1 /\ width \in Nat \ {0}
    BY <1>1, NegAssumption DEF numbers_mode, First, Last, NegInv
  <2>3. next[t][2] \in Columns
    BY <2>1, <2>2 DEF Columns
  <2> QED BY <1>1, <2>3, PixelInv DEF numbers_mode, Mine
<1>2. ASSUME NEW t \in Threads, block_mode(t) PROVE NegInv'
  <2>1. next[t][2] \in First(t) .. Last(t) \cup {First(t)}
    BY DEF NegInv
  <2>2. First(t) \in Nat /\ Last(t) \in Int /\ Last(t) < width /\ width \in Nat
    BY ColumnsOf
  <2>3. CASE First(t) <= Last(t)
    <3>1. next[t][2] \in First(t) .. Last(t) /\ next[t][2] \in Columns
      BY <2>1, <2>2, <2>3 DEF Columns
    <3> QED BY <1>2, <2>3, <3>1, PixelInv DEF block_mode, Mine
  <2>4. CASE ~(First(t) <= Last(t))
    <3>1. First(t) .. Last(t) = {}
      BY <2>2, <2>4
    <3> QED BY <1>2, <2>4, <3>1, PixelInv DEF block_mode, Mine
  <2> QED BY <2>3, <2>4
<1>3. CASE UNCHANGED negVars
  <2>1. /\ Threads' = Threads /\ Columns' = Columns /\ Rows' = Rows
        /\ \A u : First(u)' = First(u) /\ Last(u)' = Last(u)
        /\ \A u, row, j : Mine(u, row, j)' <=> Mine(u, row, j)
    BY <1>3, SharesStay DEF negVars
  <2>2. \A u, row, j : Wrote(u, row, j)' <=> Wrote(u, row, j)
    BY <1>3, <2>1 DEF negVars, Wrote, Passed
  <2> QED BY <1>3, <2>1, <2>2 DEF NegInv, NegTypeOK, negVars
<1> QED BY <1>1, <1>2, <1>3 DEF NegNext

LEMMA NegInductive == NegSpec => []NegInv
BY NegInitInv, NegStep, PTL DEF NegSpec

LEMMA OnceFromInv == NegInv => EachPixelOnce
<1> SUFFICES ASSUME NegInv PROVE EachPixelOnce
  OBVIOUS
<1>1. written = {w \in Threads \X Rows \X Columns : Wrote(w[1], w[2], w[3])}
  BY DEF NegInv
<1>2. \A w \in written : w[3] \in Columns
  BY <1>1
<1>3. ASSUME NEW v \in written, NEW w \in written, v[2] = w[2], v[3] = w[3] PROVE v = w
  <2>1. /\ v \in Threads \X Rows \X Columns /\ w \in Threads \X Rows \X Columns
        /\ Mine(v[1], v[2], v[3]) /\ Mine(w[1], w[2], w[3])
    BY <1>1 DEF Wrote
  <2>2. v[1] = w[1]
    BY <1>3, <2>1, OneThread
  <2> QED BY <1>3, <2>1, <2>2
<1>4. ASSUME NEW row \in Rows, NEW j \in Columns
      PROVE  /\ (\E t \in Threads : Wrote(t, row, j))
                  <=> \E w \in written : w[2] = row /\ w[3] = j
             /\ output_matrix[row][j] = IF \E w \in written : w[2] = row /\ w[3] = j
                                       THEN 255 - input_matrix[row][j] ELSE 0
  <2>1. ASSUME NEW t \in Threads, Wrote(t, row, j)
        PROVE  \E w \in written : w[2] = row /\ w[3] = j
    <3>1. <<t, row, j>> \in written
      BY <1>1, <2>1
    <3> QED BY <3>1
  <2>2. ASSUME NEW w \in written, w[2] = row, w[3] = j PROVE \E t \in Threads : Wrote(t, row, j)
    BY <1>1, <2>2
  <2>3. output_matrix[row][j] = IF \E t \in Threads : Wrote(t, row, j)
                              THEN 255 - input_matrix[row][j] ELSE 0
    BY DEF NegInv
  <2> QED BY <2>1, <2>2, <2>3
<1>5. ASSUME \A t \in Threads : ~Runs(t), mode = "numbers" \/ width % no_threads = 0,
             NEW row \in Rows, NEW j \in Columns
      PROVE  \E w \in written : w[2] = row /\ w[3] = j
  <2>1. \A t \in Threads : Passed(t, row, j)
    <3> TAKE t \in Threads
    <3>1. next[t][1] \in 0 .. height /\ ~(next[t][1] < height) /\ height \in Nat
      BY <1>5, NegAssumption DEF Runs, NegInv, NegTypeOK
    <3> QED BY <3>1 DEF Passed, Rows
  <2>2. ~(mode = "block" /\ j >= width - (width % no_threads))
    BY <1>5 DEF Columns, NegInv
  <2>3. \E t \in Threads : Mine(t, row, j)
    BY <2>2, SomeThread
  <2> QED BY <1>4, <2>1, <2>3 DEF Wrote
<1> QED BY <1>2, <1>3, <1>4, <1>5 DEF EachPixelOnce

\* The threads never leave the image, whose pixels stay from 0 to 255 (cw08/zad1/main.c).
THEOREM NegTypeCorrect == NegSpec => []NegTypeOK
BY NegInductive, PTL DEF NegInv

\* For any image and any number of threads, in both modes: no pixel is written twice or
\* outside of the image, what is written is the negative, and in numbers mode, or when the
\* columns can be shared out evenly, every pixel is inverted (cw08/zad1/main.c 76-118).
THEOREM PixelsOnce == NegSpec => []EachPixelOnce
BY NegInductive, OnceFromInv, PTL

----------------------------------------------------------------------------
(* The pipelines of commands *)

\* No two ends of a line's pipes are the same, and none is anything else.
LEMMA EndFacts ==
  ASSUME NEW k \in Int, NEW l \in Int
  PROVE  /\ In(k) = In(l) => k = l
         /\ Out(k) = Out(l) => k = l
         /\ In(k) # Out(l)
         /\ In(k) \notin {<<"tty">>, <<"commands">>, Closed}
         /\ Out(k) \notin {<<"tty">>, <<"commands">>, Closed}
<1>1. /\ In(k)[1] = "write" /\ In(k)[3] = k /\ In(l)[3] = l
      /\ Out(l)[1] = "read" /\ Out(l)[3] = l /\ Out(k)[3] = k /\ Out(k)[1] = "read"
      /\ Closed[1] = "closed" /\ <<"tty">>[1] = "tty" /\ <<"commands">>[1] = "commands"
  BY DEF In, Out, Closed
<1> QED BY <1>1

\* The names of ends depend on the line only.
LEMMA SameLine ==
  ASSUME UNCHANGED lines
  PROVE  /\ \A k : In(k)' = In(k) /\ Out(k)' = Out(k)
         /\ OpenOn' = OpenOn
BY DEF In, Out, OpenOn

\* What PipeInv says of the numbers.
LEMMA PipeNumbers ==
  ASSUME PipeInv
  PROVE  /\ i \in Nat /\ no_separated_commands \in Nat \ {0} /\ i <= no_separated_commands
         /\ no_separated_commands <= MaxSeparated /\ MaxSeparated \in Nat
         /\ lines \in Nat \ {0} /\ lines <= MaxLines /\ MaxLines \in Nat
         /\ at # "pipe" => i < no_separated_commands
         /\ {0, 1} \subseteq Descriptors
         /\ Closed \in OpenOn
         /\ More => In(i) \in OpenOn /\ Out(i) \in OpenOn
<1>1. /\ i \in Nat /\ no_separated_commands \in Nat \ {0} /\ i <= no_separated_commands
      /\ no_separated_commands <= MaxSeparated /\ MaxSeparated \in Nat
      /\ lines \in Nat \ {0} /\ lines <= MaxLines /\ MaxLines \in Nat
      /\ at # "pipe" => i < no_separated_commands
  BY PipelineAssumption DEF PipeInv, More
<1>2. {0, 1} \subseteq Descriptors
  BY PipelineAssumption DEF Descriptors
<1>3. More => In(i) \in OpenOn /\ Out(i) \in OpenOn
  BY <1>1 DEF More, In, Out, OpenOn
<1> QED BY <1>1, <1>2, <1>3 DEF OpenOn

LEMMA PipeInitInv == PipeInit => PipeInv
<1> SUFFICES ASSUME PipeInit PROVE PipeInv
  OBVIOUS
<1>1. /\ i = 0 /\ at = "pipe" /\ child = <<>> /\ lines = 1 /\ prev = garbage
      /\ fd1 = <<-1, -1>> /\ garbage \in Int \X Int
      /\ no_separated_commands \in 1 .. MaxSeparated
  BY PipelineAssumption DEF PipeInit, Garbage
<1>2. \A d \in Descriptors : files[d] \in {<<"tty">>, <<"commands">>, Closed}
  BY DEF PipeInit
<1>3. files \in [Descriptors -> OpenOn]
  BY <1>2 DEF PipeInit, OpenOn
<1>4. ParentHolds
  BY <1>2, EndFacts DEF ParentHolds
<1>5. ArraysHold
  BY <1>1 DEF ArraysHold
<1>6. Readable
  BY <1>1 DEF Readable
<1>7. /\ lines \in 1 .. MaxLines /\ i \in 0 .. no_separated_commands
      /\ child \in Seq([Descriptors -> OpenOn]) /\ Len(child) = 0 /\ Started = {}
  BY <1>1, PipelineAssumption DEF Started
<1> QED BY <1>1, <1>3, <1>4, <1>5, <1>6, <1>7 DEF PipeInv

\* The commands that have been started keep what they have.
LEMMA ChildrenStay ==
  ASSUME PipeInv, UNCHANGED <<lines, garbage>>, NEW k \in Started, NEW c,
         c = child[k + 1]
  PROVE  ChildHolds(k, c)'
<1>1. ChildHolds(k, c)
  BY DEF PipeInv
<1>2. (\A l : In(l)' = In(l) /\ Out(l)' = Out(l)) /\ OpenOn' = OpenOn /\ (Spared' <=> Spared)
  BY SameLine DEF Spared
<1> QED BY <1>1, <1>2 DEF ChildHolds

\* The two ends of the new pipe are under numbers that were free.
LEMMA PipeKeeps == PipeInv /\ Pipe => PipeInv'
<1> SUFFICES ASSUME PipeInv, Pipe PROVE PipeInv'
  OBVIOUS
<1>1. PICK r \in Free(files), w \in Free(files) :
        /\ r < w /\ fd1' = <<r, w>>
        /\ files' = [files EXCEPT ![r] = Out(i), ![w] = In(i)]
  BY DEF Pipe
<1>2. /\ at = "pipe" /\ More /\ at' = "fork"
      /\ UNCHANGED <<no_separated_commands, i, prev, child, lines, garbage>>
  BY DEF Pipe
<1>3. /\ r \in Descriptors /\ w \in Descriptors /\ r # w
      /\ files[r] = Closed /\ files[w] = Closed
  BY <1>1 DEF Free, Descriptors
<1>4. /\ \A k : In(k)' = In(k) /\ Out(k)' = Out(k)
      /\ OpenOn' = OpenOn /\ (Spared' <=> Spared) /\ (More' <=> More) /\ Started' = Started
  BY <1>2, SameLine DEF Spared, More, Started
<1>5. /\ files \in [Descriptors -> OpenOn] /\ i \in Int
      /\ In(i) \in OpenOn /\ Out(i) \in OpenOn
  BY <1>2, PipeNumbers DEF PipeInv
<1>6. /\ files' \in [Descriptors -> OpenOn]
      /\ files'[r] = Out(i) /\ files'[w] = In(i)
      /\ \A d \in Descriptors \ {r, w} : files'[d] = files[d]
  BY <1>1, <1>3, <1>5
<1>7. ParentHolds'
  <2> SUFFICES ASSUME NEW d \in Descriptors, NEW k \in Int
               PROVE  /\ files'[d] = In(k)  => k = i /\ d = w
                      /\ files'[d] = Out(k) => (k = i /\ d = r) \/ (k = i - 1 /\ d = prev[1])
    BY <1>1, <1>2, <1>4 DEF ParentHolds, InPlace, OutPlace
  <2>1. /\ files[d] = In(k) => FALSE
        /\ files[d] = Out(k) => k = i - 1 /\ d = prev[1]
    BY <1>2 DEF PipeInv, ParentHolds, InPlace, OutPlace
  <2>2. CASE d \in {r, w}
    BY <1>5, <1>6, <2>2, EndFacts
  <2>3. CASE d \notin {r, w}
    BY <1>6, <2>1, <2>3
  <2> QED BY <2>2, <2>3
<1>8. ArraysHold'
  <2>1. ArraysHold
    BY DEF PipeInv
  <2>2. fd1' \in Descriptors \X Descriptors /\ fd1'[1] # fd1'[2] /\ fd1' \in Int \X Int
    BY <1>1, <1>3 DEF Descriptors
  <2> QED BY <1>2, <2>1, <2>2 DEF ArraysHold, Descriptors
<1>9. Spared => Readable'
  <2> SUFFICES ASSUME Spared PROVE Readable'
    OBVIOUS
  <2>1. ASSUME i > 0 PROVE files'[prev[1]] = Out(i - 1)
    <3>1. files[prev[1]] = Out(i - 1) /\ prev[1] \in Descriptors
      BY <1>2, <2>1 DEF PipeInv, Readable, ArraysHold
    <3>2. Out(i - 1) # Closed
      BY <1>5, EndFacts
    <3> QED BY <1>3, <1>6, <3>1, <3>2
  <2>2. files'[fd1'[1]] = Out(i)
    BY <1>1, <1>6
  <2> QED BY <1>2, <1>4, <2>1, <2>2 DEF Readable
<1>10. \A k \in Started' : ChildHolds(k, child[k + 1])'
  BY <1>2, <1>4, ChildrenStay
<1> QED
  BY <1>2, <1>4, <1>6, <1>7, <1>8, <1>9, <1>10 DEF PipeInv

\* close and dup2 leave open nothing that was not.
LEMMA CloseIs ==
  ASSUME NEW f \in [Descriptors -> OpenOn], NEW d
  PROVE  /\ close(f, d) \in [Descriptors -> OpenOn]
         /\ \A e \in Descriptors : close(f, d)[e] = IF e = d THEN Closed ELSE f[e]
BY DEF close, OpenOn

LEMMA Dup2Is ==
  ASSUME NEW f \in [Descriptors -> OpenOn], NEW from \in Descriptors, NEW to \in Descriptors
  PROVE  /\ dup2(f, from, to) \in [Descriptors -> OpenOn]
         /\ \A e \in Descriptors : dup2(f, from, to)[e] =
              IF e = to /\ f[from] # Closed THEN f[from] ELSE f[e]
BY DEF dup2

\* What a command finds open when it is executed.
LEMMA ChildIs == PipeInv /\ at = "fork" => ChildHolds(i, Child)
<1> SUFFICES ASSUME PipeInv, at = "fork" PROVE ChildHolds(i, Child)
  OBVIOUS
<1> DEFINE a == close(close(files, fd1[1]), prev[2])
           b == IF i > 0 THEN dup2(a, prev[1], 0) ELSE a
           c == IF i < no_separated_commands - 1 THEN dup2(b, fd1[2], 1) ELSE b
<1>1. /\ files \in [Descriptors -> OpenOn] /\ i \in Nat /\ {0, 1} \subseteq Descriptors
      /\ fd1 \in Descriptors \X Descriptors /\ fd1[1] # fd1[2]
      /\ i > 0 => prev \in Descriptors \X Descriptors /\ prev[1] # prev[2]
  BY PipeNumbers DEF PipeInv, ArraysHold
<1>2. /\ a \in [Descriptors -> OpenOn]
      /\ \A d \in Descriptors :
           a[d] = IF d = fd1[1] \/ d = prev[2] THEN Closed ELSE files[d]
  <2>1. /\ close(files, fd1[1]) \in [Descriptors -> OpenOn]
        /\ \A d \in Descriptors :
             close(files, fd1[1])[d] = IF d = fd1[1] THEN Closed ELSE files[d]
    BY <1>1, CloseIs
  <2> DEFINE f == close(files, fd1[1])
  <2> HIDE DEF f
  <2>2. /\ close(f, prev[2]) \in [Descriptors -> OpenOn]
        /\ \A d \in Descriptors : close(f, prev[2])[d] = IF d = prev[2] THEN Closed ELSE f[d]
    BY <2>1, CloseIs DEF f
  <2> QED BY <2>1, <2>2 DEF f
<1> HIDE DEF a
<1>3. \A d \in Descriptors, l \in Int : (a[d] = In(l) => l = i) /\ (a[d] = Out(l) => l = i - 1)
  <2> SUFFICES ASSUME NEW d \in Descriptors, NEW l \in Int
               PROVE  (a[d] = In(l) => l = i) /\ (a[d] = Out(l) => l = i - 1)
    OBVIOUS
  <2>1. CASE d = fd1[1] \/ d = prev[2]
    BY <1>2, <2>1, EndFacts
  <2>2. CASE ~(d = fd1[1] \/ d = prev[2])
    <3>1. a[d] = files[d]
      BY <1>2, <2>2
    <3>2. /\ files[d] = In(l) => l = i
          /\ files[d] = Out(l) => (l = i /\ d = fd1[1]) \/ l = i - 1
      BY DEF PipeInv, ParentHolds, InPlace, OutPlace
    <3> QED BY <2>2, <3>1, <3>2
  <2> QED BY <2>1, <2>2
<1>4. /\ b \in [Descriptors -> OpenOn]
      /\ \A d \in Descriptors : \E e \in Descriptors : b[d] = a[e]
  <2>1. CASE i > 0
    <3>1. /\ dup2(a, prev[1], 0) \in [Descriptors -> OpenOn]
          /\ \A e \in Descriptors : dup2(a, prev[1], 0)[e] =
               IF e = 0 /\ a[prev[1]] # Closed THEN a[prev[1]] ELSE a[e]
      BY <1>1, <1>2, <2>1, Dup2Is
    <3> QED BY <1>1, <2>1, <3>1
  <2>2. CASE ~(i > 0)
    BY <1>2, <2>2
  <2> QED BY <2>1, <2>2
<1>5. Spared /\ i > 0 => b[0] = Out(i - 1)
  <2> SUFFICES ASSUME Spared, i > 0 PROVE b[0] = Out(i - 1)
    OBVIOUS
  <2>1. files[prev[1]] = Out(i - 1) /\ files[fd1[1]] = Out(i) /\ prev[1] \in Descriptors
    BY <1>1 DEF PipeInv, Readable
  <2>2. prev[1] # fd1[1] /\ Out(i - 1) # Closed
    BY <1>1, <2>1, EndFacts
  <2>3. a[prev[1]] = Out(i - 1)
    BY <1>1, <1>2, <2>1, <2>2
  <2>4. dup2(a, prev[1], 0)[0] = a[prev[1]]
    BY <1>1, <1>2, <2>1, <2>2, <2>3, Dup2Is
  <2> QED BY <2>3, <2>4
<1> HIDE DEF b
<1>6. /\ c \in [Descriptors -> OpenOn] /\ c[0] = b[0]
      /\ \A d \in Descriptors : \E e \in Descriptors : c[d] = b[e]
  <2>1. CASE i < no_separated_commands - 1
    <3>1. /\ dup2(b, fd1[2], 1) \in [Descriptors -> OpenOn]
          /\ \A e \in Descriptors : dup2(b, fd1[2], 1)[e] =
               IF e = 1 /\ b[fd1[2]] # Closed THEN b[fd1[2]] ELSE b[e]
      <4>1. fd1[2] \in Descriptors /\ 1 \in Descriptors /\ b \in [Descriptors -> OpenOn]
        BY <1>1, <1>4
      <4> QED BY ONLY <4>1, Dup2Is
    <3> QED BY <1>1, <2>1, <3>1
  <2>2. CASE ~(i < no_separated_commands - 1)
    BY <1>4, <2>2
  <2> QED BY <2>1, <2>2
<1> HIDE DEF c
<1>7. \A d \in Descriptors, l \in Int : (c[d] = In(l) => l = i) /\ (c[d] = Out(l) => l = i - 1)
  BY <1>3, <1>4, <1>6
<1>8. Child = c
  BY DEF Child, a, b, c
<1> QED BY <1>5, <1>6, <1>7, <1>8 DEF ChildHolds

LEMMA ForkKeeps == PipeInv /\ Fork => PipeInv'
<1> SUFFICES ASSUME PipeInv, Fork PROVE PipeInv'
  OBVIOUS
<1>1. /\ at = "fork" /\ at' = "close" /\ child' = Append(child, Child)
      /\ UNCHANGED <<no_separated_commands, i, files, fd1, prev, lines, garbage>>
  BY DEF Fork
<1>2. /\ (\A k : In(k)' = In(k) /\ Out(k)' = Out(k)) /\ OpenOn' = OpenOn
      /\ (Spared' <=> Spared) /\ (More' <=> More)
  BY <1>1, SameLine DEF Spared, More
<1>3. ChildHolds(i, Child) /\ Child \in [Descriptors -> OpenOn]
  BY <1>1, ChildIs DEF ChildHolds
<1>4. /\ child \in Seq([Descriptors -> OpenOn]) /\ Len(child) = i /\ i \in Nat
  BY <1>1, PipeNumbers DEF PipeInv
<1>5. /\ child' \in Seq([Descriptors -> OpenOn]) /\ Len(child') = i + 1
      /\ \A k \in 0 .. i - 1 : child'[k + 1] = child[k + 1]
      /\ child'[i + 1] = Child /\ Started' = 0 .. i /\ Started = 0 .. i - 1
  BY <1>1, <1>3, <1>4 DEF Started
<1>6. ASSUME NEW k \in Started' PROVE ChildHolds(k, child[k + 1])'
  <2>1. CASE k \in Started
    <3>1. child'[k + 1] = child[k + 1] /\ ChildHolds(k, child[k + 1])
      BY <1>5, <2>1 DEF PipeInv
    <3> QED BY <1>2, <3>1 DEF ChildHolds
  <2>2. CASE k = i
    BY <1>2, <1>3, <1>5, <2>2 DEF ChildHolds
  <2> QED BY <1>4, <1>5, <2>1, <2>2
<1>7. ParentHolds' /\ ArraysHold' /\ (Spared => Readable')
  <2>1. ParentHolds /\ ArraysHold /\ (Spared => Readable)
    BY <1>1 DEF PipeInv
  <2> QED
    BY <1>1, <1>2, <2>1 DEF ParentHolds, ArraysHold, Readable, InPlace, OutPlace, Descriptors
<1> QED
  BY <1>1, <1>2, <1>5, <1>6, <1>7 DEF PipeInv

\* The turn ends with the end that the next one reads from, and no other of the line.
LEMMA CloseEndsKeeps == PipeInv /\ CloseEnds => PipeInv'
<1> SUFFICES ASSUME PipeInv, CloseEnds PROVE PipeInv'
  OBVIOUS
<1>1. /\ at = "close" /\ at' = "pipe" /\ i' = i + 1 /\ prev' = fd1
      /\ files' = close(close(files, fd1[2]), prev[1])
      /\ UNCHANGED <<no_separated_commands, fd1, child, lines, garbage>>
  BY DEF CloseEnds
<1>2. /\ (\A k : In(k)' = In(k) /\ Out(k)' = Out(k)) /\ OpenOn' = OpenOn
      /\ (Spared' <=> Spared) /\ Started' = Started
  BY <1>1, SameLine DEF Spared, Started
<1>3. /\ files \in [Descriptors -> OpenOn] /\ i \in Nat /\ i < no_separated_commands
      /\ no_separated_commands \in Nat
      /\ fd1 \in Descriptors \X Descriptors /\ fd1[1] # fd1[2]
      /\ i > 0 => prev \in Descriptors \X Descriptors /\ prev[1] # prev[2]
      /\ fd1 \in Int \X Int /\ prev \in Int \X Int /\ garbage \in Int \X Int
      /\ i = 0 => prev = garbage
  BY <1>1, PipeNumbers DEF PipeInv, ArraysHold
<1>4. /\ files' \in [Descriptors -> OpenOn]
      /\ \A d \in Descriptors :
           files'[d] = IF d = fd1[2] \/ d = prev[1] THEN Closed ELSE files[d]
  <2>1. /\ close(files, fd1[2]) \in [Descriptors -> OpenOn]
        /\ \A d \in Descriptors :
             close(files, fd1[2])[d] = IF d = fd1[2] THEN Closed ELSE files[d]
    BY <1>3, CloseIs
  <2> DEFINE f == close(files, fd1[2])
  <2> HIDE DEF f
  <2>2. /\ close(f, prev[1]) \in [Descriptors -> OpenOn]
        /\ \A d \in Descriptors : close(f, prev[1])[d] = IF d = prev[1] THEN Closed ELSE f[d]
    BY <2>1, CloseIs DEF f
  <2> QED BY <1>1, <2>1, <2>2 DEF f
<1>5. ParentHolds'
  <2> SUFFICES ASSUME NEW d \in Descriptors, NEW k \in Int
               PROVE  /\ files'[d] = In(k)  => FALSE
                      /\ files'[d] = Out(k) => k = i /\ d = fd1[1]
    <3>1. \A d \in Descriptors, k \in Int :
            (InPlace(d, k)' <=> FALSE) /\ (OutPlace(d, k)' <=> k = i /\ d = fd1[1])
      BY <1>1, <1>3 DEF InPlace, OutPlace
    <3>2. Descriptors' = Descriptors
      BY DEF Descriptors
    <3> QED BY <1>2, <3>1, <3>2 DEF ParentHolds
  <2>1. CASE d = fd1[2] \/ d = prev[1]
    BY <1>4, <2>1, EndFacts
  <2>2. CASE ~(d = fd1[2] \/ d = prev[1])
    <3>1. files'[d] = files[d]
      BY <1>4, <2>2
    <3>2. /\ files[d] = In(k) => d = fd1[2]
          /\ files[d] = Out(k) => (k = i /\ d = fd1[1]) \/ d = prev[1]
      BY DEF PipeInv, ParentHolds, InPlace, OutPlace
    <3> QED BY <1>3, <2>2, <3>1, <3>2
  <2> QED BY <2>1, <2>2
<1>6. ArraysHold'
  BY <1>1, <1>3 DEF ArraysHold, Descriptors
<1>7. Spared => Readable'
  <2> SUFFICES ASSUME Spared PROVE files'[fd1[1]] = Out(i)
    BY <1>1, <1>3 DEF Readable, Out
  <2>1. files[fd1[1]] = Out(i) /\ (i > 0 => files[prev[1]] = Out(i - 1))
    BY <1>1 DEF PipeInv, Readable
  <2>2. prev[1] # fd1[1]
    <3>1. CASE i > 0
      BY <1>3, <2>1, <3>1, EndFacts
    <3>2. CASE i = 0
      BY <1>3, <3>2 DEF Spared
    <3> QED BY <1>3, <3>1, <3>2
  <2> QED BY <1>3, <1>4, <2>1, <2>2
<1>8. \A k \in Started' : ChildHolds(k, child[k + 1])'
  BY <1>1, <1>2, ChildrenStay
<1>9. i' \in 0 .. no_separated_commands' /\ Len(child') = i'
  BY <1>1, <1>3 DEF PipeInv
<1> QED
  BY <1>1, <1>2, <1>4, <1>5, <1>6, <1>7, <1>8, <1>9 DEF PipeInv

\* What earlier lines have left open is no end of a later line.
LEMMA WaitKeeps == PipeInv /\ Wait => PipeInv'
<1> SUFFICES ASSUME PipeInv, Wait PROVE PipeInv'
  OBVIOUS
<1>1. /\ at = "pipe" /\ at' = "pipe" /\ lines < MaxLines /\ lines' = lines + 1
      /\ no_separated_commands' \in 1 .. MaxSeparated
      /\ i' = 0 /\ child' = <<>> /\ files' = files /\ fd1' = fd1
      /\ prev' = garbage' /\ garbage' \in Int \X Int
  BY PipelineAssumption DEF Wait, Garbage
<1>2. lines \in Nat /\ lines >= 1 /\ MaxLines \in Nat
  BY PipeNumbers
<1>3. files \in [Descriptors -> OpenOn] /\ OpenOn \subseteq OpenOn'
  BY <1>1, <1>2 DEF PipeInv, OpenOn
<1>4. ASSUME NEW d \in Descriptors, NEW k \in Int PROVE files[d] # In(k)' /\ files[d] # Out(k)'
  <2>1. /\ In(k)' = <<"write", lines + 1, k>> /\ Out(k)' = <<"read", lines + 1, k>>
    BY <1>1 DEF In, Out
  <2>2. ASSUME NEW v \in OpenOn PROVE v # <<"write", lines + 1, k>> /\ v # <<"read", lines + 1, k>>
    <3>1. \/ v \in {<<"tty">>, <<"commands">>, Closed}
          \/ v[2] \in 1 .. lines
      BY DEF OpenOn
    <3> QED BY <1>2, <3>1 DEF Closed
  <2> QED BY <1>3, <2>1, <2>2
<1>5. ParentHolds'
  BY <1>1, <1>4 DEF ParentHolds, Descriptors
<1>6. ArraysHold' /\ Readable'
  BY <1>1 DEF ArraysHold, Readable, PipeInv
<1>7. /\ files' \in [Descriptors -> OpenOn'] /\ child' \in Seq([Descriptors -> OpenOn'])
      /\ Len(child') = 0 /\ Started' = {}
  BY <1>1, <1>3 DEF Started
<1>8. lines' \in 1 .. MaxLines /\ i' \in 0 .. no_separated_commands'
  BY <1>1, <1>2, PipelineAssumption
<1> QED
  BY <1>1, <1>5, <1>6, <1>7, <1>8 DEF PipeInv, Descriptors

LEMMA ExitsKeeps == PipeInv /\ Exits => PipeInv'
<1> SUFFICES ASSUME PipeInv, Exits PROVE PipeInv'
  OBVIOUS
<1>1. /\ at \in {"pipe", "fork"} /\ More /\ at' = "exited"
      /\ files' = [d \in Descriptors |-> Closed]
      /\ UNCHANGED <<no_separated_commands, i, fd1, prev, child, lines, garbage>>
  BY DEF Exits, PipeInv
<1>2. /\ (\A k : In(k)' = In(k) /\ Out(k)' = Out(k)) /\ OpenOn' = OpenOn
      /\ (Spared' <=> Spared) /\ (More' <=> More) /\ Started' = Started
  BY <1>1, SameLine DEF Spared, More, Started
<1>3. files' \in [Descriptors -> OpenOn] /\ \A d \in Descriptors : files'[d] = Closed
  BY <1>1, PipeNumbers
<1>4. ParentHolds'
  BY <1>2, <1>3, EndFacts DEF ParentHolds
<1>5. ArraysHold'
  BY <1>1 DEF PipeInv, ArraysHold
<1>6. \A k \in Started' : ChildHolds(k, child[k + 1])'
  BY <1>1, <1>2, ChildrenStay
<1> QED
  BY <1>1, <1>2, <1>3, <1>4, <1>5, <1>6 DEF PipeInv

LEMMA PipeStep == PipeInv /\ [PipeNext]_pipeVars => PipeInv'
<1> SUFFICES ASSUME PipeInv, [PipeNext]_pipeVars PROVE PipeInv'
  OBVIOUS
<1>1. CASE UNCHANGED pipeVars
  <2>1. /\ (\A k : In(k)' = In(k) /\ Out(k)' = Out(k)) /\ OpenOn' = OpenOn
        /\ (Spared' <=> Spared) /\ (More' <=> More) /\ Started' = Started
    BY <1>1, SameLine DEF pipeVars, Spared, More, Started
  <2>2. ParentHolds' /\ ArraysHold' /\ (Spared /\ at # "exited" => Readable')
    BY <1>1, <2>1
    DEF pipeVars, PipeInv, ParentHolds, ArraysHold, Readable, InPlace, OutPlace
  <2>3. \A k \in Started' : ChildHolds(k, child[k + 1])'
    BY <1>1, <2>1, ChildrenStay DEF pipeVars
  <2> QED BY <1>1, <2>1, <2>2, <2>3 DEF PipeInv, pipeVars
<1> QED
  BY <1>1, PipeKeeps, ForkKeeps, CloseEndsKeeps, WaitKeeps, ExitsKeeps DEF PipeNext

\* PipeInv is an inductive invariant of lines of any length, whatever the stack holds:
\* the process has an end of its line's pipes only under the number the arrays have for it.
THEOREM PipeInductive == PipeSpec => []PipeInv
BY PipeInitInv, PipeStep, PTL DEF PipeSpec

LEMMA ChildEnds ==
  ASSUME NEW m \in Int, NEW c, ChildHolds(m, c), NEW d \in Descriptors, NEW n \in Int
  PROVE  (c[d] = In(n) => n = m) /\ (c[d] = Out(n) => n = m - 1)
BY DEF ChildHolds

LEMMA PipeEnds == PipeInv => EndsInOneProcess
<1> SUFFICES ASSUME PipeInv PROVE EndsInOneProcess
  OBVIOUS
<1>1. Started \subseteq Int /\ \A k \in Started : k >= 0
  BY DEF Started
<1>2. ASSUME NEW k \in Started, NEW l \in Started
      PROVE  (Has(l, In(k)) => l = k) /\ (Has(l, Out(k)) => l = k + 1)
  <2>1. k \in Int /\ l \in Int /\ ChildHolds(l, child[l + 1])
    BY <1>1 DEF PipeInv
  <2>2. \A d \in Descriptors : /\ child[l + 1][d] = In(k)  => k = l
                               /\ child[l + 1][d] = Out(k) => k = l - 1
    BY <2>1, ChildEnds
  <2>3. /\ Has(l, In(k))  => \E d \in Descriptors : child[l + 1][d] = In(k)
        /\ Has(l, Out(k)) => \E d \in Descriptors : child[l + 1][d] = Out(k)
    BY DEF Has
  <2> QED BY <2>1, <2>2, <2>3
<1>3. AllStarted => \A k \in Started : In(k) \notin {files[d] : d \in Descriptors}
  BY <1>1 DEF AllStarted, PipeInv, ParentHolds, InPlace
<1>4. ASSUME Spared, NEW k \in Started \ {0} PROVE child[k + 1][0] = Out(k - 1)
  <2>1. k > 0 /\ ChildHolds(k, child[k + 1])
    BY <1>1 DEF PipeInv
  <2> QED BY <1>4, <2>1 DEF ChildHolds
<1> QED BY <1>2, <1>3, <1>4 DEF EndsInOneProcess

\* The parent's descriptors and the counters keep their types (cw05/zad1/main.c).
THEOREM PipeTypeCorrect == PipeSpec => []PipeTypeOK
<1>1. PipeInv => PipeTypeOK
  BY PipeNumbers DEF PipeInv, PipeTypeOK
<1> QED BY <1>1, PipeInductive, PTL

\* For lines of any length and any contents of prev: an end of a pipe is open in no command
\* but the one it is meant for, so that no command waits for the end of an input that
\* another process keeps open; and the input of each command is the pipe before it, unless
\* prev[0] held a descriptor (cw05/zad1/main.c 169-210).
THEOREM OneProcessPerEnd == PipeSpec => []EndsInOneProcess
BY PipeInductive, PipeEnds, PTL

----------------------------------------------------------------------------
(* The lines of the producers: cells, ends and how many there are *)

\* A label is no piece and no end of a line.
LEMMA CellsDiffer ==
  /\ Lines \subseteq Nat \ {0} /\ Label \notin Lines /\ NL \notin Lines /\ Label # NL
  /\ Label \in Cells /\ NL \in Cells /\ Lines \subseteq Cells
<1>1. \A p \in Producers : Line[p] \in Nat \ {0}
  BY FifoAssumption
<1>2. Lines \subseteq Nat \ {0}
  BY <1>1 DEF Lines
<1> QED BY <1>2 DEF Label, NL, Cells

\* What is found in a finite sequence is a finite set.
LEMMA FoundIn ==
  ASSUME NEW f \in Seq(Cells), NEW S \in SUBSET DOMAIN f
  PROVE  IsFiniteSet(S) /\ Cardinality(S) \in Nat
<1>1. DOMAIN f = 1 .. Len(f) /\ Len(f) \in Nat
  OBVIOUS
<1>2. IsFiniteSet(1 .. Len(f))
  BY <1>1, FS_Interval
<1> QED BY <1>1, <1>2, FS_Subset, FS_CardinalityType

LEMMA EndsFound ==
  ASSUME NEW f \in Seq(Cells)
  PROVE  /\ Ends(f) \subseteq 1 .. Len(f) /\ Len(f) \in Nat
         /\ IsFiniteSet(Ends(f)) /\ Cardinality(Ends(f)) \in Nat
<1>1. Ends(f) \subseteq DOMAIN f /\ DOMAIN f = 1 .. Len(f) /\ Len(f) \in Nat
  BY DEF Ends
<1> QED BY <1>1, FoundIn

\* There is an end for every line up to the number of ends.
LEMMA EndOfIt ==
  ASSUME NEW f \in Seq(Cells), NEW p \in Nat \ {0}, p <= Cardinality(Ends(f))
  PROVE  /\ EndOf(f, p) \in Ends(f)
         /\ Cardinality({j \in Ends(f) : j <= EndOf(f, p)}) = p
<1> DEFINE U(m) == {j \in Ends(f) : j <= m}
           T == {m \in Nat : p <= Cardinality(U(m))}
<1>1. /\ Ends(f) \subseteq 1 .. Len(f) /\ Len(f) \in Nat /\ IsFiniteSet(Ends(f))
  BY EndsFound
<1>2. \A m \in Nat : IsFiniteSet(U(m)) /\ Cardinality(U(m)) \in Nat
  <2> TAKE m \in Nat
  <2>1. U(m) \in SUBSET Ends(f)
    OBVIOUS
  <2> QED BY <1>1, <2>1, FS_Subset, FS_CardinalityType
<1>3. Len(f) \in T
  <2>1. U(Len(f)) = Ends(f)
    BY <1>1
  <2> QED BY <1>1, <2>1
<1>4. PICK m \in T : \A y \in T : ~(<<y, m>> \in OpToRel(<, Nat))
  <2>1. T \subseteq Nat /\ T # {}
    BY <1>3
  <2> HIDE DEF T
  <2> QED BY <2>1, NatLessThanWellFounded, WFMin
<1>5. m \in Nat /\ p <= Cardinality(U(m))
  BY <1>4
<1>6. ASSUME NEW y \in Nat, y < m PROVE Cardinality(U(y)) < p
  <2>1. ASSUME y \in T PROVE FALSE
    <3>1. ~(<<y, m>> \in {ss \in Nat \X Nat : ss[1] < ss[2]})
      BY <1>4, <2>1 DEF OpToRel
    <3> QED BY <1>5, <1>6, <3>1
  <2>2. ~(p <= Cardinality(U(y)))
    BY <1>6, <2>1
  <2>3. Cardinality(U(y)) \in Nat
    BY <1>2, <1>6
  <2> HIDE DEF U
  <2> QED BY <2>2, <2>3
<1>7. m # 0
  <2>1. ASSUME m = 0 PROVE FALSE
    <3>1. U(m) = {}
      BY <1>1, <2>1
    <3>2. Cardinality(U(m)) = 0
      BY <3>1, FS_EmptySet
    <3> QED BY <1>5, <3>2
  <2> QED BY <2>1
<1>8. m - 1 \in Nat /\ Cardinality(U(m - 1)) < p
  BY <1>5, <1>6, <1>7
<1>9. m \in Ends(f)
  <2>1. ASSUME m \notin Ends(f) PROVE FALSE
    <3>1. U(m) = U(m - 1)
      BY <1>1, <1>5, <2>1
    <3> HIDE DEF U
    <3> QED BY <1>2, <1>5, <1>8, <3>1
  <2> QED BY <2>1
<1>10. U(m) = U(m - 1) \cup {m} /\ m \notin U(m - 1)
  BY <1>1, <1>5, <1>9
<1>11. Cardinality(U(m)) = p
  <2>1. /\ IsFiniteSet(U(m - 1)) /\ Cardinality(U(m - 1)) \in Nat
    BY <1>2, <1>8
  <2> HIDE DEF U
  <2>2. Cardinality(U(m)) = Cardinality(U(m - 1)) + 1
    BY <1>10, <2>1, FS_AddElement
  <2> QED BY <1>5, <1>8, <2>1, <2>2
<1> QED BY <1>9, <1>11 DEF EndOf

----------------------------------------------------------------------------
(* A piece is put in *)

\* Where the cell j of a file is after a piece was put in before the cell e.
Shift(e, j) == IF j < e THEN j ELSE j + 1

Moved(e, S) == {Shift(e, j) : j \in S}

LEMMA MovedSet ==
  ASSUME NEW e \in Nat, NEW S \in SUBSET Nat, IsFiniteSet(S)
  PROVE  IsFiniteSet(Moved(e, S)) /\ Cardinality(Moved(e, S)) = Cardinality(S)
<1> DEFINE T == Moved(e, S)
           b == [j \in S |-> Shift(e, j)]
<1>1. \A h, j \in S : Shift(e, h) = Shift(e, j) => h = j
  BY DEF Shift
<1>2. b \in Bijection(S, T)
  BY <1>1 DEF Bijection, Injection, IsInjective, Surjection, Moved
<1>3. ExistsBijection(S, T)
  BY <1>2 DEF ExistsBijection
<1> HIDE DEF T
<1> QED BY <1>3, FS_Bijection DEF T

\* g is f with the piece p in front of its cell e.
PutIn(f, g, e, p) ==
    /\ f \in Seq(Cells) /\ g \in Seq(Cells) /\ e \in 1 .. Len(f) /\ p \in Lines
    /\ Len(g) = Len(f) + 1 /\ g[e] = p
    /\ \A j \in 1 .. Len(f) : g[Shift(e, j)] = f[j]

LEMMA PutInCells ==
  ASSUME NEW f, NEW g, NEW e, NEW p, PutIn(f, g, e, p)
  PROVE  /\ DOMAIN f = 1 .. Len(f) /\ DOMAIN g = 1 .. Len(f) + 1 /\ Len(f) \in Nat
         /\ e \in 1 .. Len(f) /\ \A j \in 1 .. Len(f) : g[Shift(e, j)] = f[j]
         /\ \A k \in DOMAIN g : k = e \/ \E j \in DOMAIN f : k = Shift(e, j)
         /\ \A j \in DOMAIN f : Shift(e, j) \in DOMAIN g /\ Shift(e, j) # e
<1>1. DOMAIN f = 1 .. Len(f) /\ DOMAIN g = 1 .. Len(f) + 1 /\ Len(f) \in Nat
      /\ e \in 1 .. Len(f) /\ \A j \in 1 .. Len(f) : g[Shift(e, j)] = f[j]
  BY DEF PutIn
<1>2. ASSUME NEW k \in DOMAIN g, k # e PROVE \E j \in DOMAIN f : k = Shift(e, j)
  <2>1. CASE k < e
    BY <1>1, <2>1 DEF Shift
  <2>2. CASE k > e
    <3>1. k - 1 \in DOMAIN f /\ k = Shift(e, k - 1)
      BY <1>1, <2>2 DEF Shift
    <3> QED BY <3>1
  <2> QED BY <1>1, <1>2, <2>1, <2>2
<1>3. \A j \in DOMAIN f : Shift(e, j) \in DOMAIN g /\ Shift(e, j) # e
  BY <1>1 DEF Shift
<1> QED BY <1>1, <1>2, <1>3

\* Where a cell with the value v is found.
Found(f, v) == {k \in DOMAIN f : f[k] = v}

LEMMA PutInFound ==
  ASSUME NEW f, NEW g, NEW e, NEW p, PutIn(f, g, e, p), NEW v
  PROVE  Found(g, v) = Moved(e, Found(f, v)) \cup (IF v = p THEN {e} ELSE {})
<1> USE DEF Found, Moved
<1> DEFINE F == Found(f, v)
           G == Found(g, v)
           R == Moved(e, F) \cup (IF v = p THEN {e} ELSE {})
<1>1. g[e] = p /\ e \in DOMAIN g
  BY PutInCells DEF PutIn
<1>2. ASSUME NEW k \in G PROVE k \in R
  <2>1. CASE k = e
    BY <1>1, <2>1
  <2>2. CASE k # e
    <3>1. PICK j \in DOMAIN f : k = Shift(e, j)
      BY <2>2, PutInCells
    <3>2. f[j] = v
      <4>1. DOMAIN f = 1 .. Len(f) /\ \A h \in 1 .. Len(f) : g[Shift(e, h)] = f[h]
        BY PutInCells
      <4> QED BY <3>1, <4>1
    <3> QED BY <3>1, <3>2
  <2> QED BY <2>1, <2>2
<1>3. ASSUME NEW k \in R PROVE k \in G
  <2>1. CASE k = e /\ v = p
    BY <1>1, <2>1
  <2>2. CASE \E j \in F : k = Shift(e, j)
    <3>1. PICK j \in F : k = Shift(e, j)
      BY <2>2
    <3> QED BY <3>1, PutInCells
  <2> QED BY <2>1, <2>2
<1> QED BY <1>2, <1>3

LEMMA PutInEnds ==
  ASSUME NEW f, NEW g, NEW e, NEW p, PutIn(f, g, e, p)
  PROVE  /\ Ends(g) = Moved(e, Ends(f))
         /\ \A j \in DOMAIN f : Shift(e, j) \in Ends(g) <=> j \in Ends(f)
<1>1. NL # p
  BY CellsDiffer DEF PutIn
<1>2. Found(g, NL) = Moved(e, Found(f, NL))
  BY <1>1, PutInFound
<1>3. \A j \in DOMAIN f : Shift(e, j) \in Ends(g) <=> j \in Ends(f)
  BY PutInCells DEF Ends
<1> QED BY <1>2, <1>3 DEF Found, Ends

\* The line of every cell stays, and the piece is in the line that ends at e.
LEMMA PutInLineAt ==
  ASSUME NEW f, NEW g, NEW e, NEW p, PutIn(f, g, e, p), e \in Ends(f)
  PROVE  /\ \A j \in DOMAIN f : LineAt(g, Shift(e, j)) = LineAt(f, j)
         /\ LineAt(g, e) = Cardinality({j \in Ends(f) : j <= e})
<1>1. /\ Ends(f) \subseteq 1 .. Len(f) /\ Len(f) \in Nat /\ IsFiniteSet(Ends(f))
      /\ e \in Nat /\ DOMAIN f = 1 .. Len(f)
  BY EndsFound, PutInCells DEF PutIn
<1>2. \A S \in SUBSET Ends(f) : IsFiniteSet(S) /\ S \in SUBSET Nat
  <2> TAKE S \in SUBSET Ends(f)
  <2>1. IsFiniteSet(S)
    BY <1>1, FS_Subset
  <2> QED BY <1>1, <2>1
<1>3. ASSUME NEW j \in DOMAIN f PROVE LineAt(g, Shift(e, j)) = LineAt(f, j)
  <2> DEFINE S == {h \in Ends(f) : h < j}
  <2>1. {k \in Ends(g) : k < Shift(e, j)} = Moved(e, S)
    <3>1. \A h \in Ends(f) : Shift(e, h) < Shift(e, j) <=> h < j
      BY <1>1 DEF Shift
    <3> QED BY <3>1, PutInEnds DEF Moved
  <2>2. Cardinality({k \in Ends(g) : k < Shift(e, j)}) = Cardinality(S)
    <3>1. IsFiniteSet(S) /\ S \in SUBSET Nat
      BY <1>2
    <3> HIDE DEF S
    <3> QED BY <1>1, <2>1, <3>1, MovedSet
  <2> QED BY <2>2 DEF LineAt
<1>4. LineAt(g, e) = Cardinality({j \in Ends(f) : j <= e})
  <2> DEFINE S == {h \in Ends(f) : h < e}
  <2>1. {k \in Ends(g) : k < e} = S
    <3>1. \A h \in Ends(f) : /\ Shift(e, h) < e <=> h < e
                             /\ h < e => Shift(e, h) = h
      BY <1>1 DEF Shift
    <3> QED BY <3>1, PutInEnds DEF Moved
  <2>2. {j \in Ends(f) : j <= e} = S \cup {e} /\ e \notin S
    BY <1>1
  <2>3. IsFiniteSet(S)
    BY <1>2
  <2> HIDE DEF S
  <2>4. Cardinality(S \cup {e}) = Cardinality(S) + 1 /\ Cardinality(S) \in Nat
    BY <2>2, <2>3, FS_AddElement, FS_CardinalityType
  <2> QED BY <2>1, <2>2, <2>4 DEF LineAt
<1> QED BY <1>3, <1>4

\* A piece that is put in before the end of its line leaves everything in its line.
LEMMA PutInKeeps ==
  ASSUME NEW f, NEW g, NEW e, NEW p, PutIn(f, g, e, p), NEW r \in [Lines -> Nat],
         e \in Ends(f), Cardinality({j \in Ends(f) : j <= e}) = p,
         WellFormed(f, r), f[Len(f)] = NL
  PROVE  WellFormed(g, [r EXCEPT ![p] = @ + 1]) /\ g[Len(g)] = NL
<1>1. /\ DOMAIN f = 1 .. Len(f) /\ DOMAIN g = 1 .. Len(f) + 1 /\ Len(f) \in Nat
      /\ e \in 1 .. Len(f) /\ p \in Lines /\ f \in Seq(Cells)
      /\ Len(g) = Len(f) + 1 /\ g[e] = p /\ f[e] = NL
  BY PutInCells DEF PutIn, Ends
<1>2. \A j \in 1 .. Len(f) : g[Shift(e, j)] = f[j] /\ LineAt(g, Shift(e, j)) = LineAt(f, j)
  <2>1. \A j \in 1 .. Len(f) : g[Shift(e, j)] = f[j]
    BY PutInCells
  <2>2. \A j \in DOMAIN f : LineAt(g, Shift(e, j)) = LineAt(f, j)
    BY PutInLineAt
  <2> QED BY <1>1, <2>1, <2>2
<1>3. g[Len(g)] = NL
  <2>1. Shift(e, Len(f)) = Len(g) /\ Len(f) \in 1 .. Len(f)
    BY <1>1 DEF Shift
  <2> QED BY <1>2, <2>1
<1>4. ASSUME NEW k \in DOMAIN g, g[k] \in Lines PROVE LineAt(g, k) = g[k]
  <2>1. CASE k = e
    BY <1>1, <2>1, PutInLineAt
  <2>2. CASE k # e
    <3>1. PICK j \in DOMAIN f : k = Shift(e, j)
      BY <2>2, PutInCells
    <3>2. f[j] \in Lines => LineAt(f, j) = f[j]
      BY DEF WellFormed
    <3> QED BY <1>1, <1>2, <1>4, <3>1, <3>2
  <2> QED BY <2>1, <2>2
<1>5. ASSUME NEW l \in Lines
      PROVE  Cardinality({k \in DOMAIN g : g[k] = l}) = [r EXCEPT ![p] = @ + 1][l]
  <2> DEFINE F == Found(f, l)
             M == Moved(e, F)
  <2>1. Cardinality(F) = r[l] /\ IsFiniteSet(F) /\ F \in SUBSET Nat
    BY <1>1, FoundIn DEF WellFormed, Found
  <2>2. Found(g, l) = M \cup (IF l = p THEN {e} ELSE {})
    BY PutInFound
  <2>3. e \notin M
    BY <1>1 DEF Shift, Moved, Found
  <2>4. IsFiniteSet(M) /\ Cardinality(M) = r[l]
    <3> HIDE DEF F
    <3> QED BY <1>1, <2>1, MovedSet
  <2> HIDE DEF M
  <2>5. Cardinality(M \cup {e}) = r[l] + 1
    BY <2>3, <2>4, FS_AddElement
  <2>6. CASE l = p
    BY <1>1, <2>2, <2>5, <2>6 DEF Found
  <2>7. CASE l # p
    <3>1. {k \in DOMAIN g : g[k] = l} = M
      BY <2>2, <2>7 DEF Found
    <3> QED BY <1>1, <2>4, <2>7, <3>1
  <2> QED BY <2>6, <2>7
<1>6. ASSUME NEW k \in DOMAIN g
      PROVE  g[k] = Label <=> (k = 1 \/ k - 1 \in Ends(g))
  <2>1. \A j \in DOMAIN f : /\ f[j] = Label <=> (j = 1 \/ j - 1 \in Ends(f))
                            /\ Shift(e, j) \in Ends(g) <=> j \in Ends(f)
    BY PutInEnds DEF WellFormed
  <2>2. e # 1 /\ e - 1 \notin Ends(f) /\ e \notin Ends(g)
    <3>1. f[e] # Label /\ e \in DOMAIN f /\ p # NL
      BY <1>1, CellsDiffer
    <3> QED BY <1>1, <2>1, <3>1 DEF Ends
  <2>3. CASE k = e
    <3>1. e - 1 \in DOMAIN f /\ Shift(e, e - 1) = e - 1
      BY <1>1, <2>2 DEF Shift
    <3> QED BY <1>1, <2>1, <2>2, <2>3, <3>1, CellsDiffer
  <2>4. CASE k < e
    <3>1. k \in DOMAIN f /\ Shift(e, k) = k
      BY <1>1, <2>4 DEF Shift
    <3>2. k - 1 \in Ends(g) <=> k - 1 \in Ends(f)
      <4>1. CASE k = 1
        BY <4>1, <1>1 DEF Ends
      <4>2. CASE k # 1
        <5>1. k - 1 \in DOMAIN f /\ Shift(e, k - 1) = k - 1
          BY <1>1, <2>4, <4>2 DEF Shift
        <5> QED BY <2>1, <5>1
      <4> QED BY <4>1, <4>2
    <3> QED BY <1>1, <1>2, <2>1, <3>1, <3>2
  <2>5. CASE k > e
    <3>1. k - 1 \in DOMAIN f /\ Shift(e, k - 1) = k /\ k # 1 /\ k - 1 # 1
      BY <1>1, <2>2, <2>5 DEF Shift
    <3>2. g[k] = Label <=> k - 2 \in Ends(f)
      <4>1. g[k] = f[k - 1]
        BY <1>1, <1>2, <3>1
      <4>2. f[k - 1] = Label <=> (k - 1) - 1 \in Ends(f)
        BY <2>1, <3>1
      <4>3. (k - 1) - 1 = k - 2
        BY <1>1
      <4> QED BY <4>1, <4>2, <4>3
    <3>3. CASE k = e + 1
      BY <1>1, <2>2, <3>2, <3>3
    <3>4. CASE k # e + 1
      <4>1. k - 2 \in DOMAIN f /\ Shift(e, k - 2) = k - 1
        BY <1>1, <2>5, <3>4 DEF Shift
      <4> QED BY <2>1, <3>1, <3>2, <4>1
    <3> QED BY <3>3, <3>4
  <2> QED BY <1>1, <2>3, <2>4, <2>5
<1> QED BY <1>3, <1>4, <1>5, <1>6 DEF WellFormed

----------------------------------------------------------------------------
(* Lines are added *)

Empty(n) == [k \in 1 .. 2 * n |-> IF k % 2 = 1 THEN Label ELSE NL]

LEMMA EmptyLines ==
  ASSUME NEW f \in Seq(Cells), NEW n \in Nat
  PROVE  /\ f \o Empty(n) \in Seq(Cells) /\ Len(f \o Empty(n)) = Len(f) + 2 * n
         /\ \A k \in 1 .. Len(f) : (f \o Empty(n))[k] = f[k]
         /\ \A k \in 1 .. 2 * n :
              (f \o Empty(n))[Len(f) + k] = IF k % 2 = 1 THEN Label ELSE NL
<1>1. \A k \in 1 .. 2 * n : (IF k % 2 = 1 THEN Label ELSE NL) \in Cells
  BY CellsDiffer
<1>2. 2 * n \in Nat
  OBVIOUS
<1>3. Empty(n) \in Seq(Cells) /\ Len(Empty(n)) = 2 * n
  BY <1>1, <1>2 DEF Empty
<1>4. /\ f \o Empty(n) \in Seq(Cells) /\ Len(f \o Empty(n)) = Len(f) + 2 * n
      /\ \A k \in 1 .. Len(f) + 2 * n :
           (f \o Empty(n))[k] = IF k <= Len(f) THEN f[k] ELSE Empty(n)[k - Len(f)]
  <2>1. /\ f \o Empty(n) \in Seq(Cells) /\ Len(f \o Empty(n)) = Len(f) + Len(Empty(n))
        /\ \A k \in 1 .. Len(f) + Len(Empty(n)) :
             (f \o Empty(n))[k] = IF k <= Len(f) THEN f[k] ELSE Empty(n)[k - Len(f)]
    BY <1>3, ConcatProperties
  <2> QED BY <1>3, <2>1
<1>5. ASSUME NEW k \in 1 .. Len(f) PROVE (f \o Empty(n))[k] = f[k]
  BY <1>2, <1>4
<1>6. ASSUME NEW k \in 1 .. 2 * n
      PROVE  (f \o Empty(n))[Len(f) + k] = IF k % 2 = 1 THEN Label ELSE NL
  <2>1. /\ Len(f) + k \in 1 .. Len(f) + 2 * n /\ ~(Len(f) + k <= Len(f))
        /\ Len(f) + k - Len(f) = k
    BY <1>2
  <2>2. (f \o Empty(n))[Len(f) + k] = Empty(n)[k]
    BY <1>4, <2>1
  <2> QED BY <2>2 DEF Empty
<1> QED BY <1>4, <1>5, <1>6

LEMMA LinesAdded ==
  ASSUME NEW f \in Seq(Cells), NEW n \in Nat \ {0}, NEW r \in [Lines -> Nat],
         WellFormed(f, r), f # <<>> => f[Len(f)] = NL
  PROVE  /\ WellFormed(f \o Empty(n), r)
         /\ (f \o Empty(n))[Len(f) + 2 * n] = NL
         /\ Cardinality(Ends(f \o Empty(n))) = Cardinality(Ends(f)) + n
<1> DEFINE g == f \o Empty(n)
           m == Len(f)
<1>1. /\ g \in Seq(Cells) /\ DOMAIN g = 1 .. m + 2 * n
      /\ \A k \in 1 .. m : g[k] = f[k]
      /\ \A k \in 1 .. 2 * n : g[m + k] = IF k % 2 = 1 THEN Label ELSE NL
  <2>1. n \in Nat
    OBVIOUS
  <2>2. /\ g \in Seq(Cells) /\ Len(g) = m + 2 * n
        /\ \A k \in 1 .. m : g[k] = f[k]
        /\ \A k \in 1 .. 2 * n : g[m + k] = IF k % 2 = 1 THEN Label ELSE NL
    BY <2>1, EmptyLines
  <2> HIDE DEF g, m
  <2> QED BY <2>2
<1>2. m \in Nat /\ DOMAIN f = 1 .. m /\ 2 * n \in Nat \ {0}
  OBVIOUS
<1>3. /\ Label # NL /\ Label \notin Lines /\ NL \notin Lines
  BY CellsDiffer
<1>4. m = 0 \/ (m \in 1 .. m /\ f[m] = NL)
  <2>1. m # 0 => f # <<>> /\ m \in 1 .. m
    BY <1>2
  <2>2. f # <<>> => f[m] = NL
    OBVIOUS
  <2> HIDE DEF m
  <2> QED BY <2>1, <2>2
<1>5. \A k \in DOMAIN g : k \in 1 .. m \/ \E h \in 1 .. 2 * n : k = m + h
  <2>1. ASSUME NEW k \in DOMAIN g, k \notin 1 .. m PROVE k - m \in 1 .. 2 * n /\ k = m + (k - m)
    BY <1>1, <1>2, <2>1
  <2> QED BY <2>1
<1> HIDE DEF g, m
<1>6. \A k \in DOMAIN g : g[k] \in Lines => k \in 1 .. m
  BY <1>1, <1>3, <1>5
<1>7. \A k \in 1 .. m : k \in Ends(g) <=> k \in Ends(f)
  BY <1>1, <1>2 DEF Ends
<1>8. ASSUME NEW h \in 1 .. 2 * n PROVE m + h \in Ends(g) <=> h % 2 = 0
  <2>1. m + h \in DOMAIN g /\ (h % 2 = 0 <=> ~(h % 2 = 1))
    BY <1>1, <1>2
  <2> QED BY <1>1, <1>3, <2>1 DEF Ends
<1>9. ASSUME NEW k \in DOMAIN g, g[k] \in Lines PROVE LineAt(g, k) = g[k]
  <2>1. k \in 1 .. m /\ f[k] = g[k] /\ k \in DOMAIN f
    BY <1>1, <1>2, <1>6, <1>9
  <2>2. {j \in Ends(g) : j < k} = {j \in Ends(f) : j < k}
    <3>1. \A j \in Ends(g) \cup Ends(f) : j < k => j \in 1 .. m
      BY <1>1, <1>2, <2>1 DEF Ends
    <3> QED BY <1>7, <3>1
  <2>3. LineAt(f, k) = f[k]
    BY <1>9, <2>1 DEF WellFormed
  <2> QED BY <2>1, <2>2, <2>3 DEF LineAt
<1>10. ASSUME NEW l \in Lines PROVE Cardinality({k \in DOMAIN g : g[k] = l}) = r[l]
  <2>1. {k \in DOMAIN g : g[k] = l} = {k \in DOMAIN f : f[k] = l}
    <3>1. \A k \in DOMAIN f : k \in DOMAIN g /\ g[k] = f[k]
      BY <1>1, <1>2
    <3> QED BY <1>2, <1>6, <3>1
  <2> QED BY <2>1 DEF WellFormed
<1>11. ASSUME NEW k \in DOMAIN g PROVE g[k] = Label <=> (k = 1 \/ k - 1 \in Ends(g))
  <2>1. CASE k \in 1 .. m
    <3>1. k - 1 \in Ends(g) <=> k - 1 \in Ends(f)
      <4>1. CASE k = 1
        BY <4>1, <1>1, <1>2 DEF Ends
      <4>2. CASE k # 1
        <5>1. k - 1 \in 1 .. m
          BY <1>2, <2>1, <4>2
        <5> QED BY <1>7, <5>1
      <4> QED BY <4>1, <4>2
    <3>2. g[k] = f[k] /\ k \in DOMAIN f
      BY <1>1, <1>2, <2>1
    <3> QED BY <3>1, <3>2 DEF WellFormed
  <2>2. CASE k \notin 1 .. m
    <3>1. PICK h \in 1 .. 2 * n : k = m + h
      BY <1>5, <2>2
    <3>2. g[k] = Label <=> h % 2 = 1
      BY <1>1, <1>3, <3>1
    <3>3. CASE h = 1
      <4>1. k = 1 \/ k - 1 \in Ends(g)
        <5>1. CASE m = 0
          BY <3>1, <3>3, <5>1
        <5>2. CASE m \in 1 .. m /\ f[m] = NL
          <6>1. m \in Ends(f)
            BY <1>2, <5>2 DEF Ends
          <6>2. k - 1 = m
            BY <1>2, <3>1, <3>3
          <6> QED BY <1>7, <5>2, <6>1, <6>2
        <5> QED BY <1>4, <5>1, <5>2
      <4> QED BY <3>2, <3>3, <4>1
    <3>4. CASE h # 1
      <4>1. h - 1 \in 1 .. 2 * n /\ k - 1 = m + (h - 1) /\ k # 1
        BY <1>2, <3>1, <3>4
      <4>2. (h - 1) % 2 = 0 <=> h % 2 = 1
        BY <3>4
      <4> QED BY <1>8, <3>2, <4>1, <4>2
    <3> QED BY <3>3, <3>4
  <2> QED BY <2>1, <2>2
<1>12. g[m + 2 * n] = NL
  <2>1. 2 * n \in 1 .. 2 * n /\ (2 * n) % 2 # 1
    BY <1>2
  <2> QED BY <1>1, <2>1
<1>13. Cardinality(Ends(g)) = Cardinality(Ends(f)) + n
  <2> DEFINE A == {m + 2 * h : h \in 1 .. n}
             b == [h \in 1 .. n |-> m + 2 * h]
  <2>1. Ends(g) = Ends(f) \cup A
    <3>1. ASSUME NEW k \in Ends(g) PROVE k \in Ends(f) \cup A
      <4>1. k \in DOMAIN g
        BY DEF Ends
      <4>2. CASE k \in 1 .. m
        BY <1>7, <4>2
      <4>3. CASE k \notin 1 .. m
        <5>1. PICK h \in 1 .. 2 * n : k = m + h
          BY <1>5, <4>1, <4>3
        <5>2. h % 2 = 0
          BY <1>8, <5>1
        <5>3. PICK j \in 1 .. n : h = 2 * j
          <6>1. h \div 2 \in 1 .. n /\ h = 2 * (h \div 2)
            BY <5>2
          <6> QED BY <6>1
        <5> QED BY <5>1, <5>3
      <4> QED BY <4>2, <4>3
    <3>2. Ends(f) \subseteq Ends(g)
      BY <1>2, <1>7 DEF Ends
    <3>3. ASSUME NEW h \in 1 .. n PROVE m + 2 * h \in Ends(g)
      <4>1. 2 * h \in 1 .. 2 * n /\ (2 * h) % 2 = 0
        OBVIOUS
      <4> QED BY <1>8, <4>1
    <3> QED BY <3>1, <3>2, <3>3
  <2>2. b \in Bijection(1 .. n, A)
    <3>1. b \in [1 .. n -> A]
      OBVIOUS
    <3>2. \A h, j \in 1 .. n : m + 2 * h = m + 2 * j => h = j
      BY <1>2
    <3>3. \A x \in A : \E h \in 1 .. n : b[h] = x
      OBVIOUS
    <3> QED BY <3>1, <3>2, <3>3 DEF Bijection, Injection, IsInjective, Surjection
  <2>3. /\ IsFiniteSet(Ends(f)) /\ Cardinality(Ends(f)) \in Nat
        /\ Ends(f) \subseteq 1 .. m
    BY EndsFound DEF m
  <2>4. Ends(f) \cap A = {}
    BY <1>2, <2>3
  <2> HIDE DEF A
  <2>5. IsFiniteSet(1 .. n) /\ Cardinality(1 .. n) = n
    <3>1. 1 \in Int /\ n \in Int /\ ~(1 > n) /\ n - 1 + 1 = n
      OBVIOUS
    <3>2. /\ IsFiniteSet(1 .. n)
          /\ Cardinality(1 .. n) = IF 1 > n THEN 0 ELSE n - 1 + 1
      BY <3>1, FS_Interval
    <3> QED BY <3>1, <3>2
  <2>6. IsFiniteSet(A) /\ Cardinality(A) = n
    BY <2>2, <2>5, FS_Bijection DEF ExistsBijection
  <2>7. Cardinality(Ends(f) \cup A) =
          Cardinality(Ends(f)) + n - Cardinality(Ends(f) \cap A)
    BY <2>3, <2>6, FS_Union
  <2>8. Cardinality(Ends(f) \cap A) = 0
    BY <2>4, FS_EmptySet
  <2> QED BY <2>1, <2>3, <2>7, <2>8
<1>14. WellFormed(g, r)
  BY <1>9, <1>10, <1>11 DEF WellFormed
<1> QED BY <1>12, <1>13, <1>14 DEF g, m

----------------------------------------------------------------------------
(* What is written back *)

LEMMA WrittenIt ==
  ASSUME NEW f \in Seq(Cells), NEW w \in [offset : Nat, cells : Seq(Cells)],
         w.offset <= Len(f)
  PROVE  /\ Written(f, w) \in Seq(Cells) /\ Len(f) <= Len(Written(f, w))
         /\ \A k \in 1 .. w.offset : Written(f, w)[k] = f[k]
         /\ \A k \in 1 .. Len(w.cells) : Written(f, w)[w.offset + k] = w.cells[k]
         /\ w.offset + Len(w.cells) >= Len(f) =>
              Len(Written(f, w)) = w.offset + Len(w.cells)
<1> DEFINE o == w.offset
           n == Len(f)
           b == w.cells
           m == Len(b)
           x == SubSeq(f, 1, o)
           z == SubSeq(f, o + m + 1, n)
<1>1. /\ o \in Nat /\ n \in Nat /\ m \in Nat /\ o <= n /\ b \in Seq(Cells)
      /\ \A k \in 1 .. n : f[k] \in Cells
  OBVIOUS
<1>2. Written(f, w) = (x \o b) \o z
  BY DEF Written
<1> HIDE DEF o, n, m, b
<1>3. x \in Seq(Cells) /\ Len(x) = o /\ \A k \in 1 .. o : x[k] = f[k]
  <2>1. \A k \in 1 .. o : f[k] \in Cells
    BY <1>1
  <2>2. /\ x \in Seq(Cells) /\ Len(x) = IF 1 <= o THEN o - 1 + 1 ELSE 0
        /\ \A k \in 1 .. o - 1 + 1 : x[k] = f[1 + k - 1]
    BY <1>1, <2>1, SubSeqProperties
  <2> HIDE DEF x
  <2> QED BY <1>1, <2>2
<1>4. /\ z \in Seq(Cells)
      /\ Len(z) = IF o + m + 1 <= n THEN n - (o + m + 1) + 1 ELSE 0
  <2>1. \A k \in o + m + 1 .. n : f[k] \in Cells
    BY <1>1
  <2> QED BY <1>1, <2>1, SubSeqProperties
<1> HIDE DEF x, z
<1>5. /\ x \o b \in Seq(Cells) /\ Len(x \o b) = o + m
      /\ \A k \in 1 .. o + m : (x \o b)[k] = IF k <= o THEN x[k] ELSE b[k - o]
  <2>1. /\ x \o b \in Seq(Cells) /\ Len(x \o b) = Len(x) + Len(b)
        /\ \A k \in 1 .. Len(x) + Len(b) :
             (x \o b)[k] = IF k <= Len(x) THEN x[k] ELSE b[k - Len(x)]
    BY <1>1, <1>3, ConcatProperties
  <2> QED BY <1>3, <2>1 DEF m
<1> DEFINE y == x \o b
<1>6. y \in Seq(Cells) /\ Len(y) = o + m
  BY <1>5
<1> HIDE DEF y
<1>7. /\ y \o z \in Seq(Cells) /\ Len(y \o z) = o + m + Len(z) /\ Len(z) \in Nat
      /\ \A k \in 1 .. o + m + Len(z) : (y \o z)[k] = IF k <= o + m THEN y[k] ELSE z[k - (o + m)]
  <2>1. /\ y \o z \in Seq(Cells) /\ Len(y \o z) = Len(y) + Len(z)
        /\ \A k \in 1 .. Len(y) + Len(z) :
             (y \o z)[k] = IF k <= Len(y) THEN y[k] ELSE z[k - Len(y)]
    BY <1>4, <1>6, ConcatProperties
  <2>2. Len(z) \in Nat
    BY <1>4
  <2> QED BY <1>6, <2>1, <2>2
<1>8. \A k \in 1 .. o + m : (y \o z)[k] = IF k <= o THEN f[k] ELSE b[k - o]
  <2> TAKE k \in 1 .. o + m
  <2>1. (y \o z)[k] = y[k]
    BY <1>1, <1>7
  <2>2. y[k] = IF k <= o THEN x[k] ELSE b[k - o]
    BY <1>5 DEF y
  <2>3. k <= o => x[k] = f[k]
    BY <1>1, <1>3
  <2> QED BY <2>1, <2>2, <2>3
<1>9. n <= Len(y \o z) /\ (o + m >= n => Len(y \o z) = o + m)
  BY <1>1, <1>4, <1>7
<1>10. /\ \A k \in 1 .. o : (y \o z)[k] = f[k]
       /\ \A k \in 1 .. m : (y \o z)[o + k] = b[k]
  <2>1. ASSUME NEW k \in 1 .. o PROVE k \in 1 .. o + m /\ k <= o
    BY <1>1
  <2>2. ASSUME NEW k \in 1 .. m PROVE (y \o z)[o + k] = b[k]
    <3> DEFINE h == o + k
    <3>1. h \in 1 .. o + m /\ ~(h <= o) /\ h - o = k
      BY <1>1
    <3> HIDE DEF h
    <3>2. (y \o z)[h] = b[h - o]
      BY <1>8, <3>1
    <3> QED BY <3>1, <3>2 DEF h
  <2> QED BY <1>8, <2>1, <2>2
<1>11. Written(f, w) = y \o z
  BY <1>2 DEF y
<1> QED BY <1>7, <1>9, <1>10, <1>11 DEF o, n, m, b

\* The piece and what was behind it, written where that began.
LEMMA WrittenBefore ==
  ASSUME NEW f \in Seq(Cells), NEW e \in Ends(f), NEW p \in Lines
  PROVE  LET w == [offset |-> e - 1, cells |-> <<p>> \o SubSeq(f, e, Len(f))] IN
         /\ w \in [offset : Nat, cells : Seq(Cells)] /\ w.offset <= Len(f)
         /\ PutIn(f, Written(f, w), e, p)
<1> DEFINE b == SubSeq(f, e, Len(f))
           w == [offset |-> e - 1, cells |-> <<p>> \o b]
           n == Len(f)
           g == Written(f, w)
<1>1. n \in Nat /\ e \in 1 .. n /\ \A k \in 1 .. n : f[k] \in Cells
  BY EndsFound
<1>2. p \in Cells
  BY CellsDiffer
<1> HIDE DEF n
<1>3. b \in Seq(Cells) /\ Len(b) = n - e + 1 /\ \A k \in 1 .. n - e + 1 : b[k] = f[e + k - 1]
  <2>1. \A k \in e .. n : f[k] \in Cells
    BY <1>1
  <2>2. /\ b \in Seq(Cells) /\ Len(b) = IF e <= n THEN n - e + 1 ELSE 0
        /\ \A k \in 1 .. n - e + 1 : b[k] = f[e + k - 1]
    BY <1>1, <2>1, SubSeqProperties DEF n
  <2> HIDE DEF b
  <2> QED BY <1>1, <2>2
<1> HIDE DEF b
<1>4. /\ <<p>> \in Seq(Cells) /\ Len(<<p>>) = 1 /\ <<p>>[1] = p
  BY <1>2
<1> DEFINE a == <<p>>
<1>5. a \in Seq(Cells) /\ Len(a) = 1 /\ a[1] = p
  BY <1>4
<1> HIDE DEF a
<1>6. /\ a \o b \in Seq(Cells) /\ Len(a \o b) = 1 + Len(b)
      /\ \A k \in 1 .. 1 + Len(b) : (a \o b)[k] = IF k <= 1 THEN a[k] ELSE b[k - 1]
  <2>1. /\ a \o b \in Seq(Cells) /\ Len(a \o b) = Len(a) + Len(b)
        /\ \A k \in 1 .. Len(a) + Len(b) :
             (a \o b)[k] = IF k <= Len(a) THEN a[k] ELSE b[k - Len(a)]
    BY <1>3, <1>5, ConcatProperties
  <2> QED BY <1>5, <2>1
<1>7. /\ a \o b \in Seq(Cells) /\ Len(a \o b) = n - e + 2 /\ (a \o b)[1] = p
      /\ \A k \in 2 .. n - e + 2 : (a \o b)[k] = f[e + k - 2]
  <2>1. (a \o b)[1] = p
    <3>1. 1 \in 1 .. 1 + Len(b)
      BY <1>1, <1>3
    <3> QED BY <1>5, <1>6, <3>1
  <2>2. ASSUME NEW k \in 2 .. n - e + 2 PROVE (a \o b)[k] = f[e + k - 2]
    <3>1. k \in 1 .. 1 + Len(b) /\ ~(k <= 1) /\ k - 1 \in 1 .. n - e + 1
          /\ e + (k - 1) - 1 = e + k - 2
      BY <1>1, <1>3
    <3> QED BY <1>3, <1>6, <3>1
  <2>3. 1 + Len(b) = n - e + 2
    BY <1>1, <1>3
  <2> QED BY <1>6, <2>1, <2>2, <2>3
<1>8. w.offset = e - 1 /\ w.cells = a \o b /\ e - 1 \in Nat /\ e - 1 <= n
      /\ w \in [offset : Nat, cells : Seq(Cells)]
  BY <1>1, <1>7 DEF a
<1> HIDE DEF w
<1>9. /\ g \in Seq(Cells) /\ \A k \in 1 .. e - 1 : g[k] = f[k]
      /\ \A k \in 1 .. n - e + 2 : g[e - 1 + k] = (a \o b)[k]
      /\ e - 1 + (n - e + 2) >= n => Len(g) = e - 1 + (n - e + 2)
  <2>1. w.offset <= Len(f)
    BY <1>8 DEF n
  <2>2. /\ g \in Seq(Cells) /\ \A k \in 1 .. w.offset : g[k] = f[k]
        /\ \A k \in 1 .. Len(w.cells) : g[w.offset + k] = w.cells[k]
        /\ w.offset + Len(w.cells) >= Len(f) => Len(g) = w.offset + Len(w.cells)
    BY <1>8, <2>1, WrittenIt
  <2> HIDE DEF g
  <2> QED BY <1>7, <1>8, <2>2 DEF n
<1> HIDE DEF g
<1>10. Len(g) = n + 1 /\ g[e] = p
  <2>1. e - 1 + (n - e + 2) = n + 1 /\ 1 \in 1 .. n - e + 2 /\ e - 1 + 1 = e
    BY <1>1
  <2>2. Len(g) = n + 1
    BY <1>1, <1>9, <2>1
  <2>3. g[e - 1 + 1] = (a \o b)[1]
    BY <1>9, <2>1
  <2> QED BY <1>7, <2>1, <2>2, <2>3
<1>11. ASSUME NEW j \in 1 .. n PROVE g[Shift(e, j)] = f[j]
  <2>1. CASE j < e
    <3>1. j \in 1 .. e - 1 /\ Shift(e, j) = j
      BY <1>1, <2>1 DEF Shift
    <3> QED BY <1>9, <3>1
  <2>2. CASE ~(j < e)
    <3> DEFINE k == j - e + 2
    <3>1. k \in 2 .. n - e + 2 /\ k \in 1 .. n - e + 2 /\ e + k - 2 = j /\ e - 1 + k = j + 1
          /\ Shift(e, j) = j + 1
      BY <1>1, <2>2 DEF Shift
    <3> HIDE DEF k
    <3>2. g[e - 1 + k] = (a \o b)[k] /\ (a \o b)[k] = f[e + k - 2]
      BY <1>7, <1>9, <3>1
    <3> QED BY <3>1, <3>2
  <2> QED BY <2>1, <2>2
<1>12. PutIn(f, g, e, p)
  BY <1>1, <1>9, <1>10, <1>11 DEF PutIn, n
<1> QED BY <1>8, <1>12 DEF w, g, n, b

----------------------------------------------------------------------------
(* The steps *)

LEMMA FifoInitInv == FifoInit => FifoInv
<1> SUFFICES ASSUME FifoInit PROVE FifoInv
  OBVIOUS
<1>1. /\ file = <<>> /\ fifo = <<>> /\ Len(file) = 0 /\ DOMAIN file = {}
  BY DEF FifoInit
<1>2. FifoTypes
  <2>1. pending \in [Consumers -> [offset : Nat, cells : Seq(Cells)]]
    BY DEF FifoInit, None
  <2>2. \A c \in Consumers : pending[c].offset <= Len(file)
    BY <1>1 DEF FifoInit, None
  <2>3. stage \in [Producers \cup Consumers ->
                     {"read", "write", "end", "edit", "unlock", "close"}]
        /\ \A c \in Consumers : stage[c] = "read"
    BY DEF FifoInit
  <2>4. fifo \in Seq(Piece) /\ file \in Seq(Cells) /\ taken \in [Consumers -> Seq(Piece)]
    BY <1>1 DEF FifoInit
  <2>5. /\ buffer \in [Producers -> Seq(Piece)] /\ received \in [Lines -> Nat]
        /\ raced \subseteq Consumers /\ locked \in [fifo : SUBSET Producers, file : SUBSET Consumers]
    BY DEF FifoInit
  <2> QED BY <2>1, <2>2, <2>3, <2>4, <2>5 DEF FifoTypes
<1>3. \A c \in Consumers : stage[c] = "read"
  BY DEF FifoInit
<1>4. Alone
  BY <1>3 DEF Alone
<1>5. WellFormed(file, received)
  <2>1. \A l \in Lines : {k \in DOMAIN file : file[k] = l} = {} /\ received[l] = 0
    BY <1>1 DEF FifoInit
  <2> QED BY <1>1, <2>1, FS_EmptySet DEF WellFormed
<1>6. Kept
  BY <1>1, <1>3, <1>5 DEF Kept
<1> QED BY <1>2, <1>4, <1>6 DEF FifoInv

LEMMA Moves ==
  ASSUME FifoInv, NEW x \in Producers \cup Consumers,
         NEW l \in {"read", "write", "end", "edit", "unlock", "close"}, To(x, l)
  PROVE  /\ stage' \in [Producers \cup Consumers ->
                          {"read", "write", "end", "edit", "unlock", "close"}]
         /\ stage'[x] = l
         /\ \A y \in (Producers \cup Consumers) \ {x} : stage'[y] = stage[y]
BY DEF To, FifoInv, FifoTypes

\* As long as nobody races, one consumer at most is between its lock and its close.
LEMMA OnlyOne ==
  ASSUME FifoInv, raced = {}, NEW c \in Consumers, NEW d \in Consumers,
         stage[c] \in {"edit", "unlock", "close"}, stage[d] \in {"edit", "unlock", "close"}
  PROVE  c = d
BY DEF FifoInv, Alone

\* A step after which nobody new has something to write back, and that writes nothing.
LEMMA SameFile ==
  ASSUME FifoInv, UNCHANGED <<newlines, file, received>>, raced \subseteq raced',
         \A c \in Consumers : stage'[c] \in {"unlock", "close"} =>
           /\ stage[c] \in {"unlock", "close"}
           /\ pending'[c] = pending[c] /\ taken'[c] = taken[c]
  PROVE  Kept'
<1> SUFFICES ASSUME Reliable'
             PROVE  /\ WellFormed(file, received)
                    /\ file # <<>> => file[Len(file)] = NL
                    /\ \A c \in Consumers :
                         stage'[c] \in {"unlock", "close"} => BeforeTheEnd(c)'
  BY DEF Kept, WellFormed, LineAt, Ends
<1>1. Reliable
  BY DEF Reliable
<1>2. /\ WellFormed(file, received)
      /\ file # <<>> => file[Len(file)] = NL
      /\ \A c \in Consumers : stage[c] \in {"unlock", "close"} => BeforeTheEnd(c)
  BY <1>1 DEF FifoInv, Kept
<1>3. ASSUME NEW c \in Consumers, stage'[c] \in {"unlock", "close"} PROVE BeforeTheEnd(c)'
  BY <1>2, <1>3 DEF BeforeTheEnd, piece, Ends
<1> QED BY <1>2, <1>3

\* A step that leaves who holds the file, and who has it to close.
LEMMA SameHolder ==
  ASSUME FifoInv, raced' = raced, locked'.file = locked.file,
         \A c \in Consumers : /\ stage'[c] \in {"edit", "unlock"} => stage[c] \in {"edit", "unlock"}
                              /\ stage'[c] = "close" => stage[c] = "close"
  PROVE  Alone'
<1>1. \A c \in Consumers : stage'[c] \in {"edit", "unlock", "close"} =>
        stage[c] \in {"edit", "unlock", "close"}
  OBVIOUS
<1>2. \A c \in Consumers : stage'[c] \in {"edit", "unlock"} => locked'.file = {c}
  BY DEF FifoInv, Alone
<1>3. ASSUME raced' = {}, NEW c \in Consumers, NEW d \in Consumers,
             {stage'[c], stage'[d]} \subseteq {"edit", "unlock", "close"}
      PROVE  c = d
  <2>1. stage'[c] \in {"edit", "unlock", "close"} /\ stage'[d] \in {"edit", "unlock", "close"}
    BY <1>3
  <2> QED BY <1>1, <1>3, <2>1, OnlyOne
<1> QED BY <1>2, <1>3 DEF Alone

\* What a producer sends is a piece for its line, of one cell if there are no ends of lines.
LEMMA TextIs ==
  ASSUME NEW p \in Producers, NEW t \in Text(p)
  PROVE  [line |-> Line[p], text |-> t] \in Piece
<1>1. Line[p] \in Lines /\ Line[p] \in Cells /\ NL \in Cells
  BY CellsDiffer DEF Lines
<1>2. t \in {<<Line[p]>>, <<Line[p], NL>>, <<NL, Line[p]>>} /\ (newlines = {} => t = <<Line[p]>>)
  BY DEF Text
<1>3. t \in Seq(Cells)
  <2>1. <<Line[p]>> \in Seq(Cells)
    BY <1>1
  <2>2. <<Line[p], NL>> \in Seq(Cells) /\ <<NL, Line[p]>> \in Seq(Cells)
    BY <1>1
  <2> QED BY <1>2, <2>1, <2>2
<1> QED BY <1>1, <1>2, <1>3 DEF Piece

LEMMA ProducerKeeps ==
  ASSUME FifoInv, NEW p \in Producers, ReadPiece(p) \/ WritePiece(p) \/ CloseFifo(p)
  PROVE  FifoInv'
<1>1. p \notin Consumers
  BY FifoAssumption
<1>2. PICK l \in {"read", "write", "end"} : To(p, l)
  BY DEF ReadPiece, WritePiece, CloseFifo
<1>3. /\ stage' \in [Producers \cup Consumers ->
                       {"read", "write", "end", "edit", "unlock", "close"}]
      /\ \A c \in Consumers : stage'[c] = stage[c]
  BY <1>1, <1>2, Moves
<1>4. /\ UNCHANGED <<newlines, file, received, raced, taken, pending>>
      /\ locked'.file = locked.file /\ locked' \in [fifo : SUBSET Producers, file : SUBSET Consumers]
  <2>1. locked \in [fifo : SUBSET Producers, file : SUBSET Consumers]
    BY DEF FifoInv, FifoTypes
  <2>2. CASE ReadPiece(p)
    BY <2>1, <2>2 DEF ReadPiece
  <2>3. CASE WritePiece(p)
    BY <2>1, <2>3 DEF WritePiece
  <2>4. CASE CloseFifo(p)
    BY <2>1, <2>4 DEF CloseFifo
  <2> QED BY <2>2, <2>3, <2>4
<1>5. Kept'
  BY <1>3, <1>4, SameFile
<1>6. Alone'
  BY <1>3, <1>4, SameHolder
<1>7. Piece' = Piece
  BY <1>4 DEF Piece
<1>8. buffer \in [Producers -> Seq(Piece)] /\ fifo \in Seq(Piece)
  BY DEF FifoInv, FifoTypes
<1>9. buffer' \in [Producers -> Seq(Piece)]
  <2>1. CASE ReadPiece(p)
    BY <1>8, <2>1 DEF ReadPiece
  <2>2. CASE WritePiece(p)
    <3>1. PICK t \in Text(p) :
            buffer' = [buffer EXCEPT ![p] = Append(@, [line |-> Line[p], text |-> t])]
      BY <2>2 DEF WritePiece
    <3> DEFINE x == [line |-> Line[p], text |-> t]
    <3>2. x \in Piece
      BY TextIs
    <3>3. buffer' = [buffer EXCEPT ![p] = Append(buffer[p], x)]
      BY <3>1
    <3> HIDE DEF x
    <3>4. Append(buffer[p], x) \in Seq(Piece)
      BY <1>8, <3>2
    <3> QED BY <1>8, <3>3, <3>4
  <2>3. CASE CloseFifo(p)
    <3>1. buffer' = [buffer EXCEPT ![p] = <<>>] /\ <<>> \in Seq(Piece)
      BY <2>3 DEF CloseFifo
    <3> QED BY <1>8, <3>1
  <2> QED BY <2>1, <2>2, <2>3
<1>10. fifo' \in Seq(Piece)
  <2>1. buffer[p] \in Seq(Piece)
    BY <1>8
  <2>2. fifo \o buffer[p] \in Seq(Piece)
    BY <1>8, <2>1
  <2>3. fifo' = fifo \/ fifo' = fifo \o buffer[p]
    BY DEF ReadPiece, WritePiece, CloseFifo
  <2> QED BY <1>8, <2>2, <2>3
<1>11. FifoTypes'
  BY <1>3, <1>4, <1>7, <1>9, <1>10 DEF FifoInv, FifoTypes
<1> QED BY <1>5, <1>6, <1>11 DEF FifoInv

LEMMA FillKeeps ==
  ASSUME FifoInv, NEW c \in Consumers, Fill(c)
  PROVE  FifoInv'
<1>1. /\ stage[c] = "read" /\ UNCHANGED <<newlines, buffer, locked, file, stage, pending>>
      /\ UNCHANGED <<received, raced>>
      /\ taken' = [taken EXCEPT ![c] = fifo] /\ fifo' = <<>>
  BY DEF Fill
<1>2. Piece' = Piece
  BY <1>1 DEF Piece
<1>3. /\ taken' \in [Consumers -> Seq(Piece)] /\ fifo' \in Seq(Piece)
      /\ \A d \in Consumers \ {c} : taken'[d] = taken[d]
  BY <1>1 DEF FifoInv, FifoTypes
<1>4. FifoTypes'
  BY <1>1, <1>2, <1>3 DEF FifoInv, FifoTypes
<1>5. Alone'
  BY <1>1, SameHolder
<1>6. Kept'
  BY <1>1, <1>3, SameFile
<1> QED BY <1>4, <1>5, <1>6 DEF FifoInv

\* Whoever finds the file unlocked finds no other before its unlock, and races with those
\* that have not closed it yet.
LEMMA LockKeeps ==
  ASSUME FifoInv, NEW c \in Consumers, Lock(c)
  PROVE  FifoInv'
<1>1. /\ stage[c] = "read" /\ taken[c] # <<>> /\ locked.file = {}
      /\ UNCHANGED <<newlines, buffer, fifo, file, taken, pending, received>>
      /\ locked' = [locked EXCEPT !.file = {c}]
      /\ raced' = raced \cup {x \in {c} : \E d \in Consumers : stage[d] = "close"}
  BY DEF Lock
<1>2. /\ stage' \in [Producers \cup Consumers ->
                       {"read", "write", "end", "edit", "unlock", "close"}]
      /\ stage'[c] = "edit" /\ \A d \in Consumers \ {c} : stage'[d] = stage[d]
  BY Moves DEF Lock
<1>3. /\ locked'.file = {c} /\ locked' \in [fifo : SUBSET Producers, file : SUBSET Consumers]
  BY <1>1 DEF FifoInv, FifoTypes
<1>4. FifoTypes'
  <2>1. raced' \subseteq Consumers /\ Piece' = Piece
    BY <1>1 DEF FifoInv, FifoTypes, Piece
  <2> QED BY <1>1, <1>2, <1>3, <2>1 DEF FifoInv, FifoTypes
<1>5. \A d \in Consumers : stage[d] \notin {"edit", "unlock"}
  BY <1>1 DEF FifoInv, Alone
<1>6. \A d \in Consumers : stage'[d] \in {"edit", "unlock"} => d = c
  BY <1>2, <1>5
<1>7. ASSUME raced' = {}, NEW d \in Consumers, stage'[d] \in {"edit", "unlock", "close"}
      PROVE  d = c
  <2>1. stage[d] # "close"
    BY <1>1, <1>7
  <2> QED BY <1>2, <1>5, <1>7, <2>1
<1>8. Alone'
  BY <1>3, <1>6, <1>7 DEF Alone
<1>9. Kept'
  BY <1>1, <1>2, SameFile
<1> QED BY <1>4, <1>8, <1>9 DEF FifoInv

LEMMA UnlockKeeps ==
  ASSUME FifoInv, NEW c \in Consumers, Unlock(c)
  PROVE  FifoInv'
<1>1. /\ stage[c] = "unlock"
      /\ UNCHANGED <<newlines, buffer, fifo, file, taken, pending, received, raced>>
      /\ locked' = [locked EXCEPT !.file = {}]
  BY DEF Unlock
<1>2. /\ stage' \in [Producers \cup Consumers ->
                       {"read", "write", "end", "edit", "unlock", "close"}]
      /\ stage'[c] = "close" /\ \A d \in Consumers \ {c} : stage'[d] = stage[d]
  BY Moves DEF Unlock
<1>3. locked' \in [fifo : SUBSET Producers, file : SUBSET Consumers]
  BY <1>1 DEF FifoInv, FifoTypes
<1>4. FifoTypes'
  <2>1. Piece' = Piece
    BY <1>1 DEF Piece
  <2> QED BY <1>1, <1>2, <1>3, <2>1 DEF FifoInv, FifoTypes
<1>5. \A d \in Consumers : stage[d] \in {"edit", "unlock"} => d = c
  <2>1. \A d \in Consumers : stage[d] \in {"edit", "unlock"} => locked.file = {d}
    BY DEF FifoInv, Alone
  <2>2. locked.file = {c}
    BY <1>1, <2>1
  <2> QED BY <2>1, <2>2
<1>6. \A d \in Consumers : stage'[d] \notin {"edit", "unlock"}
  BY <1>2, <1>5
<1>7. \A d \in Consumers : stage'[d] \in {"edit", "unlock", "close"} =>
        stage[d] \in {"edit", "unlock", "close"}
  BY <1>1, <1>2
<1>8. Alone'
  <2>1. ASSUME raced' = {}, NEW d \in Consumers, NEW b \in Consumers,
               {stage'[d], stage'[b]} \subseteq {"edit", "unlock", "close"}
        PROVE  d = b
    <3>1. stage'[d] \in {"edit", "unlock", "close"} /\ stage'[b] \in {"edit", "unlock", "close"}
      BY <2>1
    <3> QED BY <1>1, <1>7, <2>1, <3>1, OnlyOne
  <2> QED BY <1>6, <2>1 DEF Alone
<1>9. Kept'
  BY <1>1, <1>2, SameFile
<1> QED BY <1>4, <1>8, <1>9 DEF FifoInv

----------------------------------------------------------------------------
(* Insert, AddLines and CloseFile *)

LEMMA InHand ==
  ASSUME FifoInv, NEW c \in Consumers, taken[c] # <<>>
  PROVE  /\ piece(c).line \in Lines /\ piece(c).line \in Nat \ {0} /\ piece(c).line \in Cells
         /\ piece(c).text \in Seq(Cells)
         /\ newlines = {} => piece(c).text = <<piece(c).line>>
         /\ Tail(taken[c]) \in Seq(Piece)
         /\ file \in Seq(Cells) /\ Len(file) \in Nat
<1>1. taken[c] \in Seq(Piece) /\ file \in Seq(Cells)
  BY DEF FifoInv, FifoTypes
<1>2. Head(taken[c]) \in Piece /\ Tail(taken[c]) \in Seq(Piece)
  BY <1>1
<1>3. /\ piece(c).line \in Lines /\ piece(c).text \in Seq(Cells)
      /\ newlines = {} => piece(c).text = <<piece(c).line>>
  BY <1>2 DEF piece, Piece
<1>4. Len(file) \in Nat
  BY <1>1
<1> QED BY <1>1, <1>2, <1>3, <1>4, CellsDiffer

\* A consumer has put the piece in hand into its buffer, and maybe lines into the file.
LEMMA Edited ==
  ASSUME FifoInv, NEW c \in Consumers, stage[c] = "edit", taken[c] # <<>>, To(c, "unlock"),
         UNCHANGED <<newlines, buffer, locked, fifo, taken, received, raced>>,
         NEW w \in [offset : Nat, cells : Seq(Cells)],
         pending' = [pending EXCEPT ![c] = w], file' \in Seq(Cells),
         Len(file) <= Len(file'), w.offset <= Len(file'),
         Reliable' => /\ WellFormed(file', received)
                      /\ file' # <<>> => file'[Len(file')] = NL
                      /\ BeforeTheEnd(c)'
  PROVE  FifoInv'
<1>1. /\ stage' \in [Producers \cup Consumers ->
                       {"read", "write", "end", "edit", "unlock", "close"}]
      /\ stage'[c] = "unlock" /\ \A d \in Consumers \ {c} : stage'[d] = stage[d]
  BY Moves
<1>2. /\ pending' \in [Consumers -> [offset : Nat, cells : Seq(Cells)]]
      /\ pending'[c] = w /\ \A d \in Consumers \ {c} : pending'[d] = pending[d]
  BY DEF FifoInv, FifoTypes
<1>3. ASSUME NEW d \in Consumers PROVE pending'[d].offset <= Len(file')
  <2>1. CASE d = c
    BY <1>2, <2>1
  <2>2. CASE d # c
    <3>1. pending[d].offset \in Nat /\ pending[d].offset <= Len(file) /\ Len(file) \in Nat
      BY DEF FifoInv, FifoTypes
    <3>2. Len(file') \in Nat /\ pending'[d] = pending[d]
      BY <1>2, <2>2
    <3> QED BY <3>1, <3>2
  <2> QED BY <2>1, <2>2
<1>4. FifoTypes'
  <2>1. Piece' = Piece
    BY DEF Piece
  <2> QED BY <1>1, <1>2, <1>3, <2>1 DEF FifoInv, FifoTypes
<1>5. Alone'
  BY <1>1, SameHolder
<1>6. ASSUME Reliable', NEW d \in Consumers, stage'[d] \in {"unlock", "close"}
      PROVE  d = c
  <2>1. raced = {} /\ (d # c => stage[d] \in {"edit", "unlock", "close"})
    BY <1>1, <1>6 DEF Reliable
  <2> QED BY <2>1, OnlyOne
<1>7. Kept'
  <2>1. WellFormed(file, received)' <=> WellFormed(file', received)
    BY DEF WellFormed, LineAt, Ends
  <2> QED BY <1>6, <2>1 DEF Kept
<1> QED BY <1>4, <1>5, <1>7 DEF FifoInv

LEMMA InsertKeeps ==
  ASSUME FifoInv, NEW c \in Consumers, Insert(c)
  PROVE  FifoInv'
<1> DEFINE p == piece(c).line
           e == EndOf(file, p)
           n == Len(file)
           last == IF n < e + BUFF_SIZE - 1 THEN n ELSE e + BUFF_SIZE - 1
           b == SubSeq(file, e, last)
           w == [offset |-> e - 1, cells |-> piece(c).text \o b]
<1>1. /\ taken[c] # <<>> /\ To(c, "unlock")
      /\ UNCHANGED <<newlines, buffer, locked, fifo, taken, received, file, raced>>
      /\ stage[c] = "edit" /\ Cardinality(Ends(file)) >= p
      /\ pending' = [pending EXCEPT ![c] = w]
  BY DEF Insert, FifoInv, FifoTypes
<1>2. /\ p \in Lines /\ p \in Nat \ {0} /\ file \in Seq(Cells) /\ n \in Nat
      /\ piece(c).text \in Seq(Cells) /\ (newlines = {} => piece(c).text = <<p>>)
  BY <1>1, InHand
<1> HIDE DEF p
<1>3. /\ e \in Ends(file) /\ Cardinality({j \in Ends(file) : j <= e}) = p
      /\ e \in 1 .. n
  BY <1>1, <1>2, EndOfIt, EndsFound
<1> HIDE DEF e
<1>4. BUFF_SIZE \in Nat /\ last \in Int /\ last <= n
  BY <1>2, <1>3, FifoAssumption
<1>5. n <= BUFF_SIZE => last = n
  BY <1>2, <1>3, <1>4
<1>6. b \in Seq(Cells)
  <2>1. \A k \in e .. last : file[k] \in Cells
    BY <1>2, <1>3, <1>4
  <2> HIDE DEF last
  <2> QED BY <1>3, <1>4, <2>1, SubSeqProperties
<1>7. w \in [offset : Nat, cells : Seq(Cells)] /\ w.offset <= n
  <2> HIDE DEF b
  <2>1. piece(c).text \o b \in Seq(Cells)
    BY <1>2, <1>6, ConcatProperties
  <2>2. e - 1 \in Nat /\ e - 1 <= n
    BY <1>2, <1>3
  <2> QED BY <2>1, <2>2
<1>8. ASSUME Reliable'
      PROVE  /\ WellFormed(file', received)
             /\ file' # <<>> => file'[Len(file')] = NL
             /\ BeforeTheEnd(c)'
  <2>1. newlines = {} /\ n < BUFF_SIZE /\ Reliable
    BY <1>1, <1>8 DEF Reliable
  <2>2. w = [offset |-> e - 1, cells |-> <<p>> \o SubSeq(file, e, Len(file))]
    <3>1. piece(c).text = <<p>> /\ last = n
      BY <1>2, <1>4, <1>5, <2>1
    <3> HIDE DEF last
    <3> QED BY <3>1
  <2>3. pending'[c] = w /\ piece(c)' = piece(c)
    BY <1>1 DEF FifoInv, FifoTypes, piece
  <2>4. BeforeTheEnd(c)'
    <3> HIDE DEF w
    <3> QED BY <1>1, <1>3, <2>2, <2>3 DEF BeforeTheEnd, p
  <2> QED BY <1>1, <2>1, <2>4 DEF FifoInv, Kept
<1>9. file' \in Seq(Cells) /\ Len(file) <= Len(file') /\ w.offset <= Len(file')
  BY <1>1, <1>2, <1>7
<1> HIDE DEF w
<1> QED BY <1>1, <1>7, <1>8, <1>9, Edited

LEMMA AddLinesKeeps ==
  ASSUME FifoInv, NEW c \in Consumers, AddLines(c)
  PROVE  FifoInv'
<1> DEFINE p == piece(c).line
           n == p - Cardinality(Ends(file))
           g == file \o Empty(n)
           w == [offset |-> Len(g) - 1, cells |-> piece(c).text \o <<NL>>]
<1>1. /\ taken[c] # <<>> /\ To(c, "unlock")
      /\ UNCHANGED <<newlines, buffer, locked, fifo, taken, received, raced>>
      /\ stage[c] = "edit" /\ Cardinality(Ends(file)) < p
      /\ file' = g /\ pending' = [pending EXCEPT ![c] = w]
  BY DEF AddLines, FifoInv, FifoTypes, Empty
<1>2. /\ p \in Lines /\ p \in Nat \ {0} /\ p \in Cells /\ file \in Seq(Cells)
      /\ piece(c).text \in Seq(Cells) /\ (newlines = {} => piece(c).text = <<p>>)
      /\ Len(file) \in Nat /\ Cardinality(Ends(file)) \in Nat /\ received \in [Lines -> Nat]
  <2>1. received \in [Lines -> Nat] /\ file \in Seq(Cells)
    BY DEF FifoInv, FifoTypes
  <2>2. Cardinality(Ends(file)) \in Nat
    BY <2>1, EndsFound
  <2>3. taken[c] # <<>>
    BY <1>1
  <2> QED BY <2>1, <2>2, <2>3, InHand
<1> HIDE DEF p
<1>3. n \in Nat \ {0} /\ Cardinality(Ends(file)) + n = p
  <2>1. Cardinality(Ends(file)) < p
    BY <1>1
  <2> QED BY <1>2, <2>1
<1> HIDE DEF n
<1>4. g \in Seq(Cells) /\ Len(g) = Len(file) + 2 * n /\ g[Len(g)] = NL
  <2>1. /\ g \in Seq(Cells) /\ Len(g) = Len(file) + 2 * n
        /\ \A k \in 1 .. 2 * n : g[Len(file) + k] = IF k % 2 = 1 THEN Label ELSE NL
    BY <1>2, <1>3, EmptyLines
  <2>2. 2 * n \in 1 .. 2 * n /\ (2 * n) % 2 # 1
    BY <1>3
  <2> HIDE DEF g
  <2> QED BY <2>1, <2>2
<1>5. Len(g) \in Nat \ {0} /\ Len(file) <= Len(g)
  BY <1>2, <1>3, <1>4
<1> HIDE DEF g
<1>6. w \in [offset : Nat, cells : Seq(Cells)] /\ w.offset <= Len(g)
  <2>1. <<NL>> \in Seq(Cells)
    BY CellsDiffer
  <2>2. piece(c).text \o <<NL>> \in Seq(Cells)
    BY <1>2, <2>1, ConcatProperties
  <2> QED BY <1>5, <2>2
<1>7. ASSUME Reliable'
      PROVE  /\ newlines = {} /\ WellFormed(g, received)
             /\ Cardinality(Ends(g)) = p
  <2>1. newlines = {} /\ Reliable
    BY <1>1, <1>2, <1>5, <1>7, FifoAssumption DEF Reliable
  <2>2. WellFormed(file, received) /\ (file # <<>> => file[Len(file)] = NL)
    BY <2>1 DEF FifoInv, Kept
  <2>3. WellFormed(g, received) /\ Cardinality(Ends(g)) = Cardinality(Ends(file)) + n
    BY <1>2, <1>3, <2>2, LinesAdded DEF g
  <2> QED BY <1>3, <2>1, <2>3
<1>8. ASSUME newlines = {}, Cardinality(Ends(g)) = p PROVE BeforeTheEnd(c)'
  <2> DEFINE e == Len(g)
  <2>1. e \in Ends(g) /\ Ends(g) \subseteq 1 .. e
    BY <1>4, <1>5, EndsFound DEF Ends
  <2>2. {j \in Ends(g) : j <= e} = Ends(g)
    BY <1>5, <2>1
  <2>3. SubSeq(g, e, e) = <<NL>>
    <3>1. e \in 1 .. Len(g) /\ e \in e .. Len(g) /\ e + 1 \in Int /\ e \in Int /\ e < e + 1
      BY <1>5
    <3>2. SubSeq(g, e, e) = <<g[e]>> \o SubSeq(g, e + 1, e)
      BY <1>4, <3>1, SubSeqRecursiveFirst
    <3>3. SubSeq(g, e + 1, e) = <<>>
      BY <3>1, SubSeqEmpty
    <3>4. <<NL>> \in Seq(Cells)
      BY CellsDiffer
    <3> QED BY <1>4, <3>2, <3>3, <3>4, ConcatEmptySeq
  <2>4. pending'[c] = w /\ piece(c)' = piece(c) /\ file' = g
    BY <1>1 DEF FifoInv, FifoTypes, piece
  <2>5. w = [offset |-> e - 1, cells |-> <<p>> \o SubSeq(g, e, Len(g))]
    BY <1>2, <1>8, <2>3
  <2> HIDE DEF e, w
  <2> QED BY <1>8, <2>1, <2>2, <2>4, <2>5 DEF BeforeTheEnd, p
<1>9. file' \in Seq(Cells) /\ Len(file) <= Len(file') /\ w.offset <= Len(file')
  BY <1>1, <1>4, <1>5, <1>6
<1> HIDE DEF w
<1> QED BY <1>1, <1>4, <1>6, <1>7, <1>8, <1>9, Edited

LEMMA CloseFileKeeps ==
  ASSUME FifoInv, NEW c \in Consumers, CloseFile(c)
  PROVE  FifoInv'
<1> DEFINE p == piece(c).line
           g == Written(file, pending[c])
           r == [received EXCEPT ![p] = @ + 1]
<1>1. /\ stage[c] = "close" /\ taken[c] # <<>>
      /\ file' = g /\ UNCHANGED <<newlines, buffer, locked, fifo, raced>>
      /\ pending' = [pending EXCEPT ![c] = None]
      /\ received' = r
      /\ taken' = [taken EXCEPT ![c] = Tail(taken[c])]
  BY DEF CloseFile, FifoInv, FifoTypes
<1>2. /\ p \in Lines /\ Tail(taken[c]) \in Seq(Piece) /\ file \in Seq(Cells) /\ Len(file) \in Nat
  BY <1>1, InHand
<1>3. /\ pending[c] \in [offset : Nat, cells : Seq(Cells)] /\ pending[c].offset <= Len(file)
      /\ received \in [Lines -> Nat]
  BY DEF FifoInv, FifoTypes
<1>4. g \in Seq(Cells) /\ Len(file) <= Len(g) /\ Len(g) \in Nat
  BY <1>2, <1>3, WrittenIt
<1> HIDE DEF g
<1>5. r \in [Lines -> Nat]
  BY <1>2, <1>3
<1> HIDE DEF r, p
<1>6. /\ stage' \in [Producers \cup Consumers ->
                       {"read", "write", "end", "edit", "unlock", "close"}]
      /\ stage'[c] = "read" /\ \A d \in Consumers \ {c} : stage'[d] = stage[d]
  BY Moves DEF CloseFile
<1>7. /\ taken' \in [Consumers -> Seq(Piece)]
      /\ \A d \in Consumers \ {c} : taken'[d] = taken[d] /\ pending'[d] = pending[d]
  BY <1>1, <1>2 DEF FifoInv, FifoTypes
<1>8. /\ pending' \in [Consumers -> [offset : Nat, cells : Seq(Cells)]]
      /\ pending'[c].offset = 0
  <2>1. None \in [offset : Nat, cells : Seq(Cells)] /\ None.offset = 0
    BY DEF None
  <2> QED BY <1>1, <2>1 DEF FifoInv, FifoTypes
<1>9. ASSUME NEW d \in Consumers PROVE pending'[d].offset <= Len(file')
  <2>1. CASE d = c
    BY <1>1, <1>4, <1>8, <2>1
  <2>2. CASE d # c
    <3>1. pending[d].offset \in Nat /\ pending[d].offset <= Len(file)
      BY DEF FifoInv, FifoTypes
    <3> QED BY <1>1, <1>2, <1>4, <1>7, <2>2, <3>1
  <2> QED BY <2>1, <2>2
<1>10. FifoTypes'
  <2>1. Piece' = Piece
    BY <1>1 DEF Piece
  <2>2. /\ buffer' \in [Producers -> Seq(Piece)] /\ fifo' \in Seq(Piece) /\ file' \in Seq(Cells)
        /\ received' \in [Lines -> Nat] /\ raced' \subseteq Consumers
        /\ locked' \in [fifo : SUBSET Producers, file : SUBSET Consumers]
    BY <1>1, <1>4, <1>5 DEF FifoInv, FifoTypes
  <2>3. \A d \in Consumers : stage'[d] \in {"edit", "unlock", "close"} => taken'[d] # <<>>
    BY <1>6, <1>7 DEF FifoInv, FifoTypes
  <2> QED BY <1>6, <1>7, <1>8, <1>9, <2>1, <2>2, <2>3 DEF FifoTypes
<1>11. Alone'
  BY <1>1, <1>6, SameHolder
<1>12. ASSUME Reliable' PROVE Reliable
  BY <1>1, <1>2, <1>4, <1>12, FifoAssumption DEF Reliable
<1>13. ASSUME Reliable', NEW d \in Consumers PROVE stage'[d] \notin {"unlock", "close"}
  <2>1. raced = {} /\ (d # c => stage'[d] = stage[d])
    BY <1>6, <1>12, <1>13 DEF Reliable
  <2> QED BY <1>1, <1>6, <2>1, OnlyOne
<1>14. ASSUME Reliable' PROVE WellFormed(g, r) /\ g[Len(g)] = NL
  <2>1. /\ WellFormed(file, received) /\ BeforeTheEnd(c)
        /\ file # <<>> => file[Len(file)] = NL
    BY <1>1, <1>12, <1>14 DEF FifoInv, Kept
  <2>2. PICK e \in Ends(file) :
          /\ Cardinality({j \in Ends(file) : j <= e}) = p
          /\ pending[c] = [offset |-> e - 1, cells |-> <<p>> \o SubSeq(file, e, Len(file))]
    BY <2>1 DEF BeforeTheEnd, p
  <2>3. PutIn(file, g, e, p)
    BY <1>2, <2>2, WrittenBefore DEF g
  <2>4. file # <<>>
    BY DEF Ends
  <2> QED BY <1>3, <2>1, <2>2, <2>3, <2>4, PutInKeeps DEF r
<1>15. Kept'
  <2>1. WellFormed(file, received)' <=> WellFormed(g, r)
    BY <1>1 DEF WellFormed, LineAt, Ends
  <2> QED BY <1>1, <1>13, <1>14, <2>1 DEF Kept
<1> QED BY <1>10, <1>11, <1>15 DEF FifoInv

LEMMA FifoStep == FifoInv /\ [FifoNext]_fifoVars => FifoInv'
<1> SUFFICES ASSUME FifoInv, [FifoNext]_fifoVars PROVE FifoInv'
  OBVIOUS
<1>1. CASE UNCHANGED fifoVars
  <2>1. /\ UNCHANGED <<newlines, buffer, locked, fifo, file, stage, taken, pending>>
        /\ UNCHANGED <<received, raced>>
    BY <1>1 DEF fifoVars
  <2>2. Piece' = Piece
    BY <2>1 DEF Piece
  <2>3. FifoTypes'
    BY <2>1, <2>2 DEF FifoInv, FifoTypes
  <2> QED BY <2>1, <2>3, SameFile, SameHolder DEF FifoInv
<1>2. ASSUME NEW p \in Producers, ReadPiece(p) \/ WritePiece(p) \/ CloseFifo(p)
      PROVE  FifoInv'
  BY <1>2, ProducerKeeps
<1>3. ASSUME NEW c \in Consumers,
             Fill(c) \/ Lock(c) \/ Insert(c) \/ AddLines(c) \/ Unlock(c) \/ CloseFile(c)
      PROVE  FifoInv'
  BY <1>3, FillKeeps, LockKeeps, InsertKeeps, AddLinesKeeps, UnlockKeeps, CloseFileKeeps
<1> QED BY <1>1, <1>2, <1>3 DEF FifoNext

\* The invariant of any number of producers and consumers (producer.c, consumer.c): as
\* long as nobody locks the file that another has to close, one consumer at most is at it.
THEOREM FifoInvariant == FifoSpec => []FifoInv
BY FifoInitInv, FifoStep, PTL DEF FifoSpec

\* With pieces without ends of lines, a file that fits into a buffer, and each consumer at
\* the file only when the one before it has closed it, every piece is in its producer's
\* line, once, for any lines up to 99 and any number of producers and consumers.
THEOREM FifoLines == FifoSpec => []EveryPieceInItsLine
<1>1. FifoInv => EveryPieceInItsLine
  BY DEF FifoInv, Kept, EveryPieceInItsLine
<1> QED BY <1>1, FifoInvariant, PTL

----------------------------------------------------------------------------
(* The boards of both players *)

LEMMA RowLinesIt == RowLines = {{0, 1, 2}, {3, 4, 5}, {6, 7, 8}}
<1>1. \A r \in 0 .. 2 : {r * 3 + c : c \in 0 .. 2} = {r * 3, r * 3 + 1, r * 3 + 2}
  <2> TAKE r \in 0 .. 2
  <2>1. \A c \in 0 .. 2 : c = 0 \/ c = 1 \/ c = 2
    OBVIOUS
  <2>2. \A c \in 0 .. 2 : r * 3 + c \in {r * 3, r * 3 + 1, r * 3 + 2}
    BY <2>1
  <2> QED BY <2>2
<1>2. /\ {0 * 3 + c : c \in 0 .. 2} = {0, 1, 2}
      /\ {1 * 3 + c : c \in 0 .. 2} = {3, 4, 5}
      /\ {2 * 3 + c : c \in 0 .. 2} = {6, 7, 8}
  BY <1>1
<1>3. 0 .. 2 = {0, 1, 2}
  OBVIOUS
<1> QED BY <1>2, <1>3 DEF RowLines

LEMMA ColumnLinesIt == ColumnLines = {{0, 3, 6}, {1, 4, 7}, {2, 5, 8}}
<1>1. \A c \in 0 .. 2 : {r * 3 + c : r \in 0 .. 2} = {c, 3 + c, 6 + c}
  <2> TAKE c \in 0 .. 2
  <2>1. \A r \in 0 .. 2 : r = 0 \/ r = 1 \/ r = 2
    OBVIOUS
  <2>2. \A r \in 0 .. 2 : r * 3 + c \in {c, 3 + c, 6 + c}
    BY <2>1
  <2>3. 0 * 3 + c = c /\ 1 * 3 + c = 3 + c /\ 2 * 3 + c = 6 + c
    OBVIOUS
  <2> QED BY <2>2, <2>3
<1>2. /\ {r * 3 + 0 : r \in 0 .. 2} = {0, 3, 6}
      /\ {r * 3 + 1 : r \in 0 .. 2} = {1, 4, 7}
      /\ {r * 3 + 2 : r \in 0 .. 2} = {2, 5, 8}
  BY <1>1
<1>3. 0 .. 2 = {0, 1, 2}
  OBVIOUS
<1> QED BY <1>2, <1>3 DEF ColumnLines

LEMMA CrossesIt == Crosses = {{0, 4, 8}, {2, 4, 6}}
<1>1. {f \in 0 .. 8 : f % 4 = 0} = {0, 4, 8}
  OBVIOUS
<1>2. {f \in 2 .. 6 : f % 2 = 0} = {2, 4, 6}
  OBVIOUS
<1> QED BY <1>1, <1>2 DEF Crosses

\* Three fields of s in a row, a column or a cross.
ThreeOf(b, s) ==
    \/ b[0] = s /\ b[1] = s /\ b[2] = s
    \/ b[3] = s /\ b[4] = s /\ b[5] = s
    \/ b[6] = s /\ b[7] = s /\ b[8] = s
    \/ b[0] = s /\ b[3] = s /\ b[6] = s
    \/ b[1] = s /\ b[4] = s /\ b[7] = s
    \/ b[2] = s /\ b[5] = s /\ b[8] = s
    \/ b[0] = s /\ b[4] = s /\ b[8] = s
    \/ b[2] = s /\ b[4] = s /\ b[6] = s

LEMMA LinesOf ==
  ASSUME NEW b, NEW s
  PROVE  (\E line \in RowLines \cup ColumnLines \cup Crosses : \A f \in line : b[f] = s)
           <=> ThreeOf(b, s)
BY RowLinesIt, ColumnLinesIt, CrossesIt DEF ThreeOf

\* The fields of a line are those that add up to fifteen.
LEMMA MagicLines ==
  ASSUME NEW f \in Fields, NEW g \in Fields, NEW h \in Fields, f < g, g < h,
         Magic[f + 1] + Magic[g + 1] + Magic[h + 1] = 15
  PROVE  <<f, g, h>> \in {<<0, 1, 2>>, <<3, 4, 5>>, <<6, 7, 8>>, <<0, 3, 6>>, <<1, 4, 7>>,
                          <<2, 5, 8>>, <<0, 4, 8>>, <<2, 4, 6>>}
<1>1. /\ Magic[1] = 2 /\ Magic[2] = 7 /\ Magic[3] = 6 /\ Magic[4] = 9 /\ Magic[5] = 5
      /\ Magic[6] = 1 /\ Magic[7] = 4 /\ Magic[8] = 3 /\ Magic[9] = 8
  BY DEF Magic
<1>2. \A k \in Fields : k \in {0, 1, 2, 3, 4, 5, 6, 7, 8}
  BY DEF Fields
<1>3. CASE f = 0
  BY <1>1, <1>2, <1>3
<1>4. CASE f = 1
  BY <1>1, <1>2, <1>4
<1>5. CASE f = 2
  BY <1>1, <1>2, <1>5
<1>6. CASE f = 3
  BY <1>1, <1>2, <1>6
<1>7. CASE f \in {4, 5, 6, 7, 8}
  BY <1>1, <1>2, <1>7
<1> QED BY <1>2, <1>3, <1>4, <1>5, <1>6, <1>7

LEMMA WinsIt ==
  ASSUME NEW b, NEW s
  PROVE  Wins(b, s) <=> ThreeOf(b, s)
<1>1. ASSUME Wins(b, s) PROVE ThreeOf(b, s)
  <2>1. PICK f, g, h \in {x \in Fields : b[x] = s} :
          f < g /\ g < h /\ Magic[f + 1] + Magic[g + 1] + Magic[h + 1] = 15
    BY <1>1 DEF Wins
  <2>2. <<f, g, h>> \in {<<0, 1, 2>>, <<3, 4, 5>>, <<6, 7, 8>>, <<0, 3, 6>>, <<1, 4, 7>>,
                          <<2, 5, 8>>, <<0, 4, 8>>, <<2, 4, 6>>}
    BY <2>1, MagicLines
  <2>3. b[f] = s /\ b[g] = s /\ b[h] = s
    BY <2>1
  <2> QED BY <2>2, <2>3 DEF ThreeOf
<1>2. ASSUME NEW f \in Fields, NEW g \in Fields, NEW h \in Fields, f < g, g < h,
             Magic[f + 1] + Magic[g + 1] + Magic[h + 1] = 15,
             b[f] = s /\ b[g] = s /\ b[h] = s
      PROVE  Wins(b, s)
  BY <1>2 DEF Wins
<1>3. /\ Magic[1] = 2 /\ Magic[2] = 7 /\ Magic[3] = 6 /\ Magic[4] = 9 /\ Magic[5] = 5
      /\ Magic[6] = 1 /\ Magic[7] = 4 /\ Magic[8] = 3 /\ Magic[9] = 8
  BY DEF Magic
<1>4. ASSUME b[0] = s /\ b[1] = s /\ b[2] = s PROVE Wins(b, s)
  BY <1>2, <1>3, <1>4 DEF Fields
<1>5. ASSUME b[3] = s /\ b[4] = s /\ b[5] = s PROVE Wins(b, s)
  BY <1>2, <1>3, <1>5 DEF Fields
<1>6. ASSUME b[6] = s /\ b[7] = s /\ b[8] = s PROVE Wins(b, s)
  BY <1>2, <1>3, <1>6 DEF Fields
<1>7. ASSUME b[0] = s /\ b[3] = s /\ b[6] = s PROVE Wins(b, s)
  BY <1>2, <1>3, <1>7 DEF Fields
<1>8. ASSUME b[1] = s /\ b[4] = s /\ b[7] = s PROVE Wins(b, s)
  BY <1>2, <1>3, <1>8 DEF Fields
<1>9. ASSUME b[2] = s /\ b[5] = s /\ b[8] = s PROVE Wins(b, s)
  BY <1>2, <1>3, <1>9 DEF Fields
<1>10. ASSUME b[0] = s /\ b[4] = s /\ b[8] = s PROVE Wins(b, s)
  BY <1>2, <1>3, <1>10 DEF Fields
<1>11. ASSUME b[2] = s /\ b[4] = s /\ b[6] = s PROVE Wins(b, s)
  BY <1>2, <1>3, <1>11 DEF Fields
<1> QED BY <1>1, <1>4, <1>5, <1>6, <1>7, <1>8, <1>9, <1>10, <1>11 DEF ThreeOf

LEMMA EndIt ==
  ASSUME NEW b, NEW s
  PROVE  check_end(b, s) = 0 <=> (~Wins(b, s) /\ \E f \in Fields : b[f] = "EMPTY")
BY LinesOf, WinsIt DEF check_end

\* The player who moves, and the one who is told of the move, looks only for the lines
\* of the mover: in a game that was running the other has none.
LEMMA OverAfter ==
  ASSUME NEW b \in [Fields -> Signs \cup {"EMPTY"}], NEW s \in Signs, NEW f \in Fields,
         ~Over(b), b[f] = "EMPTY"
  PROVE  check_end([b EXCEPT ![f] = s], s) = 0 <=> ~Over([b EXCEPT ![f] = s])
<1> DEFINE a == [b EXCEPT ![f] = s]
<1>1. ASSUME NEW o \in Signs, o # s
      PROVE  ~Wins(a, o)
  <2>1. ~Wins(b, o)
    BY DEF Over, Signs
  <2>2. \A x \in Fields : a[x] = o <=> b[x] = o
    BY <1>1 DEF Signs
  <2>3. {x \in Fields : a[x] = o} = {x \in Fields : b[x] = o}
    BY <2>2
  <2> HIDE DEF a
  <2> QED BY <2>1, <2>3 DEF Wins
<1> HIDE DEF a
<1>2. Over(a) <=> (Wins(a, s) \/ \A x \in Fields : a[x] # "EMPTY")
  BY <1>1 DEF Over, Signs
<1>3. check_end(a, s) = 0 <=> ~Over(a)
  BY <1>2, EndIt
<1> QED BY <1>3 DEF a

LEMMA OpenBoard == ~Over(create_new_board)
<1>1. \A f \in Fields : create_new_board[f] = "EMPTY"
  BY DEF create_new_board
<1>2. 0 \in Fields
  BY DEF Fields
<1>3. \A s \in Signs : ~Wins(create_new_board, s)
  BY <1>1 DEF Wins, Signs
<1> QED BY <1>1, <1>2, <1>3 DEF Over, Signs

LEMMA BoardInitInv == BoardInit => BoardInv
<1> SUFFICES ASSUME BoardInit PROVE BoardInv
  OBVIOUS
<1>1. create_new_board \in [Fields -> Signs \cup {"EMPTY"}]
  BY DEF create_new_board
<1>2. BoardTypeOK
  BY <1>1 DEF BoardInit, BoardTypeOK, Signs
<1>3. fields["X"] = create_new_board /\ fields["O"] = create_new_board
  BY DEF BoardInit, Signs
<1>4. turn["O"] = "MY_TURN" /\ turn["X"] = "OPPONENTS_TURN" /\ Signs = {"O", "X"}
  BY DEF BoardInit, Signs
<1>5. {turn[s] : s \in Signs} = {"MY_TURN", "OPPONENTS_TURN"}
  BY <1>4
<1>6. EndsTogether
  BY <1>3, <1>4, <1>5, OpenBoard DEF EndsTogether
<1>7. \A s, f : sent # <<s, f>>
  BY DEF BoardInit
<1> QED BY <1>2, <1>6, <1>7 DEF BoardInv

LEMMA Opposites ==
  ASSUME NEW s \in Signs
  PROVE  /\ get_opposite_sign(s) \in Signs /\ get_opposite_sign(s) # s
         /\ get_opposite_sign(get_opposite_sign(s)) = s
         /\ Signs = {s, get_opposite_sign(s)}
BY DEF Signs, get_opposite_sign

LEMMA MoveKeeps ==
  ASSUME BoardInv, NEW s \in Signs, MyTurn(s)
  PROVE  BoardInv'
<1> DEFINE o == get_opposite_sign(s)
<1>1. o \in Signs /\ o # s /\ Signs = {s, o}
  BY Opposites
<1> HIDE DEF o
<1>2. PICK option \in 1 .. 9 :
        LET f == option - 1
            b == [fields[s] EXCEPT ![f] = s]
        IN /\ check_move(fields[s], f)
           /\ fields' = [fields EXCEPT ![s] = b]
           /\ sent' = <<s, f>>
           /\ turn' = [turn EXCEPT ![s] = After(b, s, "OPPONENTS_TURN")]
  BY DEF MyTurn
<1>3. PICK f \in Fields : f = option - 1
  BY DEF Fields
<1>4. PICK b : b = [fields[s] EXCEPT ![f] = s]
  OBVIOUS
<1>5. /\ turn[s] = "MY_TURN" /\ fields[s][f] = "EMPTY" /\ sent' = <<s, f>>
      /\ fields' = [fields EXCEPT ![s] = b]
      /\ turn' = [turn EXCEPT ![s] = After(b, s, "OPPONENTS_TURN")]
  BY <1>2, <1>3, <1>4 DEF MyTurn, check_move
<1>6. /\ fields \in [Signs -> [Fields -> Signs \cup {"EMPTY"}]]
      /\ turn \in [Signs -> {"MY_TURN", "OPPONENTS_TURN", "GAME_OVER"}]
      /\ sent \in {<<>>} \cup (Signs \X Fields)
  BY DEF BoardInv, BoardTypeOK
<1>7. sent = <<>>
  <2>1. SUFFICES ASSUME NEW t \in Signs, NEW g \in Fields, sent = <<t, g>> PROVE FALSE
    BY <1>6
  <2>2. /\ turn[get_opposite_sign(t)] = "OPPONENTS_TURN"
        /\ turn[t] \in {"GAME_OVER", "OPPONENTS_TURN"}
    BY <2>1 DEF BoardInv
  <2>3. s \in {t, get_opposite_sign(t)}
    BY Opposites
  <2> QED BY <1>5, <2>2, <2>3
<1>8. /\ fields[s] = fields[o] /\ ~Over(fields[s]) /\ turn[o] = "OPPONENTS_TURN"
  <2>1. /\ fields["X"] = fields["O"]
        /\ \A t \in Signs : turn[t] = "GAME_OVER" <=> Over(fields["O"])
        /\ ~Over(fields["O"]) => {turn[t] : t \in Signs} = {"MY_TURN", "OPPONENTS_TURN"}
    BY <1>7 DEF BoardInv, EndsTogether
  <2>2. fields[s] = fields["O"] /\ fields[o] = fields["O"]
    BY <1>1, <2>1 DEF Signs
  <2>3. ~Over(fields["O"])
    BY <1>5, <2>1
  <2>4. "OPPONENTS_TURN" \in {turn[t] : t \in Signs}
    BY <2>1, <2>3
  <2>5. PICK t \in Signs : turn[t] = "OPPONENTS_TURN"
    BY <2>4
  <2>6. t = o
    BY <1>1, <1>5, <2>5
  <2> QED BY <2>2, <2>3, <2>5, <2>6
<1>9. check_end(b, s) = 0 <=> ~Over(b)
  BY <1>4, <1>5, <1>6, <1>8, OverAfter
<1>10. After(b, s, "OPPONENTS_TURN") = IF Over(b) THEN "GAME_OVER" ELSE "OPPONENTS_TURN"
  BY <1>9 DEF After
<1>11. b \in [Fields -> Signs \cup {"EMPTY"}]
  BY <1>4, <1>6
<1>12. /\ fields'[s] = b /\ fields'[o] = fields[o] /\ turn'[o] = turn[o]
       /\ turn'[s] = IF Over(b) THEN "GAME_OVER" ELSE "OPPONENTS_TURN"
  BY <1>1, <1>5, <1>6, <1>10
<1>13. BoardTypeOK'
  <2>1. fields' \in [Signs -> [Fields -> Signs \cup {"EMPTY"}]]
    BY <1>5, <1>6, <1>11
  <2>2. turn' \in [Signs -> {"MY_TURN", "OPPONENTS_TURN", "GAME_OVER"}]
    BY <1>5, <1>6, <1>10
  <2>3. sent' \in Signs \X Fields
    BY <1>5
  <2> QED BY <2>1, <2>2, <2>3 DEF BoardTypeOK
<1>14. sent' # <<>>
  BY <1>5
<1>15. EndsTogether'
  BY <1>14 DEF EndsTogether
<1>16. ASSUME NEW t \in Signs, NEW g \in Fields, (sent = <<t, g>>)'
       PROVE  t = s /\ g = f /\ get_opposite_sign(t) = o
  BY <1>5, <1>16 DEF o
<1>17. b = [fields[o] EXCEPT ![f] = s] /\ fields[o][f] = "EMPTY"
  BY <1>4, <1>5, <1>8
<1>18. /\ ~Over(fields'[o]) /\ turn'[o] = "OPPONENTS_TURN"
       /\ fields'[s] = [fields'[o] EXCEPT ![f] = s] /\ fields'[o][f] = "EMPTY"
       /\ turn'[s] = IF Over(fields'[s]) THEN "GAME_OVER" ELSE "OPPONENTS_TURN"
  BY <1>8, <1>12, <1>17
<1>19. \A t \in Signs, g \in Fields :
         sent' = <<t, g>> =>
           /\ ~Over(fields'[get_opposite_sign(t)])
           /\ turn'[get_opposite_sign(t)] = "OPPONENTS_TURN"
           /\ fields'[t] = [fields'[get_opposite_sign(t)] EXCEPT ![g] = t]
           /\ fields'[get_opposite_sign(t)][g] = "EMPTY"
           /\ turn'[t] = IF Over(fields'[t]) THEN "GAME_OVER" ELSE "OPPONENTS_TURN"
  BY <1>16, <1>18
<1> QED BY <1>13, <1>15, <1>19 DEF BoardInv

LEMMA MovedKeeps ==
  ASSUME BoardInv, NEW s \in Signs, OpponentsTurnFinished(s)
  PROVE  BoardInv'
<1> DEFINE o == get_opposite_sign(s)
<1>1. o \in Signs /\ o # s /\ Signs = {s, o} /\ get_opposite_sign(o) = s
  BY Opposites
<1>2. PICK b : b = [fields[s] EXCEPT ![sent[2]] = o]
  OBVIOUS
<1>3. /\ turn[s] = "OPPONENTS_TURN" /\ sent # <<>> /\ sent[1] # s /\ sent' = <<>>
      /\ fields' = [fields EXCEPT ![s] = b]
      /\ turn' = [turn EXCEPT ![s] = After(b, o, "MY_TURN")]
  BY <1>2 DEF OpponentsTurnFinished
<1> HIDE DEF o
<1>4. /\ fields \in [Signs -> [Fields -> Signs \cup {"EMPTY"}]]
      /\ turn \in [Signs -> {"MY_TURN", "OPPONENTS_TURN", "GAME_OVER"}]
      /\ sent \in {<<>>} \cup (Signs \X Fields)
  BY DEF BoardInv, BoardTypeOK
<1>5. PICK f \in Fields : sent = <<o, f>>
  BY <1>1, <1>3, <1>4
<1>6. /\ ~Over(fields[s]) /\ fields[o] = [fields[s] EXCEPT ![f] = o]
      /\ fields[s][f] = "EMPTY"
      /\ turn[o] = IF Over(fields[o]) THEN "GAME_OVER" ELSE "OPPONENTS_TURN"
  BY <1>1, <1>5 DEF BoardInv
<1>7. b = fields[o] /\ b \in [Fields -> Signs \cup {"EMPTY"}]
  BY <1>1, <1>2, <1>4, <1>5, <1>6
<1>8. check_end(b, o) = 0 <=> ~Over(b)
  <2>1. fields[s] \in [Fields -> Signs \cup {"EMPTY"}] /\ b = [fields[s] EXCEPT ![f] = o]
    BY <1>4, <1>6, <1>7
  <2> QED BY <1>1, <1>6, <2>1, OverAfter
<1>9. After(b, o, "MY_TURN") = IF Over(b) THEN "GAME_OVER" ELSE "MY_TURN"
  BY <1>8 DEF After
<1>10. /\ fields'[s] = b /\ fields'[o] = b
       /\ turn'[s] = IF Over(b) THEN "GAME_OVER" ELSE "MY_TURN"
       /\ turn'[o] = IF Over(b) THEN "GAME_OVER" ELSE "OPPONENTS_TURN"
  BY <1>1, <1>3, <1>4, <1>6, <1>7, <1>9
<1>11. BoardTypeOK'
  <2>1. fields' \in [Signs -> [Fields -> Signs \cup {"EMPTY"}]]
    BY <1>3, <1>4, <1>7
  <2>2. turn' \in [Signs -> {"MY_TURN", "OPPONENTS_TURN", "GAME_OVER"}]
    BY <1>3, <1>4, <1>9
  <2> QED BY <1>3, <2>1, <2>2 DEF BoardTypeOK
<1>12. fields'["X"] = b /\ fields'["O"] = b
  BY <1>1, <1>10 DEF Signs
<1>13. \A t \in Signs : turn'[t] = "GAME_OVER" <=> Over(b)
  BY <1>1, <1>10
<1>14. ASSUME ~Over(b)
       PROVE  {turn'[t] : t \in Signs} = {"MY_TURN", "OPPONENTS_TURN"}
  BY <1>1, <1>10, <1>14
<1>15. EndsTogether'
  BY <1>12, <1>13, <1>14 DEF EndsTogether
<1>16. \A t, g : sent' # <<t, g>>
  BY <1>3
<1> QED BY <1>11, <1>15, <1>16 DEF BoardInv

LEMMA BoardStep == BoardInv /\ [BoardNext]_boardVars => BoardInv'
<1> SUFFICES ASSUME BoardInv, [BoardNext]_boardVars PROVE BoardInv'
  OBVIOUS
<1>1. CASE UNCHANGED boardVars
  BY <1>1 DEF boardVars, BoardInv, BoardTypeOK, EndsTogether
<1>2. CASE BoardNext
  BY <1>2, MoveKeeps, MovedKeeps DEF BoardNext
<1> QED BY <1>1, <1>2

\* The invariant of the two boards (cw10, client.c).
THEOREM BoardInvariant == BoardSpec => []BoardInv
BY BoardInitInv, BoardStep, PTL DEF BoardSpec

\* Type correctness of the boards: every move that is marked is in a field.
THEOREM BoardTypeCorrect == BoardSpec => []BoardTypeOK
<1>1. BoardInv => BoardTypeOK
  BY DEF BoardInv
<1> QED BY <1>1, BoardInvariant, PTL

\* Between two moves the players see the same board and agree on whether the game is
\* over, though each looks only for the lines of the player who moved last.
THEOREM PlayersAgree == BoardSpec => []EndsTogether
<1>1. BoardInv => EndsTogether
  BY DEF BoardInv
<1> QED BY <1>1, BoardInvariant, PTL
=============================================================================
