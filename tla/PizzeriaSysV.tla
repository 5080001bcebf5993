---------------------------- MODULE PizzeriaSysV ----------------------------
(***************************************************************************)
(* cw07/zad1: the pizzeria with one System V set of two semaphores, both   *)
(* first 1, and System V shared memory.  SIGINT to main stops everything:  *)
(* every process removes what it uses, and removal takes effect at once,   *)
(* for processes that are still working too.                               *)
(***************************************************************************)
EXTENDS Kitchen

CONSTANT Empty   \* what PizzaFlow has in a free slot

ASSUME EmptyAssumption == Empty \notin Cooks \cup Types

Init ==
    /\ pizza_in_oven = [s \in Slots(OVEN_SIZE) |-> 0] /\ oven_type = [s \in Slots(OVEN_SIZE) |-> 0]
    /\ pizza_on_table = [s \in Slots(TABLE_SIZE) |-> 0] /\ table_type = [s \in Slots(TABLE_SIZE) |-> 0]
    /\ sem = [s \in {"oven", "table"} |-> 1]
    /\ removed = {}
    /\ pc = [p \in Procs |-> "unforked"]
    /\ idx = [p \in Procs |-> 0]
    /\ place_in_oven = [c \in Cooks |-> 0]
    /\ pizza_TYPE = [c \in Cooks |-> 0]
    /\ pizza_type \in [Deliverers -> Types]   \* not initialised in the code
    /\ pending = {}
    /\ main = "running"

\* handler() of cook.c and of deliverer.c.  The semaphores are removed, so SEM_UNDO
\* has nothing left to undo.
Handler(p) == Exit(p, Uses(p))

Shutdown == MainKillsAll \/ MainRemoves \/ \E p \in Procs : Handler(p)

\* The pizzeria at work, nobody having pressed Ctrl-C.
Spec == Init /\ [][Opening \/ Work]_vars

\* The same with Ctrl-C at any time.
Next == Opening \/ Work \/ Shutdown \/ (Stopped /\ UNCHANGED vars)

\* The scheduler runs every process, and main's
\* handler once it has begun.  The semaphores serve waiting processes in turn, so a
\* wait that can succeed again and again does: the steps of work are strongly fair.
FairSpec ==
    /\ Init
    /\ [][Next]_vars
    /\ WF_vars(MainRemoves)
    /\ \A p \in Procs : WF_vars(Fork(p) \/ Start(p)) /\ WF_vars(Handler(p))
    /\ \A c \in Cooks : SF_vars(CookStep(c))
    /\ \A d \in Deliverers : SF_vars(DelivererStep(d))

----------------------------------------------------------------------------
(* The inductive invariant of the pizzeria at work *)

\* Nobody has pressed Ctrl-C.
WorkInv ==
    /\ removed = {} /\ pending = {} /\ main = "running"
    /\ \A p \in Procs : pc[p] # "dead"

\* Whoever is between wait and post of a semaphore has taken its only unit.
SemInv ==
    /\ sem["oven"] \in {0, 1} /\ sem["table"] \in {0, 1}
    /\ \A p \in Procs :
         /\ InOven(p)  => sem["oven"] = 0
         /\ InTable(p) => sem["table"] = 0

\* The slot whose type is about to be written is marked.
MarkedFirst == \A c \in Cooks : pc[c] = "type_table" => pizza_on_table[idx[c]] = 1

IInv == TypeOK /\ WorkInv /\ SemInv /\ Exclusive /\ FreePlace /\ MarkedFirst /\ OvenOwnership

----------------------------------------------------------------------------
\* What the memory says, read as PizzaFlow does.  A pizza is on the table from
\* the write of its type on, and with a deliverer from the clearing of its slot on.
Stage(c) ==
    CASE pc[c] \in {"wait_oven", "scan_oven", "mark_oven"} -> "raw"
      [] InTheOven(c) -> "baking"
      [] pc[c] \in {"post_oven_out", "carry", "wait_table", "scan_table",
                    "mark_table", "type_table"} -> "baked"
      [] OTHER -> "idle"
Owner(s) ==
    IF pizza_in_oven[s] = 1 /\ \E c \in Cooks : InTheOven(c) /\ place_in_oven[c] = s
    THEN CHOOSE c \in Cooks : InTheOven(c) /\ place_in_oven[c] = s
    ELSE Empty
OnTable(s) ==
    IF pizza_on_table[s] = 0 \/ \E c \in Cooks : pc[c] = "type_table" /\ idx[c] = s
    THEN Empty ELSE table_type[s]
Carried(d) == IF pc[d] = "read_type" THEN table_type[idx[d]] ELSE pizza_type[d]

Flow == INSTANCE PizzaFlow WITH
          OvenSlots <- Slots(OVEN_SIZE), TableSlots <- Slots(TABLE_SIZE),
          oven    <- [s \in Slots(OVEN_SIZE) |-> Owner(s)],
          table   <- [s \in Slots(TABLE_SIZE) |-> OnTable(s)],
          stage   <- [c \in Cooks |-> Stage(c)],
          hand    <- pizza_TYPE,
          carried <- [d \in Deliverers |-> Carried(d)]

\* The scans and single writes under the semaphores amount to atomic operations on
\* whole pizzas: none is lost, overwritten or delivered twice.
ImplementsFlow == Flow!Spec

\* As long as nobody presses Ctrl-C pizzas keep reaching the customers: no full
\* table or oven stops the pizzeria.
KeepsDelivering ==
    [](main = "running") => []<>(\E d \in Deliverers : pc[d] = "read_type")
=============================================================================
