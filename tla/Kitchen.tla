------------------------------ MODULE Kitchen ------------------------------
(***************************************************************************)
(* The processes of the pizzeria, cw07: cooks put pizzas into the slots of *)
(* an oven, take them out and lay them on the slots of a table; deliverers *)
(* take them from there.  Oven and table are shared memory; each has one   *)
(* semaphore, that a process holds while it scans and changes the slots.   *)
(* The program exists twice, with System V IPC (zad1) and with POSIX       *)
(* semaphores (zad2).  The work of the processes, here, is the same; what  *)
(* SYSV tells apart is the first value of the semaphores and what removing *)
(* an object does to a process that already uses it.  PizzeriaSysV and     *)
(* PizzeriaPosix add how each program starts and stops.                    *)
(*                                                                         *)
(* A step is one semaphore operation or one access to shared memory.       *)
(***************************************************************************)
EXTENDS Integers, FiniteSets

CONSTANTS Cooks, Deliverers,
          OVEN_SIZE, TABLE_SIZE,
          Types,    \* what rand() % 10 picks from, and what is in a fresh slot
          SYSV      \* TRUE for zad1, FALSE for zad2

ASSUME KitchenAssumption ==
    /\ Cooks \cap Deliverers = {}
    /\ OVEN_SIZE \in Nat \ {0} /\ TABLE_SIZE \in Nat \ {0}
    /\ 0 \in Types
    /\ SYSV \in BOOLEAN

Procs      == Cooks \cup Deliverers
Slots(n)   == 0 .. n - 1   \* of an oven or a table of size n
Objects    == {"sem", "oven", "table"}

VARIABLES
    pizza_in_oven, oven_type,     \* struct oven: 0 or 1, and the type, of each slot
    pizza_on_table, table_type,   \* struct table
    sem,             \* the values of the two semaphores
    removed,         \* the shared objects that a handler has removed
    pc,              \* where each process is
    idx,             \* i of each process's scan; 0 outside of one
    place_in_oven, pizza_TYPE,    \* of each cook
    pizza_type,      \* of each deliverer
    pending,         \* the processes SIGINT was sent to and has not stopped yet
    main             \* main's own progress: "running", "stopping" or "exited"

ovenVars  == <<pizza_in_oven, oven_type, place_in_oven>>
tableVars == <<pizza_on_table, table_type, pizza_type>>
vars == <<ovenVars, tableVars, sem, removed, pc, idx, pizza_TYPE, pending, main>>
control   == <<pending, main>>

CookLabels ==
    {"unforked", "start", "prepare", "wait_oven", "scan_oven", "mark_oven", "type_oven",
     "post_oven", "baking", "wait_oven_out", "clear_oven", "post_oven_out",
     "carry", "wait_table", "scan_table", "mark_table", "type_table",
     "post_table", "dead"}
DelivererLabels ==
    {"unforked", "start", "attach", "wait_table", "scan_table", "clear_table",
     "read_type", "post_table", "dead"}

----------------------------------------------------------------------------
To(p, l) == pc' = [pc EXCEPT ![p] = l]

\* Mutant of Wait: the semop does not wait (IPC_NOWAIT).
M_NoWait(s) == sem' = IF sem[s] > 0 THEN [sem EXCEPT ![s] = @ - 1] ELSE sem

\* A System V semop on a removed set fails; its result is not looked at.
Wait(s) == IF SYSV /\ "sem" \in removed THEN UNCHANGED sem
           ELSE sem[s] > 0 /\ sem' = [sem EXCEPT ![s] = @ - 1]
Post(s) == sem' = IF SYSV /\ "sem" \in removed THEN sem ELSE [sem EXCEPT ![s] = @ + 1]

\* shmat of a removed segment works only while some process is attached to it;
\* otherwise the unchecked -1 is used as a pointer and the process is killed.
Attach(p, o, l) == To(p, l) \/ (SYSV /\ o \in removed /\ To(p, "dead"))

----------------------------------------------------------------------------
(* push_into_the_oven *)

Prepare(c) ==
    /\ pc[c] = "prepare"
    /\ \E t \in Types : pizza_TYPE' = [pizza_TYPE EXCEPT ![c] = t]
    /\ Attach(c, "oven", "wait_oven")
    /\ UNCHANGED <<ovenVars, tableVars, sem, removed, idx, control>>

WaitOven(c) ==
    /\ pc[c] = "wait_oven"
    /\ Wait("oven")
    /\ To(c, "scan_oven")
    /\ UNCHANGED <<ovenVars, tableVars, removed, idx, pizza_TYPE, control>>

\* With every slot taken the cook posts the semaphore and starts over.
ScanOven(c) ==
    /\ pc[c] = "scan_oven"
    /\ \/ /\ idx[c] = OVEN_SIZE
          /\ Post("oven")
          /\ To(c, "wait_oven")
          /\ idx' = [idx EXCEPT ![c] = 0]
       \/ /\ idx[c] < OVEN_SIZE /\ pizza_in_oven[idx[c]] = 0
          /\ To(c, "mark_oven")
          /\ UNCHANGED <<idx, sem>>
       \/ /\ idx[c] < OVEN_SIZE /\ pizza_in_oven[idx[c]] # 0
          /\ idx' = [idx EXCEPT ![c] = @ + 1]
          /\ UNCHANGED <<pc, sem>>
    /\ UNCHANGED <<ovenVars, tableVars, removed, pizza_TYPE, control>>

MarkOven(c) ==
    /\ pc[c] = "mark_oven"
    /\ place_in_oven' = [place_in_oven EXCEPT ![c] = idx[c]]
    /\ pizza_in_oven' = [pizza_in_oven EXCEPT ![idx[c]] = 1]
    /\ To(c, "type_oven")
    /\ UNCHANGED <<oven_type, tableVars, sem, removed, idx, pizza_TYPE, control>>

TypeOven(c) ==
    /\ pc[c] = "type_oven"
    /\ oven_type' = [oven_type EXCEPT ![idx[c]] = pizza_TYPE[c]]
    /\ To(c, "post_oven")
    /\ UNCHANGED <<pizza_in_oven, place_in_oven, tableVars, sem, removed, idx,
                   pizza_TYPE, control>>

PostOven(c) ==
    /\ pc[c] = "post_oven"
    /\ Post("oven")
    /\ To(c, "baking")
    /\ idx' = [idx EXCEPT ![c] = 0]
    /\ UNCHANGED <<ovenVars, tableVars, removed, pizza_TYPE, control>>

----------------------------------------------------------------------------
(* remove_from_the_oven *)

Baked(c) ==
    /\ pc[c] = "baking"
    /\ Attach(c, "oven", "wait_oven_out")
    /\ UNCHANGED <<ovenVars, tableVars, sem, removed, idx, pizza_TYPE, control>>

WaitOvenOut(c) ==
    /\ pc[c] = "wait_oven_out"
    /\ Wait("oven")
    /\ To(c, "clear_oven")
    /\ UNCHANGED <<ovenVars, tableVars, removed, idx, pizza_TYPE, control>>

\* Mutant of ClearOven: the cook takes out of the slot his scan index, 0 again, names.
M_ClearsIdx(c) ==
    /\ pc[c] = "clear_oven"
    /\ pizza_in_oven' = [pizza_in_oven EXCEPT ![idx[c]] = 0]
    /\ To(c, "post_oven_out")
    /\ UNCHANGED <<oven_type, place_in_oven, tableVars, sem, removed, idx,
                   pizza_TYPE, control>>

ClearOven(c) ==
    /\ pc[c] = "clear_oven"
    /\ pizza_in_oven' = [pizza_in_oven EXCEPT ![place_in_oven[c]] = 0]
    /\ To(c, "post_oven_out")
    /\ UNCHANGED <<oven_type, place_in_oven, tableVars, sem, removed, idx,
                   pizza_TYPE, control>>

PostOvenOut(c) ==
    /\ pc[c] = "post_oven_out"
    /\ Post("oven")
    /\ To(c, "carry")
    /\ UNCHANGED <<ovenVars, tableVars, removed, idx, pizza_TYPE, control>>

----------------------------------------------------------------------------
(* put_on_the_table *)

Carry(c) ==
    /\ pc[c] = "carry"
    /\ Attach(c, "table", "wait_table")
    /\ UNCHANGED <<ovenVars, tableVars, sem, removed, idx, pizza_TYPE, control>>

WaitTable(p) ==
    /\ pc[p] = "wait_table"
    /\ Wait("table")
    /\ To(p, "scan_table")
    /\ UNCHANGED <<ovenVars, tableVars, removed, idx, pizza_TYPE, control>>

\* Mutants of ScanTable: a scan without success is taken for one with success, or
\* goes on to the wait without posting.
M_NoRetry(p, v, found) ==
    /\ pc[p] = "scan_table"
    /\ \/ /\ idx[p] = TABLE_SIZE \/ pizza_on_table[idx[p]] = v
          /\ To(p, found)
          /\ UNCHANGED idx
       \/ /\ idx[p] < TABLE_SIZE /\ pizza_on_table[idx[p]] # v
          /\ idx' = [idx EXCEPT ![p] = @ + 1]
          /\ UNCHANGED pc
    /\ UNCHANGED <<ovenVars, tableVars, sem, removed, pizza_TYPE, control>>
M_KeepsTable(p, v, found) ==
    /\ pc[p] = "scan_table"
    /\ \/ /\ idx[p] = TABLE_SIZE
          /\ To(p, "wait_table")
          /\ idx' = [idx EXCEPT ![p] = 0]
       \/ /\ idx[p] < TABLE_SIZE /\ pizza_on_table[idx[p]] = v
          /\ To(p, found)
          /\ UNCHANGED idx
       \/ /\ idx[p] < TABLE_SIZE /\ pizza_on_table[idx[p]] # v
          /\ idx' = [idx EXCEPT ![p] = @ + 1]
          /\ UNCHANGED pc
    /\ UNCHANGED <<ovenVars, tableVars, sem, removed, pizza_TYPE, control>>

\* A scan of the table for a slot whose pizza_on_table is v.
ScanTable(p, v, found) ==
    /\ pc[p] = "scan_table"
    /\ \/ /\ idx[p] = TABLE_SIZE
          /\ Post("table")
          /\ To(p, "wait_table")
          /\ idx' = [idx EXCEPT ![p] = 0]
       \/ /\ idx[p] < TABLE_SIZE /\ pizza_on_table[idx[p]] = v
          /\ To(p, found)
          /\ UNCHANGED <<idx, sem>>
       \/ /\ idx[p] < TABLE_SIZE /\ pizza_on_table[idx[p]] # v
          /\ idx' = [idx EXCEPT ![p] = @ + 1]
          /\ UNCHANGED <<pc, sem>>
    /\ UNCHANGED <<ovenVars, tableVars, removed, pizza_TYPE, control>>

ScanForRoom(c) == ScanTable(c, 0, "mark_table")

MarkTable(c) ==
    /\ pc[c] = "mark_table"
    /\ pizza_on_table' = [pizza_on_table EXCEPT ![idx[c]] = 1]
    /\ To(c, "type_table")
    /\ UNCHANGED <<ovenVars, table_type, pizza_type, sem, removed, idx,
                   pizza_TYPE, control>>

TypeTable(c) ==
    /\ pc[c] = "type_table"
    /\ table_type' = [table_type EXCEPT ![idx[c]] = pizza_TYPE[c]]
    /\ To(c, "post_table")
    /\ UNCHANGED <<ovenVars, pizza_on_table, pizza_type, sem, removed, idx,
                   pizza_TYPE, control>>

PostTable(p, next) ==
    /\ pc[p] = "post_table"
    /\ Post("table")
    /\ To(p, next)
    /\ idx' = [idx EXCEPT ![p] = 0]
    /\ UNCHANGED <<ovenVars, tableVars, removed, pizza_TYPE, control>>

----------------------------------------------------------------------------
(* take_pizza_off_the_table_and_deliver *)

AttachTable(d) ==
    /\ pc[d] = "attach"
    /\ Attach(d, "table", "wait_table")
    /\ UNCHANGED <<ovenVars, tableVars, sem, removed, idx, pizza_TYPE, control>>

ScanForPizza(d) == ScanTable(d, 1, "clear_table")

\* Mutant of ClearTable: the slot is left marked.
M_KeepsPizza(d) ==
    /\ pc[d] = "clear_table"
    /\ To(d, "read_type")
    /\ UNCHANGED <<ovenVars, tableVars, sem, removed, idx, pizza_TYPE, control>>

ClearTable(d) ==
    /\ pc[d] = "clear_table"
    /\ pizza_on_table' = [pizza_on_table EXCEPT ![idx[d]] = 0]
    /\ To(d, "read_type")
    /\ UNCHANGED <<ovenVars, table_type, pizza_type, sem, removed, idx,
                   pizza_TYPE, control>>

ReadType(d) ==
    /\ pc[d] = "read_type"
    /\ pizza_type' = [pizza_type EXCEPT ![d] = table_type[idx[d]]]
    /\ To(d, "post_table")
    /\ UNCHANGED <<ovenVars, pizza_on_table, table_type, sem, removed, idx,
                   pizza_TYPE, control>>

----------------------------------------------------------------------------
CookStep(c) ==
    \/ Prepare(c) \/ WaitOven(c) \/ ScanOven(c) \/ MarkOven(c) \/ TypeOven(c)
    \/ PostOven(c) \/ Baked(c) \/ WaitOvenOut(c) \/ ClearOven(c) \/ PostOvenOut(c)
    \/ Carry(c) \/ WaitTable(c) \/ ScanForRoom(c) \/ MarkTable(c) \/ TypeTable(c)
    \/ PostTable(c, "prepare")

DelivererStep(d) ==
    \/ AttachTable(d) \/ WaitTable(d) \/ ScanForPizza(d) \/ ClearTable(d)
    \/ ReadType(d) \/ PostTable(d, "attach")

Work == \/ \E c \in Cooks : CookStep(c)
        \/ \E d \in Deliverers : DelivererStep(d)

----------------------------------------------------------------------------
(* main and the life of the processes *)

\* main forks the cooks first and then the deliverers; how many of them is up to
\* the constants (the loop over deliverers starts at 1 in the code).
Fork(p) ==
    /\ main = "running"
    /\ pc[p] = "unforked"
    /\ p \in Deliverers => \A c \in Cooks : pc[c] # "unforked"
    /\ To(p, "start")
    /\ UNCHANGED <<ovenVars, tableVars, sem, removed, idx, pizza_TYPE, control>>

\* exec, then semget and shmget, which fail once the objects are removed.
Uses(p) == IF p \in Cooks THEN Objects ELSE {"sem", "table"}
Start(p) ==
    /\ pc[p] = "start"
    /\ To(p, IF Uses(p) \cap removed # {} THEN "dead"
             ELSE IF p \in Cooks THEN "prepare" ELSE "attach")
    /\ UNCHANGED <<ovenVars, tableVars, sem, removed, idx, pizza_TYPE, control>>

\* A SIGINT handler of cook.c or deliverer.c, which removes the objects "gone".  A
\* process that has not called signal() yet is killed, or, before its exec, runs
\* the handler of main.
Exit(p, gone) ==
    /\ p \in pending
    /\ pending' = pending \ {p}
    /\ \/ pc[p] = "start" /\ removed' \in {removed, Objects}
       \/ pc[p] = "dead" /\ removed' = removed
       \/ pc[p] \notin {"start", "dead"} /\ removed' = removed \cup gone
    /\ To(p, "dead")
    /\ UNCHANGED <<ovenVars, tableVars, sem, idx, pizza_TYPE, main>>

\* Mutant of MainKillsAll: the deliverers are not signalled.
M_KillsCooks ==
    /\ main = "running"
    /\ pending' = {p \in Cooks : pc[p] \notin {"unforked", "dead"}}
    /\ main' = "stopping"
    /\ UNCHANGED <<ovenVars, tableVars, sem, removed, pc, idx, pizza_TYPE>>

\* handler() of main.c: lines 86-91 reach every child, those that have no entry in
\* the tables too, because a 0 there makes kill() signal the whole group.
MainKillsAll ==
    /\ main = "running"
    /\ pending' = {p \in Procs : pc[p] \notin {"unforked", "dead"}}
    /\ main' = "stopping"
    /\ UNCHANGED <<ovenVars, tableVars, sem, removed, pc, idx, pizza_TYPE>>

MainRemoves ==
    /\ main = "stopping"
    /\ removed' = Objects
    /\ main' = "exited"
    /\ UNCHANGED <<ovenVars, tableVars, sem, pc, idx, pizza_TYPE, pending>>

Opening == \E p \in Procs : Fork(p) \/ Start(p)
Stopped == main = "exited" /\ \A p \in Procs : pc[p] \in {"unforked", "dead"}

\* Ctrl-C ends every process, wherever it is in its work or its start (main.c 82-102 of
\* zad1, 65-84 of zad2).
EverybodyStops == main = "stopping" ~> Stopped

----------------------------------------------------------------------------
\* The labels between sem_wait and sem_post of each semaphore.
InOven(p)  == pc[p] \in {"scan_oven", "mark_oven", "type_oven", "post_oven",
                         "clear_oven", "post_oven_out"}
InTable(p) == pc[p] \in {"scan_table", "mark_table", "type_table", "clear_table",
                         "read_type", "post_table"}

\* The labels at which a cook's pizza is in the oven.
InTheOven(c) == pc[c] \in {"type_oven", "post_oven", "baking", "wait_oven_out",
                           "clear_oven"}

----------------------------------------------------------------------------
TypeOK ==
    /\ pizza_in_oven \in [Slots(OVEN_SIZE) -> {0, 1}]
    /\ oven_type \in [Slots(OVEN_SIZE) -> Types]
    /\ pizza_on_table \in [Slots(TABLE_SIZE) -> {0, 1}]
    /\ table_type \in [Slots(TABLE_SIZE) -> Types]
    /\ sem \in [{"oven", "table"} -> Nat]
    /\ removed \in SUBSET Objects
    /\ pc \in [Procs -> CookLabels \cup DelivererLabels]
    /\ \A c \in Cooks : pc[c] \in CookLabels
    /\ \A d \in Deliverers : pc[d] \in DelivererLabels
    /\ idx \in [Procs -> Nat]
    /\ \A p \in Procs :
         /\ pc[p] \in {"mark_oven", "type_oven"} => idx[p] \in Slots(OVEN_SIZE)
         /\ pc[p] \in {"mark_table", "type_table", "clear_table", "read_type"}
              => idx[p] \in Slots(TABLE_SIZE)
    /\ place_in_oven \in [Cooks -> Slots(OVEN_SIZE)]
    /\ pizza_TYPE \in [Cooks -> Types]
    /\ pizza_type \in [Deliverers -> Types]
    /\ pending \in SUBSET Procs
    /\ main \in {"running", "stopping", "exited"}

\* A process holds the semaphore of the oven, or of the table, alone (the comment
\* "Zajecie dostepu do pieca", taking the access to the oven).
Exclusive ==
    \A p, q \in Procs :
      p # q => ~(InOven(p) /\ InOven(q)) /\ ~(InTable(p) /\ InTable(q))

\* "We put the pizza on a free place": the slot found free is still free when the
\* cook marks it, and the one a deliverer found taken is still taken.
FreePlace ==
    \A p \in Procs :
      /\ pc[p] = "mark_oven"   => pizza_in_oven[idx[p]] = 0
      /\ pc[p] = "mark_table"  => pizza_on_table[idx[p]] = 0
      /\ pc[p] = "clear_table" => pizza_on_table[idx[p]] = 1

\* Cooks that have a pizza in the oven remember different slots of it, and those
\* slots, no others, are marked: place_in_oven is enough to take the own one out.
OvenOwnership ==
    /\ \A c, d \in Cooks : c # d /\ InTheOven(c) /\ InTheOven(d)
                             => place_in_oven[c] # place_in_oven[d]
    /\ \A s \in Slots(OVEN_SIZE) :
         pizza_in_oven[s] = 1 <=> \E c \in Cooks : InTheOven(c) /\ place_in_oven[c] = s

=============================================================================
