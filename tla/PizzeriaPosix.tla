--------------------------- MODULE PizzeriaPosix ---------------------------
(***************************************************************************)
(* cw07/zad2: the pizzeria with two named POSIX semaphores and POSIX       *)
(* shared memory.  The processes do the same work as in zad1, but sem_open *)
(* gives each semaphore the number of slots, not 1, as its first value, so *)
(* several processes are in the oven or at the table at once.              *)
(***************************************************************************)
EXTENDS Kitchen

set_semaphores == sem = [oven |-> OVEN_SIZE, table |-> TABLE_SIZE]

Init ==
    /\ pizza_in_oven = [s \in Slots(OVEN_SIZE) |-> 0] /\ oven_type = [s \in Slots(OVEN_SIZE) |-> 0]
    /\ pizza_on_table = [s \in Slots(TABLE_SIZE) |-> 0] /\ table_type = [s \in Slots(TABLE_SIZE) |-> 0]
    /\ set_semaphores
    /\ removed = {}
    /\ pc = [p \in Procs |-> "unforked"]
    /\ idx = [p \in Procs |-> 0]
    /\ place_in_oven = [c \in Cooks |-> 0]
    /\ pizza_TYPE = [c \in Cooks |-> 0]
    /\ pizza_type \in [Deliverers -> Types]   \* not initialised in the code
    /\ pending = {}
    /\ main = "running"

push_into_the_oven(c) ==
    Prepare(c) \/ WaitOven(c) \/ ScanOven(c) \/ MarkOven(c) \/ TypeOven(c) \/ PostOven(c)

\* Mutant of remove_from_the_oven: the cook takes out what the first slot holds.
M_TakesFirst(c) ==
    \/ Baked(c) \/ WaitOvenOut(c) \/ PostOvenOut(c)
    \/ /\ pc[c] = "clear_oven"
       /\ pizza_in_oven' = [pizza_in_oven EXCEPT ![0] = 0]
       /\ To(c, "post_oven_out")
       /\ UNCHANGED <<oven_type, place_in_oven, tableVars, sem, removed, idx,
                      pizza_TYPE, control>>

remove_from_the_oven(c) ==
    Baked(c) \/ WaitOvenOut(c) \/ ClearOven(c) \/ PostOvenOut(c)

put_on_the_table(c) ==
    \/ Carry(c) \/ WaitTable(c) \/ ScanForRoom(c) \/ MarkTable(c) \/ TypeTable(c)
    \/ PostTable(c, "prepare")

take_pizza_off_the_table_and_deliver(d) ==
    \/ AttachTable(d) \/ WaitTable(d) \/ ScanForPizza(d) \/ ClearTable(d)
    \/ ReadType(d) \/ PostTable(d, "attach")

Labour ==
    \/ \E c \in Cooks : \/ push_into_the_oven(c) \/ remove_from_the_oven(c)
                       \/ put_on_the_table(c)
    \/ \E d \in Deliverers : take_pizza_off_the_table_and_deliver(d)

\* handler() of cook.c and of deliverer.c: sem_close leaves the semaphores in
\* place, and unlinked memory stays with the processes that have it open.
Handler(p) == Exit(p, Uses(p) \ {"sem"})

Shutdown == MainKillsAll \/ MainRemoves \/ \E p \in Procs : Handler(p)

\* The pizzeria at work, nobody having pressed Ctrl-C.
Spec == Init /\ [][Opening \/ Labour]_vars

\* The same with Ctrl-C at any time.
Next == Opening \/ Labour \/ Shutdown \/ (Stopped /\ UNCHANGED vars)

ShutdownSpec ==
    /\ Init
    /\ [][Next]_vars
    /\ WF_vars(MainRemoves)
    /\ \A p \in Procs : WF_vars(Handler(p)) /\ WF_vars(Start(p))

----------------------------------------------------------------------------
\* Although cooks overwrite each other's slots, a slot that stays marked always
\* has a cook who will clear it, until Ctrl-C stops the cooks: the oven never fills
\* up for good.
MarkedHasCook ==
    main = "running" => \A s \in DOMAIN pizza_in_oven :
      pizza_in_oven[s] = 1 => \E c \in Cooks : InTheOven(c) /\ place_in_oven[c] = s

\* With that, inductive: nothing is removed and nobody is signalled before Ctrl-C.
BeforeStop == main = "running" => removed = {} /\ pending = {}

IInv == TypeOK /\ BeforeStop /\ MarkedHasCook
=============================================================================
