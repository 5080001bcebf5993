------------------------- MODULE PizzeriaPosixProofs -------------------------
(***************************************************************************)
(* The pizzeria of zad2, with Ctrl-C at any time, for any number of cooks, *)
(* deliverers and slots.                                                   *)
(***************************************************************************)
EXTENDS PizzeriaPosix, TLAPS

LEMMA SlotsExist == 0 \in Slots(OVEN_SIZE) /\ 0 \in Slots(TABLE_SIZE)
  BY KitchenAssumption DEF Slots

LEMMA InitIInv == Init => IInv
<1> SUFFICES ASSUME Init PROVE IInv
  OBVIOUS
<1> USE KitchenAssumption, SlotsExist DEF Init, Procs
<1>1. TypeOK
  BY DEF TypeOK, CookLabels, DelivererLabels, set_semaphores
<1>2. BeforeStop /\ MarkedHasCook
  BY DEF BeforeStop, MarkedHasCook
<1>. QED
  BY <1>1, <1>2 DEF IInv

----------------------------------------------------------------------------
(* What a step does to the semaphores and to the place of a process. *)

LEMMA WaitStep ==
  ASSUME TypeOK, NEW s \in {"oven", "table"}, Wait(s)
  PROVE  sem' \in [{"oven", "table"} -> Nat]
  BY DEF TypeOK, Wait

LEMMA PostStep ==
  ASSUME TypeOK, NEW s \in {"oven", "table"}, Post(s)
  PROVE  sem' \in [{"oven", "table"} -> Nat]
  BY DEF TypeOK, Post

LEMMA AttachStep ==
  ASSUME NEW p, NEW o, NEW l, Attach(p, o, l)
  PROVE  \/ pc' = [pc EXCEPT ![p] = l]
         \/ pc' = [pc EXCEPT ![p] = "dead"] /\ o \in removed
  BY DEF Attach, To

----------------------------------------------------------------------------
(* One step of a scan. *)

LEMMA ScanOvenStep ==
  ASSUME TypeOK, NEW c \in Cooks, ScanOven(c)
  PROVE  /\ sem' \in [{"oven", "table"} -> Nat] /\ idx' \in [Procs -> Nat]
         /\ pc' \in [Procs -> CookLabels \cup DelivererLabels]
         /\ \A q \in Procs \ {c} : pc'[q] = pc[q] /\ idx'[q] = idx[q]
         /\ pc'[c] \in {"mark_oven", "wait_oven", "scan_oven"}
         /\ pc'[c] = "mark_oven" => idx'[c] \in Slots(OVEN_SIZE) /\ pizza_in_oven[idx'[c]] = 0
<1> USE DEF TypeOK, Procs, CookLabels, DelivererLabels, To
<1>1. sem' \in [{"oven", "table"} -> Nat] /\ idx' \in [Procs -> Nat]
  BY DEF ScanOven, Post
<1>2. pc' \in [Procs -> CookLabels \cup DelivererLabels]
  BY DEF ScanOven
<1>3. \A q \in Procs \ {c} : pc'[q] = pc[q] /\ idx'[q] = idx[q]
  BY DEF ScanOven
<1>4. pc'[c] \in {"mark_oven", "wait_oven", "scan_oven"}
  BY DEF ScanOven
<1>5. pc'[c] = "mark_oven" => idx'[c] \in Slots(OVEN_SIZE) /\ pizza_in_oven[idx'[c]] = 0
  BY KitchenAssumption DEF ScanOven, Slots
<1>. QED
  BY <1>1, <1>2, <1>3, <1>4, <1>5

LEMMA ScanTableStep ==
  ASSUME TypeOK, NEW p \in Procs, NEW v,
         NEW found \in {"mark_table", "clear_table"}, ScanTable(p, v, found)
  PROVE  /\ sem' \in [{"oven", "table"} -> Nat] /\ idx' \in [Procs -> Nat]
         /\ pc' \in [Procs -> CookLabels \cup DelivererLabels]
         /\ \A q \in Procs \ {p} : pc'[q] = pc[q] /\ idx'[q] = idx[q]
         /\ pc'[p] \in {found, "wait_table", "scan_table"}
         /\ pc'[p] = found => idx'[p] \in Slots(TABLE_SIZE) /\ pizza_on_table[idx'[p]] = v
<1> USE DEF TypeOK, CookLabels, DelivererLabels, To
<1>1. sem' \in [{"oven", "table"} -> Nat] /\ idx' \in [Procs -> Nat]
  BY DEF ScanTable, Post
<1>2. pc' \in [Procs -> CookLabels \cup DelivererLabels]
  BY DEF ScanTable
<1>3. \A q \in Procs \ {p} : pc'[q] = pc[q] /\ idx'[q] = idx[q]
  BY DEF ScanTable
<1>4. pc'[p] \in {found, "wait_table", "scan_table"}
  BY DEF ScanTable
<1>5. pc'[p] = found => idx'[p] \in Slots(TABLE_SIZE) /\ pizza_on_table[idx'[p]] = v
  BY KitchenAssumption DEF ScanTable, Slots
<1>. QED
  BY <1>1, <1>2, <1>3, <1>4, <1>5

----------------------------------------------------------------------------
LEMMA TypeStep ==
  ASSUME IInv, [Next]_vars
  PROVE  TypeOK'
<1> USE KitchenAssumption DEF IInv, TypeOK, Procs, CookLabels, DelivererLabels,
        ovenVars, tableVars, control, To
<1>1. ASSUME NEW p \in Procs, Fork(p) PROVE TypeOK'
  BY <1>1 DEF Fork
<1>2. ASSUME NEW p \in Procs, Start(p) PROVE TypeOK'
  BY <1>2 DEF Start
<1>3. ASSUME NEW c \in Cooks, Prepare(c) PROVE TypeOK'
  BY <1>3, AttachStep DEF Prepare, Objects
<1>4. ASSUME NEW c \in Cooks, WaitOven(c) PROVE TypeOK'
  BY <1>4, WaitStep DEF WaitOven
<1>5. ASSUME NEW c \in Cooks, ScanOven(c) PROVE TypeOK'
  <2>1. UNCHANGED <<ovenVars, tableVars, removed, pizza_TYPE, control>>
    BY <1>5 DEF ScanOven
  <2>2. /\ sem' \in [{"oven", "table"} -> Nat] /\ idx' \in [Procs -> Nat]
        /\ pc' \in [Procs -> CookLabels \cup DelivererLabels]
    BY <1>5, ScanOvenStep
  <2>3. /\ \A q \in Procs \ {c} : pc'[q] = pc[q] /\ idx'[q] = idx[q]
        /\ pc'[c] \in {"mark_oven", "wait_oven", "scan_oven"}
        /\ pc'[c] = "mark_oven" => idx'[c] \in Slots(OVEN_SIZE)
    BY <1>5, ScanOvenStep
  <2>. QED
    BY <2>1, <2>2, <2>3
<1>6. ASSUME NEW c \in Cooks, MarkOven(c) PROVE TypeOK'
  BY <1>6 DEF MarkOven
<1>7. ASSUME NEW c \in Cooks, TypeOven(c) PROVE TypeOK'
  BY <1>7 DEF TypeOven
<1>8. ASSUME NEW c \in Cooks, PostOven(c) PROVE TypeOK'
  BY <1>8, PostStep DEF PostOven
<1>9. ASSUME NEW c \in Cooks, Baked(c) PROVE TypeOK'
  BY <1>9, AttachStep DEF Baked, Objects
<1>10. ASSUME NEW c \in Cooks, WaitOvenOut(c) PROVE TypeOK'
  BY <1>10, WaitStep DEF WaitOvenOut
<1>11. ASSUME NEW c \in Cooks, ClearOven(c) PROVE TypeOK'
  BY <1>11 DEF ClearOven
<1>12. ASSUME NEW c \in Cooks, PostOvenOut(c) PROVE TypeOK'
  BY <1>12, PostStep DEF PostOvenOut
<1>13. ASSUME NEW c \in Cooks, Carry(c) PROVE TypeOK'
  BY <1>13, AttachStep DEF Carry, Objects
<1>14. ASSUME NEW p \in Procs, WaitTable(p) PROVE TypeOK'
  BY <1>14, WaitStep DEF WaitTable
<1>15. ASSUME NEW c \in Cooks, ScanForRoom(c) PROVE TypeOK'
  <2>1. ScanTable(c, 0, "mark_table")
    BY <1>15 DEF ScanForRoom
  <2>2. UNCHANGED <<ovenVars, tableVars, removed, pizza_TYPE, control>>
    BY <2>1 DEF ScanTable
  <2>3. /\ sem' \in [{"oven", "table"} -> Nat] /\ idx' \in [Procs -> Nat]
        /\ pc' \in [Procs -> CookLabels \cup DelivererLabels]
    BY <2>1, ScanTableStep
  <2>4. /\ \A q \in Procs \ {c} : pc'[q] = pc[q] /\ idx'[q] = idx[q]
        /\ pc'[c] \in {"mark_table", "wait_table", "scan_table"}
        /\ pc'[c] = "mark_table" => idx'[c] \in Slots(TABLE_SIZE)
    BY <2>1, ScanTableStep
  <2>. QED
    BY <2>2, <2>3, <2>4
<1>16. ASSUME NEW c \in Cooks, MarkTable(c) PROVE TypeOK'
  BY <1>16 DEF MarkTable
<1>17. ASSUME NEW c \in Cooks, TypeTable(c) PROVE TypeOK'
  BY <1>17 DEF TypeTable
<1>18. ASSUME NEW c \in Cooks, PostTable(c, "prepare") PROVE TypeOK'
  BY <1>18, PostStep DEF PostTable
<1>19. ASSUME NEW d \in Deliverers, AttachTable(d) PROVE TypeOK'
  BY <1>19, AttachStep DEF AttachTable, Objects
<1>20. ASSUME NEW d \in Deliverers, ScanForPizza(d) PROVE TypeOK'
  <2>1. ScanTable(d, 1, "clear_table")
    BY <1>20 DEF ScanForPizza
  <2>2. UNCHANGED <<ovenVars, tableVars, removed, pizza_TYPE, control>>
    BY <2>1 DEF ScanTable
  <2>3. /\ sem' \in [{"oven", "table"} -> Nat] /\ idx' \in [Procs -> Nat]
        /\ pc' \in [Procs -> CookLabels \cup DelivererLabels]
    BY <2>1, ScanTableStep
  <2>4. /\ \A q \in Procs \ {d} : pc'[q] = pc[q] /\ idx'[q] = idx[q]
        /\ pc'[d] \in {"clear_table", "wait_table", "scan_table"}
        /\ pc'[d] = "clear_table" => idx'[d] \in Slots(TABLE_SIZE)
    BY <2>1, ScanTableStep
  <2>. QED
    BY <2>2, <2>3, <2>4
<1>21. ASSUME NEW d \in Deliverers, ClearTable(d) PROVE TypeOK'
  BY <1>21 DEF ClearTable
<1>22. ASSUME NEW d \in Deliverers, ReadType(d) PROVE TypeOK'
  BY <1>22 DEF ReadType
<1>23. ASSUME NEW d \in Deliverers, PostTable(d, "attach") PROVE TypeOK'
  BY <1>23, PostStep DEF PostTable
<1>24. CASE MainKillsAll
  BY <1>24 DEF MainKillsAll
<1>25. CASE MainRemoves
  BY <1>25 DEF MainRemoves
<1>26. ASSUME NEW p \in Procs, Handler(p) PROVE TypeOK'
  BY <1>26 DEF Handler, Exit, Uses, Objects
<1>27. CASE UNCHANGED vars
  BY <1>27 DEF vars
<1> HIDE DEF TypeOK, IInv
<1>. QED
  BY <1>1, <1>2, <1>3, <1>4, <1>5, <1>6, <1>7, <1>8, <1>9, <1>10, <1>11, <1>12, <1>13, <1>14,
     <1>15, <1>16, <1>17, <1>18, <1>19, <1>20, <1>21, <1>22, <1>23, <1>24, <1>25, <1>26, <1>27
     DEF Next, Opening, Labour, Shutdown, push_into_the_oven, remove_from_the_oven,
         put_on_the_table, take_pizza_off_the_table_and_deliver

LEMMA MarkedStep ==
  ASSUME IInv, [Next]_vars
  PROVE  (BeforeStop /\ MarkedHasCook)'
<1> USE KitchenAssumption DEF IInv, TypeOK, Procs, CookLabels, DelivererLabels,
        ovenVars, tableVars, control, To
<1>1. ASSUME NEW p \in Procs, Fork(p) PROVE (BeforeStop /\ MarkedHasCook)'
  BY <1>1 DEF Fork, BeforeStop, MarkedHasCook, InTheOven
<1>2. ASSUME NEW p \in Procs, Start(p) PROVE (BeforeStop /\ MarkedHasCook)'
  BY <1>2 DEF Start, BeforeStop, MarkedHasCook, InTheOven
<1>3. ASSUME NEW c \in Cooks, Prepare(c) PROVE (BeforeStop /\ MarkedHasCook)'
  BY <1>3, AttachStep DEF Prepare, BeforeStop, MarkedHasCook, InTheOven
<1>4. ASSUME NEW c \in Cooks, WaitOven(c) PROVE (BeforeStop /\ MarkedHasCook)'
  BY <1>4 DEF WaitOven, BeforeStop, MarkedHasCook, InTheOven
<1>5. ASSUME NEW c \in Cooks, ScanOven(c) PROVE (BeforeStop /\ MarkedHasCook)'
  BY <1>5 DEF ScanOven, BeforeStop, MarkedHasCook, InTheOven
<1>6. ASSUME NEW c \in Cooks, MarkOven(c) PROVE (BeforeStop /\ MarkedHasCook)'
  BY <1>6 DEF MarkOven, BeforeStop, MarkedHasCook, InTheOven
<1>7. ASSUME NEW c \in Cooks, TypeOven(c) PROVE (BeforeStop /\ MarkedHasCook)'
  BY <1>7 DEF TypeOven, BeforeStop, MarkedHasCook, InTheOven
<1>8. ASSUME NEW c \in Cooks, PostOven(c) PROVE (BeforeStop /\ MarkedHasCook)'
  BY <1>8 DEF PostOven, BeforeStop, MarkedHasCook, InTheOven
<1>9. ASSUME NEW c \in Cooks, Baked(c) PROVE (BeforeStop /\ MarkedHasCook)'
  BY <1>9, AttachStep DEF Baked, BeforeStop, MarkedHasCook, InTheOven
<1>10. ASSUME NEW c \in Cooks, WaitOvenOut(c) PROVE (BeforeStop /\ MarkedHasCook)'
  BY <1>10 DEF WaitOvenOut, BeforeStop, MarkedHasCook, InTheOven
<1>11. ASSUME NEW c \in Cooks, ClearOven(c) PROVE (BeforeStop /\ MarkedHasCook)'
  BY <1>11 DEF ClearOven, BeforeStop, MarkedHasCook, InTheOven
<1>12. ASSUME NEW c \in Cooks, PostOvenOut(c) PROVE (BeforeStop /\ MarkedHasCook)'
  BY <1>12 DEF PostOvenOut, BeforeStop, MarkedHasCook, InTheOven
<1>13. ASSUME NEW c \in Cooks, Carry(c) PROVE (BeforeStop /\ MarkedHasCook)'
  BY <1>13, AttachStep DEF Carry, BeforeStop, MarkedHasCook, InTheOven
<1>14. ASSUME NEW p \in Procs, WaitTable(p) PROVE (BeforeStop /\ MarkedHasCook)'
  BY <1>14 DEF WaitTable, BeforeStop, MarkedHasCook, InTheOven
<1>15. ASSUME NEW c \in Cooks, ScanForRoom(c) PROVE (BeforeStop /\ MarkedHasCook)'
  BY <1>15 DEF ScanForRoom, ScanTable, BeforeStop, MarkedHasCook, InTheOven
<1>16. ASSUME NEW c \in Cooks, MarkTable(c) PROVE (BeforeStop /\ MarkedHasCook)'
  BY <1>16 DEF MarkTable, BeforeStop, MarkedHasCook, InTheOven
<1>17. ASSUME NEW c \in Cooks, TypeTable(c) PROVE (BeforeStop /\ MarkedHasCook)'
  BY <1>17 DEF TypeTable, BeforeStop, MarkedHasCook, InTheOven
<1>18. ASSUME NEW c \in Cooks, PostTable(c, "prepare") PROVE (BeforeStop /\ MarkedHasCook)'
  BY <1>18 DEF PostTable, BeforeStop, MarkedHasCook, InTheOven
<1>19. ASSUME NEW d \in Deliverers, AttachTable(d) PROVE (BeforeStop /\ MarkedHasCook)'
  BY <1>19, AttachStep DEF AttachTable, BeforeStop, MarkedHasCook, InTheOven
<1>20. ASSUME NEW d \in Deliverers, ScanForPizza(d) PROVE (BeforeStop /\ MarkedHasCook)'
  BY <1>20 DEF ScanForPizza, ScanTable, BeforeStop, MarkedHasCook, InTheOven
<1>21. ASSUME NEW d \in Deliverers, ClearTable(d) PROVE (BeforeStop /\ MarkedHasCook)'
  BY <1>21 DEF ClearTable, BeforeStop, MarkedHasCook, InTheOven
<1>22. ASSUME NEW d \in Deliverers, ReadType(d) PROVE (BeforeStop /\ MarkedHasCook)'
  BY <1>22 DEF ReadType, BeforeStop, MarkedHasCook, InTheOven
<1>23. ASSUME NEW d \in Deliverers, PostTable(d, "attach") PROVE (BeforeStop /\ MarkedHasCook)'
  BY <1>23 DEF PostTable, BeforeStop, MarkedHasCook, InTheOven
<1>24. CASE MainKillsAll
  BY <1>24 DEF MainKillsAll, BeforeStop, MarkedHasCook
<1>25. CASE MainRemoves
  BY <1>25 DEF MainRemoves, BeforeStop, MarkedHasCook
<1>26. ASSUME NEW p \in Procs, Handler(p) PROVE (BeforeStop /\ MarkedHasCook)'
  BY <1>26 DEF Handler, Exit, BeforeStop, MarkedHasCook
<1>27. CASE UNCHANGED vars
  BY <1>27 DEF vars, BeforeStop, MarkedHasCook, InTheOven
<1> HIDE DEF TypeOK, IInv
<1>. QED
  BY <1>1, <1>2, <1>3, <1>4, <1>5, <1>6, <1>7, <1>8, <1>9, <1>10, <1>11, <1>12, <1>13, <1>14,
     <1>15, <1>16, <1>17, <1>18, <1>19, <1>20, <1>21, <1>22, <1>23, <1>24, <1>25, <1>26, <1>27
     DEF Next, Opening, Labour, Shutdown, push_into_the_oven, remove_from_the_oven,
         put_on_the_table, take_pizza_off_the_table_and_deliver

----------------------------------------------------------------------------
LEMMA StepIInv == IInv /\ [Next]_vars => IInv'
<1> SUFFICES ASSUME IInv, [Next]_vars PROVE IInv'
  OBVIOUS
<1>. QED
  BY TypeStep, MarkedStep DEF IInv

LEMMA Inductive == ShutdownSpec => []IInv
  BY InitIInv, StepIInv, PTL DEF ShutdownSpec

\* With Ctrl-C at any time, and two processes at one slot, every scan stays within its
\* slots and every semaphore at 0 or more.
THEOREM TypeCorrect == ShutdownSpec => []TypeOK
<1>1. IInv => TypeOK
  BY DEF IInv
<1>. QED
  BY <1>1, Inductive, PTL

\* Cooks overwrite each other's slots, but each marked slot has a cook who will clear
\* it, as long as nobody presses Ctrl-C (cook.c 50-156 of zad2).
THEOREM SlotsAreCleared == ShutdownSpec => []MarkedHasCook
<1>1. IInv => MarkedHasCook
  BY DEF IInv
<1>. QED
  BY <1>1, Inductive, PTL
=============================================================================
