------------------------- MODULE PizzeriaSysVProofs -------------------------
(***************************************************************************)
(* The pizzeria of zad1 at work, for any number of cooks, deliverers and   *)
(* slots: IInv is inductive, and its steps are those of PizzaFlow.         *)
(***************************************************************************)
EXTENDS PizzeriaSysV, TLAPS

LEMMA SlotsExist == 0 \in Slots(OVEN_SIZE) /\ 0 \in Slots(TABLE_SIZE)
  BY KitchenAssumption DEF Slots

LEMMA InitIInv == Init => IInv
<1> SUFFICES ASSUME Init PROVE IInv
  OBVIOUS
<1> USE KitchenAssumption, SlotsExist DEF Init, Procs
<1>1. TypeOK
  BY DEF TypeOK, CookLabels, DelivererLabels
<1>2. WorkInv /\ SemInv /\ Exclusive /\ FreePlace /\ MarkedFirst
  BY DEF WorkInv, SemInv, Exclusive, FreePlace, MarkedFirst, InOven, InTable
<1>3. OvenOwnership
  BY DEF OvenOwnership, InTheOven
<1>. QED
  BY <1>1, <1>2, <1>3 DEF IInv

----------------------------------------------------------------------------
(* The semaphores while nobody has removed them. *)

LEMMA WaitStep ==
  ASSUME TypeOK, WorkInv, NEW s \in {"oven", "table"}, Wait(s)
  PROVE  sem[s] > 0 /\ sem' = [sem EXCEPT ![s] = @ - 1]
  BY DEF WorkInv, Wait

LEMMA PostStep ==
  ASSUME TypeOK, WorkInv, NEW s \in {"oven", "table"}, Post(s)
  PROVE  sem' = [sem EXCEPT ![s] = @ + 1]
  BY DEF WorkInv, Post

LEMMA AttachStep ==
  ASSUME TypeOK, WorkInv, NEW p \in Procs, NEW o \in Objects, NEW l, Attach(p, o, l)
  PROVE  pc' = [pc EXCEPT ![p] = l]
  BY DEF WorkInv, Attach, To

----------------------------------------------------------------------------
(* One step of a scan. *)

LEMMA ScanOvenStep ==
  ASSUME TypeOK, NEW c \in Cooks, ScanOven(c)
  PROVE  /\ sem' \in [{"oven", "table"} -> Nat] /\ idx' \in [Procs -> Nat]
         /\ pc' \in [Procs -> CookLabels \cup DelivererLabels]
         /\ \A q \in Procs \ {c} : pc'[q] = pc[q] /\ idx'[q] = idx[q]
         /\ pc'[c] \in {"mark_oven", "wait_oven", "scan_oven"}
         /\ pc'[c] = "mark_oven" => idx'[c] \in Slots(OVEN_SIZE) /\ pizza_in_oven[idx'[c]] = 0
<1> USE DEF TypeOK, Procs, CookLabels, DelivererLabels, To
<1>1. sem' \in [{"oven", "table"} -> Nat] /\ idx' \in [Procs -> Nat]
  BY DEF ScanOven, Post
<1>2. pc' \in [Procs -> CookLabels \cup DelivererLabels]
  BY DEF ScanOven
<1>3. \A q \in Procs \ {c} : pc'[q] = pc[q] /\ idx'[q] = idx[q]
  BY DEF ScanOven
<1>4. pc'[c] \in {"mark_oven", "wait_oven", "scan_oven"}
  BY DEF ScanOven
<1>5. pc'[c] = "mark_oven" => idx'[c] \in Slots(OVEN_SIZE) /\ pizza_in_oven[idx'[c]] = 0
  BY KitchenAssumption DEF ScanOven, Slots
<1>. QED
  BY <1>1, <1>2, <1>3, <1>4, <1>5

LEMMA ScanTableStep ==
  ASSUME TypeOK, NEW p \in Procs, NEW v,
         NEW found \in {"mark_table", "clear_table"}, ScanTable(p, v, found)
  PROVE  /\ sem' \in [{"oven", "table"} -> Nat] /\ idx' \in [Procs -> Nat]
         /\ pc' \in [Procs -> CookLabels \cup DelivererLabels]
         /\ \A q \in Procs \ {p} : pc'[q] = pc[q] /\ idx'[q] = idx[q]
         /\ pc'[p] \in {found, "wait_table", "scan_table"}
         /\ pc'[p] = found => idx'[p] \in Slots(TABLE_SIZE) /\ pizza_on_table[idx'[p]] = v
<1> USE DEF TypeOK, CookLabels, DelivererLabels, To
<1>1. sem' \in [{"oven", "table"} -> Nat] /\ idx' \in [Procs -> Nat]
  BY DEF ScanTable, Post
<1>2. pc' \in [Procs -> CookLabels \cup DelivererLabels]
  BY DEF ScanTable
<1>3. \A q \in Procs \ {p} : pc'[q] = pc[q] /\ idx'[q] = idx[q]
  BY DEF ScanTable
<1>4. pc'[p] \in {found, "wait_table", "scan_table"}
  BY DEF ScanTable
<1>5. pc'[p] = found => idx'[p] \in Slots(TABLE_SIZE) /\ pizza_on_table[idx'[p]] = v
  BY KitchenAssumption DEF ScanTable, Slots
<1>. QED
  BY <1>1, <1>2, <1>3, <1>4, <1>5

----------------------------------------------------------------------------
LEMMA TypeStep ==
  ASSUME IInv, [Opening \/ Work]_vars
  PROVE  TypeOK'
<1> USE KitchenAssumption DEF IInv, TypeOK, Procs, CookLabels, DelivererLabels,
        ovenVars, tableVars, control, To
<1>1. ASSUME NEW p \in Procs, Fork(p) PROVE TypeOK'
  BY <1>1 DEF Fork
<1>2. ASSUME NEW p \in Procs, Start(p) PROVE TypeOK'
  BY <1>2 DEF Start
<1>3. ASSUME NEW c \in Cooks, Prepare(c) PROVE TypeOK'
  BY <1>3, AttachStep DEF Prepare, Objects
<1>4. ASSUME NEW c \in Cooks, WaitOven(c) PROVE TypeOK'
  BY <1>4, WaitStep DEF WaitOven
<1>5. ASSUME NEW c \in Cooks, ScanOven(c) PROVE TypeOK'
  <2>1. UNCHANGED <<ovenVars, tableVars, removed, pizza_TYPE, control>>
    BY <1>5 DEF ScanOven
  <2>2. /\ sem' \in [{"oven", "table"} -> Nat] /\ idx' \in [Procs -> Nat]
        /\ pc' \in [Procs -> CookLabels \cup DelivererLabels]
    BY <1>5, ScanOvenStep
  <2>3. /\ \A q \in Procs \ {c} : pc'[q] = pc[q] /\ idx'[q] = idx[q]
        /\ pc'[c] \in {"mark_oven", "wait_oven", "scan_oven"}
        /\ pc'[c] = "mark_oven" => idx'[c] \in Slots(OVEN_SIZE)
    BY <1>5, ScanOvenStep
  <2>. QED
    BY <2>1, <2>2, <2>3
<1>6. ASSUME NEW c \in Cooks, MarkOven(c) PROVE TypeOK'
  BY <1>6 DEF MarkOven
<1>7. ASSUME NEW c \in Cooks, TypeOven(c) PROVE TypeOK'
  BY <1>7 DEF TypeOven
<1>8. ASSUME NEW c \in Cooks, PostOven(c) PROVE TypeOK'
  BY <1>8, PostStep DEF PostOven
<1>9. ASSUME NEW c \in Cooks, Baked(c) PROVE TypeOK'
  BY <1>9, AttachStep DEF Baked, Objects
<1>10. ASSUME NEW c \in Cooks, WaitOvenOut(c) PROVE TypeOK'
  BY <1>10, WaitStep DEF WaitOvenOut
<1>11. ASSUME NEW c \in Cooks, ClearOven(c) PROVE TypeOK'
  BY <1>11 DEF ClearOven
<1>12. ASSUME NEW c \in Cooks, PostOvenOut(c) PROVE TypeOK'
  BY <1>12, PostStep DEF PostOvenOut
<1>13. ASSUME NEW c \in Cooks, Carry(c) PROVE TypeOK'
  BY <1>13, AttachStep DEF Carry, Objects
<1>14. ASSUME NEW p \in Procs, WaitTable(p) PROVE TypeOK'
  BY <1>14, WaitStep DEF WaitTable
<1>15. ASSUME NEW c \in Cooks, ScanForRoom(c) PROVE TypeOK'
  <2>1. ScanTable(c, 0, "mark_table")
    BY <1>15 DEF ScanForRoom
  <2>2. UNCHANGED <<ovenVars, tableVars, removed, pizza_TYPE, control>>
    BY <2>1 DEF ScanTable
  <2>3. /\ sem' \in [{"oven", "table"} -> Nat] /\ idx' \in [Procs -> Nat]
        /\ pc' \in [Procs -> CookLabels \cup DelivererLabels]
    BY <2>1, ScanTableStep
  <2>4. /\ \A q \in Procs \ {c} : pc'[q] = pc[q] /\ idx'[q] = idx[q]
        /\ pc'[c] \in {"mark_table", "wait_table", "scan_table"}
        /\ pc'[c] = "mark_table" => idx'[c] \in Slots(TABLE_SIZE)
    BY <2>1, ScanTableStep
  <2>. QED
    BY <2>2, <2>3, <2>4
<1>16. ASSUME NEW c \in Cooks, MarkTable(c) PROVE TypeOK'
  BY <1>16 DEF MarkTable
<1>17. ASSUME NEW c \in Cooks, TypeTable(c) PROVE TypeOK'
  BY <1>17 DEF TypeTable
<1>18. ASSUME NEW c \in Cooks, PostTable(c, "prepare") PROVE TypeOK'
  BY <1>18, PostStep DEF PostTable
<1>19. ASSUME NEW d \in Deliverers, AttachTable(d) PROVE TypeOK'
  BY <1>19, AttachStep DEF AttachTable, Objects
<1>20. ASSUME NEW d \in Deliverers, ScanForPizza(d) PROVE TypeOK'
  <2>1. ScanTable(d, 1, "clear_table")
    BY <1>20 DEF ScanForPizza
  <2>2. UNCHANGED <<ovenVars, tableVars, removed, pizza_TYPE, control>>
    BY <2>1 DEF ScanTable
  <2>3. /\ sem' \in [{"oven", "table"} -> Nat] /\ idx' \in [Procs -> Nat]
        /\ pc' \in [Procs -> CookLabels \cup DelivererLabels]
    BY <2>1, ScanTableStep
  <2>4. /\ \A q \in Procs \ {d} : pc'[q] = pc[q] /\ idx'[q] = idx[q]
        /\ pc'[d] \in {"clear_table", "wait_table", "scan_table"}
        /\ pc'[d] = "clear_table" => idx'[d] \in Slots(TABLE_SIZE)
    BY <2>1, ScanTableStep
  <2>. QED
    BY <2>2, <2>3, <2>4
<1>21. ASSUME NEW d \in Deliverers, ClearTable(d) PROVE TypeOK'
  BY <1>21 DEF ClearTable
<1>22. ASSUME NEW d \in Deliverers, ReadType(d) PROVE TypeOK'
  BY <1>22 DEF ReadType
<1>23. ASSUME NEW d \in Deliverers, PostTable(d, "attach") PROVE TypeOK'
  BY <1>23, PostStep DEF PostTable
<1>24. CASE UNCHANGED vars
  BY <1>24 DEF vars
<1> HIDE DEF TypeOK
<1>. QED
  BY <1>1, <1>2, <1>3, <1>4, <1>5, <1>6, <1>7, <1>8, <1>9, <1>10, <1>11, <1>12, <1>13,
     <1>14, <1>15, <1>16, <1>17, <1>18, <1>19, <1>20, <1>21, <1>22, <1>23, <1>24
     DEF Opening, Work, CookStep, DelivererStep
----------------------------------------------------------------------------
(* Who holds which semaphore. *)

LEMMA OvenFree ==
  ASSUME SemInv, sem["oven"] # 0
  PROVE  \A q \in Procs : ~InOven(q)
  BY DEF SemInv

LEMMA OvenHeld ==
  ASSUME SemInv, Exclusive, NEW p \in Procs, InOven(p)
  PROVE  sem["oven"] = 0 /\ \A q \in Procs \ {p} : ~InOven(q)
  BY DEF SemInv, Exclusive

LEMMA TableHeld ==
  ASSUME SemInv, Exclusive, NEW p \in Procs, InTable(p)
  PROVE  sem["table"] = 0 /\ \A q \in Procs \ {p} : ~InTable(q)
  BY DEF SemInv, Exclusive

LEMMA LockStep ==
  ASSUME IInv, [Opening \/ Work]_vars
  PROVE  (WorkInv /\ SemInv /\ Exclusive)'
<1> USE KitchenAssumption DEF IInv, TypeOK, WorkInv, Procs, CookLabels, DelivererLabels, To,
        ovenVars, tableVars, control
<1>1. ASSUME NEW p \in Procs, Fork(p) PROVE (WorkInv /\ SemInv /\ Exclusive)'
  BY <1>1 DEF Fork, SemInv, Exclusive, InOven, InTable, Wait, Post, Attach
<1>2. ASSUME NEW p \in Procs, Start(p) PROVE (WorkInv /\ SemInv /\ Exclusive)'
  BY <1>2 DEF Start, SemInv, Exclusive, InOven, InTable, Wait, Post, Attach
<1>3. ASSUME NEW c \in Cooks, Prepare(c) PROVE (WorkInv /\ SemInv /\ Exclusive)'
  BY <1>3 DEF Prepare, SemInv, Exclusive, InOven, InTable, Wait, Post, Attach
<1>4. ASSUME NEW c \in Cooks, WaitOven(c) PROVE (WorkInv /\ SemInv /\ Exclusive)'
  <2>1. /\ sem["oven"] # 0
        /\ sem'["oven"] = sem["oven"] - 1 /\ sem'["table"] = sem["table"]
    BY <1>4 DEF WaitOven, Wait
  <2>2. \A q \in Procs : ~InOven(q)
    BY <2>1, OvenFree
  <2>3. pc' = [pc EXCEPT ![c] = pc'[c]] /\ pc'[c] \in {"scan_oven", "clear_oven"}
    BY <1>4 DEF WaitOven
  <2>. QED
    BY <1>4, <2>1, <2>2, <2>3 DEF WaitOven, SemInv, Exclusive, InOven, InTable, Wait, Post, Attach
<1>5. ASSUME NEW c \in Cooks, ScanOven(c) PROVE (WorkInv /\ SemInv /\ Exclusive)'
  <2>1. CASE idx[c] = OVEN_SIZE
    <3>1. InOven(c)
      BY <1>5 DEF ScanOven, InOven
    <3>2. pc' = [pc EXCEPT ![c] = "wait_oven"] /\ Post("oven")
      BY <1>5, <2>1 DEF ScanOven
    <3>3. sem'["oven"] = 1 /\ sem'["table"] = sem["table"]
      BY <3>1, <3>2, OvenHeld DEF Post
    <3>. QED
      BY <1>5, <3>1, <3>2, <3>3, OvenHeld DEF ScanOven, SemInv, Exclusive, InOven, InTable, Wait, Post, Attach
  <2>2. CASE idx[c] # OVEN_SIZE
    BY <1>5, <2>2 DEF ScanOven, SemInv, Exclusive, InOven, InTable, Wait, Post, Attach
  <2>. QED
    BY <2>1, <2>2
<1>6. ASSUME NEW c \in Cooks, MarkOven(c) PROVE (WorkInv /\ SemInv /\ Exclusive)'
  BY <1>6 DEF MarkOven, SemInv, Exclusive, InOven, InTable, Wait, Post, Attach
<1>7. ASSUME NEW c \in Cooks, TypeOven(c) PROVE (WorkInv /\ SemInv /\ Exclusive)'
  BY <1>7 DEF TypeOven, SemInv, Exclusive, InOven, InTable, Wait, Post, Attach
<1>8. ASSUME NEW c \in Cooks, PostOven(c) PROVE (WorkInv /\ SemInv /\ Exclusive)'
  <2>1. InOven(c) /\ sem["oven"] = 0 /\ \A q \in Procs \ {c} : ~InOven(q)
    <3>1. InOven(c)
      BY <1>8 DEF PostOven, InOven
    <3>. QED
      BY <3>1, OvenHeld
  <2>2. sem'["oven"] = 1 /\ sem'["table"] = sem["table"]
    BY <1>8, <2>1 DEF PostOven, Post
  <2>3. pc' = [pc EXCEPT ![c] = "baking"]
    BY <1>8 DEF PostOven
  <2>. QED
    BY <1>8, <2>1, <2>2, <2>3 DEF PostOven, SemInv, Exclusive, InOven, InTable, Wait, Post, Attach
<1>9. ASSUME NEW c \in Cooks, Baked(c) PROVE (WorkInv /\ SemInv /\ Exclusive)'
  BY <1>9 DEF Baked, SemInv, Exclusive, InOven, InTable, Wait, Post, Attach
<1>10. ASSUME NEW c \in Cooks, WaitOvenOut(c) PROVE (WorkInv /\ SemInv /\ Exclusive)'
  <2>1. /\ sem["oven"] # 0
        /\ sem'["oven"] = sem["oven"] - 1 /\ sem'["table"] = sem["table"]
    BY <1>10 DEF WaitOvenOut, Wait
  <2>2. \A q \in Procs : ~InOven(q)
    BY <2>1, OvenFree
  <2>3. pc' = [pc EXCEPT ![c] = pc'[c]] /\ pc'[c] \in {"scan_oven", "clear_oven"}
    BY <1>10 DEF WaitOvenOut
  <2>. QED
    BY <1>10, <2>1, <2>2, <2>3 DEF WaitOvenOut, SemInv, Exclusive, InOven, InTable, Wait, Post, Attach
<1>11. ASSUME NEW c \in Cooks, ClearOven(c) PROVE (WorkInv /\ SemInv /\ Exclusive)'
  BY <1>11 DEF ClearOven, SemInv, Exclusive, InOven, InTable, Wait, Post, Attach
<1>12. ASSUME NEW c \in Cooks, PostOvenOut(c) PROVE (WorkInv /\ SemInv /\ Exclusive)'
  <2>1. InOven(c) /\ sem["oven"] = 0 /\ \A q \in Procs \ {c} : ~InOven(q)
    <3>1. InOven(c)
      BY <1>12 DEF PostOvenOut, InOven
    <3>. QED
      BY <3>1, OvenHeld
  <2>2. sem'["oven"] = 1 /\ sem'["table"] = sem["table"]
    BY <1>12, <2>1 DEF PostOvenOut, Post
  <2>3. pc' = [pc EXCEPT ![c] = "carry"]
    BY <1>12 DEF PostOvenOut
  <2>. QED
    BY <1>12, <2>1, <2>2, <2>3 DEF PostOvenOut, SemInv, Exclusive, InOven, InTable, Wait, Post, Attach
<1>13. ASSUME NEW c \in Cooks, Carry(c) PROVE (WorkInv /\ SemInv /\ Exclusive)'
  BY <1>13 DEF Carry, SemInv, Exclusive, InOven, InTable, Wait, Post, Attach
<1>14. ASSUME NEW p \in Procs, WaitTable(p) PROVE (WorkInv /\ SemInv /\ Exclusive)'
  BY <1>14 DEF WaitTable, SemInv, Exclusive, InOven, InTable, Wait, Post, Attach
<1>15. ASSUME NEW c \in Cooks, ScanForRoom(c) PROVE (WorkInv /\ SemInv /\ Exclusive)'
  BY <1>15 DEF ScanForRoom, ScanTable, SemInv, Exclusive, InOven, InTable, Wait, Post, Attach
<1>16. ASSUME NEW c \in Cooks, MarkTable(c) PROVE (WorkInv /\ SemInv /\ Exclusive)'
  BY <1>16 DEF MarkTable, SemInv, Exclusive, InOven, InTable, Wait, Post, Attach
<1>17. ASSUME NEW c \in Cooks, TypeTable(c) PROVE (WorkInv /\ SemInv /\ Exclusive)'
  BY <1>17 DEF TypeTable, SemInv, Exclusive, InOven, InTable, Wait, Post, Attach
<1>18. ASSUME NEW c \in Cooks, PostTable(c, "prepare") PROVE (WorkInv /\ SemInv /\ Exclusive)'
  BY <1>18 DEF PostTable, SemInv, Exclusive, InOven, InTable, Wait, Post, Attach
<1>19. ASSUME NEW d \in Deliverers, AttachTable(d) PROVE (WorkInv /\ SemInv /\ Exclusive)'
  BY <1>19 DEF AttachTable, SemInv, Exclusive, InOven, InTable, Wait, Post, Attach
<1>20. ASSUME NEW d \in Deliverers, ScanForPizza(d) PROVE (WorkInv /\ SemInv /\ Exclusive)'
  BY <1>20 DEF ScanForPizza, ScanTable, SemInv, Exclusive, InOven, InTable, Wait, Post, Attach
<1>21. ASSUME NEW d \in Deliverers, ClearTable(d) PROVE (WorkInv /\ SemInv /\ Exclusive)'
  BY <1>21 DEF ClearTable, SemInv, Exclusive, InOven, InTable, Wait, Post, Attach
<1>22. ASSUME NEW d \in Deliverers, ReadType(d) PROVE (WorkInv /\ SemInv /\ Exclusive)'
  BY <1>22 DEF ReadType, SemInv, Exclusive, InOven, InTable, Wait, Post, Attach
<1>23. ASSUME NEW d \in Deliverers, PostTable(d, "attach") PROVE (WorkInv /\ SemInv /\ Exclusive)'
  BY <1>23 DEF PostTable, SemInv, Exclusive, InOven, InTable, Wait, Post, Attach
<1>24. CASE UNCHANGED vars
  BY <1>24 DEF vars, SemInv, Exclusive, InOven, InTable, Wait, Post, Attach
<1> HIDE DEF IInv, WorkInv
<1>. QED
  BY <1>1, <1>2, <1>3, <1>4, <1>5, <1>6, <1>7, <1>8, <1>9, <1>10, <1>11, <1>12, <1>13,
     <1>14, <1>15, <1>16, <1>17, <1>18, <1>19, <1>20, <1>21, <1>22, <1>23, <1>24
     DEF Opening, Work, CookStep, DelivererStep

----------------------------------------------------------------------------
LEMMA PlaceStep ==
  ASSUME IInv, [Opening \/ Work]_vars
  PROVE  (FreePlace /\ MarkedFirst)'
<1> USE KitchenAssumption DEF IInv, TypeOK, Procs, CookLabels, DelivererLabels, To,
        ovenVars, tableVars, control
<1>1. ASSUME NEW p \in Procs, Fork(p) PROVE (FreePlace /\ MarkedFirst)'
  BY <1>1 DEF Fork, FreePlace, MarkedFirst, WorkInv, Attach, InTable
<1>2. ASSUME NEW p \in Procs, Start(p) PROVE (FreePlace /\ MarkedFirst)'
  BY <1>2 DEF Start, FreePlace, MarkedFirst, WorkInv, Attach, InTable
<1>3. ASSUME NEW c \in Cooks, Prepare(c) PROVE (FreePlace /\ MarkedFirst)'
  BY <1>3 DEF Prepare, FreePlace, MarkedFirst, WorkInv, Attach, InTable
<1>4. ASSUME NEW c \in Cooks, WaitOven(c) PROVE (FreePlace /\ MarkedFirst)'
  BY <1>4 DEF WaitOven, FreePlace, MarkedFirst, WorkInv, Attach, InTable
<1>5. ASSUME NEW c \in Cooks, ScanOven(c) PROVE (FreePlace /\ MarkedFirst)'
  BY <1>5 DEF ScanOven, FreePlace, MarkedFirst, WorkInv, Attach, InTable
<1>6. ASSUME NEW c \in Cooks, MarkOven(c) PROVE (FreePlace /\ MarkedFirst)'
  <2>1. \A q \in Procs \ {c} : ~InOven(q)
    <3>1. InOven(c)
      BY <1>6 DEF MarkOven, InOven
    <3>. QED
      BY <3>1, OvenHeld
  <2>2. pc' = [pc EXCEPT ![c] = pc'[c]] /\ idx' = idx /\ idx[c] \in Slots(OVEN_SIZE)
    BY <1>6 DEF MarkOven
  <2>3. \A q \in Procs \ {c} : pc'[q] = pc[q] /\ ~InOven(q)
    BY <2>1, <2>2
  <2>. QED
    BY <1>6, <2>2, <2>3 DEF MarkOven, FreePlace, MarkedFirst, InOven
<1>7. ASSUME NEW c \in Cooks, TypeOven(c) PROVE (FreePlace /\ MarkedFirst)'
  BY <1>7 DEF TypeOven, FreePlace, MarkedFirst, WorkInv, Attach, InTable
<1>8. ASSUME NEW c \in Cooks, PostOven(c) PROVE (FreePlace /\ MarkedFirst)'
  BY <1>8 DEF PostOven, FreePlace, MarkedFirst, WorkInv, Attach, InTable
<1>9. ASSUME NEW c \in Cooks, Baked(c) PROVE (FreePlace /\ MarkedFirst)'
  BY <1>9 DEF Baked, FreePlace, MarkedFirst, WorkInv, Attach, InTable
<1>10. ASSUME NEW c \in Cooks, WaitOvenOut(c) PROVE (FreePlace /\ MarkedFirst)'
  BY <1>10 DEF WaitOvenOut, FreePlace, MarkedFirst, WorkInv, Attach, InTable
<1>11. ASSUME NEW c \in Cooks, ClearOven(c) PROVE (FreePlace /\ MarkedFirst)'
  BY <1>11 DEF ClearOven, FreePlace, MarkedFirst, WorkInv, Attach, InTable
<1>12. ASSUME NEW c \in Cooks, PostOvenOut(c) PROVE (FreePlace /\ MarkedFirst)'
  BY <1>12 DEF PostOvenOut, FreePlace, MarkedFirst, WorkInv, Attach, InTable
<1>13. ASSUME NEW c \in Cooks, Carry(c) PROVE (FreePlace /\ MarkedFirst)'
  BY <1>13 DEF Carry, FreePlace, MarkedFirst, WorkInv, Attach, InTable
<1>14. ASSUME NEW p \in Procs, WaitTable(p) PROVE (FreePlace /\ MarkedFirst)'
  BY <1>14 DEF WaitTable, FreePlace, MarkedFirst, WorkInv, Attach, InTable
<1>15. ASSUME NEW c \in Cooks, ScanForRoom(c) PROVE (FreePlace /\ MarkedFirst)'
  BY <1>15 DEF ScanForRoom, ScanTable, FreePlace, MarkedFirst, WorkInv, Attach, InTable
<1>16. ASSUME NEW c \in Cooks, MarkTable(c) PROVE (FreePlace /\ MarkedFirst)'
  <2>1. \A q \in Procs \ {c} : ~InTable(q)
    <3>1. InTable(c)
      BY <1>16 DEF MarkTable, InTable
    <3>. QED
      BY <3>1, TableHeld
  <2>2. pc' = [pc EXCEPT ![c] = pc'[c]] /\ idx' = idx /\ idx[c] \in Slots(TABLE_SIZE)
    BY <1>16 DEF MarkTable
  <2>3. \A q \in Procs \ {c} : pc'[q] = pc[q] /\ ~InTable(q)
    BY <2>1, <2>2
  <2>. QED
    BY <1>16, <2>2, <2>3 DEF MarkTable, FreePlace, MarkedFirst, InTable
<1>17. ASSUME NEW c \in Cooks, TypeTable(c) PROVE (FreePlace /\ MarkedFirst)'
  BY <1>17 DEF TypeTable, FreePlace, MarkedFirst, WorkInv, Attach, InTable
<1>18. ASSUME NEW c \in Cooks, PostTable(c, "prepare") PROVE (FreePlace /\ MarkedFirst)'
  BY <1>18 DEF PostTable, FreePlace, MarkedFirst, WorkInv, Attach, InTable
<1>19. ASSUME NEW d \in Deliverers, AttachTable(d) PROVE (FreePlace /\ MarkedFirst)'
  BY <1>19 DEF AttachTable, FreePlace, MarkedFirst, WorkInv, Attach, InTable
<1>20. ASSUME NEW d \in Deliverers, ScanForPizza(d) PROVE (FreePlace /\ MarkedFirst)'
  BY <1>20 DEF ScanForPizza, ScanTable, FreePlace, MarkedFirst, WorkInv, Attach, InTable
<1>21. ASSUME NEW d \in Deliverers, ClearTable(d) PROVE (FreePlace /\ MarkedFirst)'
  <2>1. \A q \in Procs \ {d} : ~InTable(q)
    <3>1. InTable(d)
      BY <1>21 DEF ClearTable, InTable
    <3>. QED
      BY <3>1, TableHeld
  <2>2. pc' = [pc EXCEPT ![d] = pc'[d]] /\ idx' = idx /\ idx[d] \in Slots(TABLE_SIZE)
    BY <1>21 DEF ClearTable
  <2>3. \A q \in Procs \ {d} : pc'[q] = pc[q] /\ ~InTable(q)
    BY <2>1, <2>2
  <2>. QED
    BY <1>21, <2>2, <2>3 DEF ClearTable, FreePlace, MarkedFirst, InTable
<1>22. ASSUME NEW d \in Deliverers, ReadType(d) PROVE (FreePlace /\ MarkedFirst)'
  BY <1>22 DEF ReadType, FreePlace, MarkedFirst, WorkInv, Attach, InTable
<1>23. ASSUME NEW d \in Deliverers, PostTable(d, "attach") PROVE (FreePlace /\ MarkedFirst)'
  BY <1>23 DEF PostTable, FreePlace, MarkedFirst, WorkInv, Attach, InTable
<1>24. CASE UNCHANGED vars
  BY <1>24 DEF vars, FreePlace, MarkedFirst, WorkInv, Attach, InTable
<1> HIDE DEF IInv
<1>. QED
  BY <1>1, <1>2, <1>3, <1>4, <1>5, <1>6, <1>7, <1>8, <1>9, <1>10, <1>11, <1>12, <1>13,
     <1>14, <1>15, <1>16, <1>17, <1>18, <1>19, <1>20, <1>21, <1>22, <1>23, <1>24
     DEF Opening, Work, CookStep, DelivererStep

----------------------------------------------------------------------------
LEMMA OwnershipStep ==
  ASSUME IInv, [Opening \/ Work]_vars
  PROVE  OvenOwnership'
<1> USE KitchenAssumption DEF IInv, TypeOK, Procs, CookLabels, DelivererLabels, To,
        ovenVars, tableVars, control
<1>1. ASSUME NEW p \in Procs, Fork(p) PROVE OvenOwnership'
  BY <1>1 DEF Fork, OvenOwnership, InTheOven, WorkInv, Attach
<1>2. ASSUME NEW p \in Procs, Start(p) PROVE OvenOwnership'
  BY <1>2 DEF Start, OvenOwnership, InTheOven, WorkInv, Attach
<1>3. ASSUME NEW c \in Cooks, Prepare(c) PROVE OvenOwnership'
  BY <1>3 DEF Prepare, OvenOwnership, InTheOven, WorkInv, Attach
<1>4. ASSUME NEW c \in Cooks, WaitOven(c) PROVE OvenOwnership'
  BY <1>4 DEF WaitOven, OvenOwnership, InTheOven, WorkInv, Attach
<1>5. ASSUME NEW c \in Cooks, ScanOven(c) PROVE OvenOwnership'
  BY <1>5 DEF ScanOven, OvenOwnership, InTheOven, WorkInv, Attach
<1>6. ASSUME NEW c \in Cooks, MarkOven(c) PROVE OvenOwnership'
  <2> DEFINE s == idx[c]
  <2>1. s \in Slots(OVEN_SIZE) /\ pizza_in_oven[s] = 0 /\ ~InTheOven(c)
    BY <1>6 DEF MarkOven, FreePlace, InTheOven
  <2>2. \A d \in Cooks : ~(InTheOven(d) /\ place_in_oven[d] = s)
    BY <2>1 DEF OvenOwnership
  <2>3. /\ pizza_in_oven' = [pizza_in_oven EXCEPT ![s] = 1]
        /\ place_in_oven' = [place_in_oven EXCEPT ![c] = s]
    BY <1>6 DEF MarkOven
  <2>4. InTheOven(c)' /\ \A d \in Cooks \ {c} : InTheOven(d)' <=> InTheOven(d)
    BY <1>6 DEF MarkOven, InTheOven
  <2> HIDE DEF s
  <2>5. \A d, e \in Cooks : d # e /\ InTheOven(d)' /\ InTheOven(e)' => place_in_oven'[d] # place_in_oven'[e]
    BY <2>1, <2>2, <2>3, <2>4 DEF OvenOwnership
  <2>6. ASSUME NEW t \in Slots(OVEN_SIZE)
        PROVE  pizza_in_oven'[t] = 1 <=> \E d \in Cooks : InTheOven(d)' /\ place_in_oven'[d] = t
    BY <2>1, <2>2, <2>3, <2>4 DEF OvenOwnership
  <2>. QED
    BY <2>5, <2>6 DEF OvenOwnership
<1>7. ASSUME NEW c \in Cooks, TypeOven(c) PROVE OvenOwnership'
  BY <1>7 DEF TypeOven, OvenOwnership, InTheOven, WorkInv, Attach
<1>8. ASSUME NEW c \in Cooks, PostOven(c) PROVE OvenOwnership'
  BY <1>8 DEF PostOven, OvenOwnership, InTheOven, WorkInv, Attach
<1>9. ASSUME NEW c \in Cooks, Baked(c) PROVE OvenOwnership'
  BY <1>9 DEF Baked, OvenOwnership, InTheOven, WorkInv, Attach
<1>10. ASSUME NEW c \in Cooks, WaitOvenOut(c) PROVE OvenOwnership'
  BY <1>10 DEF WaitOvenOut, OvenOwnership, InTheOven, WorkInv, Attach
<1>11. ASSUME NEW c \in Cooks, ClearOven(c) PROVE OvenOwnership'
  BY <1>11 DEF ClearOven, OvenOwnership, InTheOven, WorkInv, Attach
<1>12. ASSUME NEW c \in Cooks, PostOvenOut(c) PROVE OvenOwnership'
  BY <1>12 DEF PostOvenOut, OvenOwnership, InTheOven, WorkInv, Attach
<1>13. ASSUME NEW c \in Cooks, Carry(c) PROVE OvenOwnership'
  BY <1>13 DEF Carry, OvenOwnership, InTheOven, WorkInv, Attach
<1>14. ASSUME NEW p \in Procs, WaitTable(p) PROVE OvenOwnership'
  BY <1>14 DEF WaitTable, OvenOwnership, InTheOven, WorkInv, Attach
<1>15. ASSUME NEW c \in Cooks, ScanForRoom(c) PROVE OvenOwnership'
  BY <1>15 DEF ScanForRoom, ScanTable, OvenOwnership, InTheOven, WorkInv, Attach
<1>16. ASSUME NEW c \in Cooks, MarkTable(c) PROVE OvenOwnership'
  BY <1>16 DEF MarkTable, OvenOwnership, InTheOven, WorkInv, Attach
<1>17. ASSUME NEW c \in Cooks, TypeTable(c) PROVE OvenOwnership'
  BY <1>17 DEF TypeTable, OvenOwnership, InTheOven, WorkInv, Attach
<1>18. ASSUME NEW c \in Cooks, PostTable(c, "prepare") PROVE OvenOwnership'
  BY <1>18 DEF PostTable, OvenOwnership, InTheOven, WorkInv, Attach
<1>19. ASSUME NEW d \in Deliverers, AttachTable(d) PROVE OvenOwnership'
  BY <1>19 DEF AttachTable, OvenOwnership, InTheOven, WorkInv, Attach
<1>20. ASSUME NEW d \in Deliverers, ScanForPizza(d) PROVE OvenOwnership'
  BY <1>20 DEF ScanForPizza, ScanTable, OvenOwnership, InTheOven, WorkInv, Attach
<1>21. ASSUME NEW d \in Deliverers, ClearTable(d) PROVE OvenOwnership'
  BY <1>21 DEF ClearTable, OvenOwnership, InTheOven, WorkInv, Attach
<1>22. ASSUME NEW d \in Deliverers, ReadType(d) PROVE OvenOwnership'
  BY <1>22 DEF ReadType, OvenOwnership, InTheOven, WorkInv, Attach
<1>23. ASSUME NEW d \in Deliverers, PostTable(d, "attach") PROVE OvenOwnership'
  BY <1>23 DEF PostTable, OvenOwnership, InTheOven, WorkInv, Attach
<1>24. CASE UNCHANGED vars
  BY <1>24 DEF vars, OvenOwnership, InTheOven, WorkInv, Attach
<1> HIDE DEF IInv
<1>. QED
  BY <1>1, <1>2, <1>3, <1>4, <1>5, <1>6, <1>7, <1>8, <1>9, <1>10, <1>11, <1>12, <1>13,
     <1>14, <1>15, <1>16, <1>17, <1>18, <1>19, <1>20, <1>21, <1>22, <1>23, <1>24
     DEF Opening, Work, CookStep, DelivererStep

----------------------------------------------------------------------------
(* The refinement: what PizzaFlow sees. *)

ovenBar    == [s \in Slots(OVEN_SIZE) |-> Owner(s)]
tableBar   == [s \in Slots(TABLE_SIZE) |-> OnTable(s)]
stageBar   == [c \in Cooks |-> Stage(c)]
carriedBar == [d \in Deliverers |-> Carried(d)]

\* A marked slot belongs to the one cook who remembers it, the others to nobody.
LEMMA OwnerIs ==
  ASSUME IInv, NEW c \in Cooks, NEW s \in Slots(OVEN_SIZE), InTheOven(c), place_in_oven[c] = s
  PROVE  Owner(s) = c
<1>1. \A d \in Cooks : InTheOven(d) /\ place_in_oven[d] = s => d = c
  BY DEF IInv, OvenOwnership
<1>2. pizza_in_oven[s] = 1
  BY DEF IInv, OvenOwnership
<1>. QED
  BY <1>1, <1>2 DEF Owner

LEMMA OwnerIsNext ==
  ASSUME IInv', NEW c \in Cooks, NEW s \in Slots(OVEN_SIZE), InTheOven(c)', place_in_oven'[c] = s
  PROVE  Owner(s)' = c
<1>1. \A d \in Cooks : InTheOven(d)' /\ place_in_oven'[d] = s => d = c
  BY DEF IInv, OvenOwnership
<1>2. pizza_in_oven'[s] = 1
  BY DEF IInv, OvenOwnership
<1>. QED
  BY <1>1, <1>2 DEF Owner

\* A slot keeps its owner while the memory and who remembers the slot stay as they are.
LEMMA OwnerKept ==
  ASSUME IInv, IInv', NEW s \in Slots(OVEN_SIZE), pizza_in_oven'[s] = pizza_in_oven[s],
         \A c \in Cooks : InTheOven(c) /\ place_in_oven[c] = s =>
                           InTheOven(c)' /\ place_in_oven'[c] = s
  PROVE  Owner(s)' = Owner(s)
<1>1. CASE pizza_in_oven[s] = 1
  <2>1. PICK c \in Cooks : InTheOven(c) /\ place_in_oven[c] = s
    BY <1>1 DEF IInv, OvenOwnership
  <2>. QED
    BY <2>1, OwnerIs, OwnerIsNext
<1>2. CASE pizza_in_oven[s] # 1
  BY <1>2 DEF Owner
<1>. QED
  BY <1>1, <1>2

LEMMA OvenUnchanged ==
  ASSUME IInv, IInv', UNCHANGED <<pizza_in_oven, place_in_oven>>,
         \A c \in Cooks : InTheOven(c)' <=> InTheOven(c)
  PROVE  UNCHANGED ovenBar
  BY OwnerKept DEF ovenBar

LEMMA TableUnchanged ==
  ASSUME UNCHANGED <<pizza_on_table, table_type>>,
         \A c \in Cooks, s \in Slots(TABLE_SIZE) : (pc[c] = "type_table" /\ idx[c] = s)' <=>
                                            (pc[c] = "type_table" /\ idx[c] = s)
  PROVE  UNCHANGED tableBar
  BY DEF tableBar, OnTable

LEMMA CarriedUnchanged ==
  ASSUME UNCHANGED <<pizza_type, table_type>>,
         \A d \in Deliverers : /\ (pc[d] = "read_type")' <=> pc[d] = "read_type"
                               /\ pc[d] = "read_type" => idx'[d] = idx[d]
  PROVE  UNCHANGED carriedBar
  BY DEF carriedBar, Carried

\* A step of one cook leaves the stage of every other pizza.
LEMMA StageMoves ==
  ASSUME TypeOK, NEW c \in Cooks, NEW l, pc' = [pc EXCEPT ![c] = l]
  PROVE  /\ pc'[c] = l
         /\ \A d \in Cooks : d # c => Stage(d)' = Stage(d)
<1>1. pc'[c] = l /\ \A d \in Cooks : d # c => pc'[d] = pc[d]
  BY DEF TypeOK, Procs
<1>. QED
  BY <1>1 DEF Stage, InTheOven

LEMMA StageBecomes ==
  ASSUME NEW c \in Cooks, NEW t, \A d \in Cooks : d # c => Stage(d)' = Stage(d), Stage(c)' = t
  PROVE  stageBar' = [stageBar EXCEPT ![c] = t] /\ stageBar[c] = Stage(c)
  BY DEF stageBar

LEMMA Stutters ==
  ASSUME UNCHANGED <<ovenBar, tableBar, stageBar, pizza_TYPE, carriedBar>>
  PROVE  UNCHANGED Flow!vars
  BY DEF Flow!vars, ovenBar, tableBar, stageBar, carriedBar

LEMMA FlowStep ==
  ASSUME IInv, IInv', [Opening \/ Work]_vars
  PROVE  [Flow!Next]_(Flow!vars)
<1> USE KitchenAssumption DEF TypeOK, Procs, CookLabels, DelivererLabels, To, ovenVars, tableVars,
        control
<1>1. ASSUME NEW p \in Procs, Fork(p) PROVE [Flow!Next]_(Flow!vars)
  <2>1. UNCHANGED ovenBar
    BY <1>1, OvenUnchanged DEF Fork, IInv, InTheOven, WorkInv, Attach
  <2>2. UNCHANGED tableBar
    BY <1>1, TableUnchanged DEF Fork, IInv, WorkInv, Attach
  <2>3. UNCHANGED stageBar
    BY <1>1 DEF Fork, IInv, WorkInv, Attach, stageBar, Stage, InTheOven
  <2>4. UNCHANGED <<pizza_TYPE, carriedBar>>
    BY <1>1, CarriedUnchanged DEF Fork, IInv, WorkInv, Attach
  <2>. QED
    BY <2>1, <2>2, <2>3, <2>4, Stutters
<1>2. ASSUME NEW p \in Procs, Start(p) PROVE [Flow!Next]_(Flow!vars)
  <2>1. UNCHANGED ovenBar
    BY <1>2, OvenUnchanged DEF Start, IInv, InTheOven, WorkInv, Attach
  <2>2. UNCHANGED tableBar
    BY <1>2, TableUnchanged DEF Start, IInv, WorkInv, Attach
  <2>3. UNCHANGED stageBar
    BY <1>2 DEF Start, IInv, WorkInv, Attach, stageBar, Stage, InTheOven
  <2>4. UNCHANGED <<pizza_TYPE, carriedBar>>
    BY <1>2, CarriedUnchanged DEF Start, IInv, WorkInv, Attach
  <2>. QED
    BY <2>1, <2>2, <2>3, <2>4, Stutters
<1>3. ASSUME NEW c \in Cooks, Prepare(c) PROVE [Flow!Next]_(Flow!vars)
  <2>1. UNCHANGED ovenBar
    BY <1>3, OvenUnchanged DEF Prepare, IInv, InTheOven, WorkInv, Attach
  <2>2. UNCHANGED tableBar
    BY <1>3, TableUnchanged DEF Prepare, IInv, WorkInv, Attach
  <2>3. stageBar' = [stageBar EXCEPT ![c] = "raw"] /\ stageBar[c] = "idle"
    <3>1. pc[c] = "prepare" /\ pc' = [pc EXCEPT ![c] = "wait_oven"]
      BY <1>3 DEF Prepare, IInv, WorkInv, Attach
    <3>2. pc'[c] = "wait_oven" /\ \A d \in Cooks : d # c => Stage(d)' = Stage(d)
      BY <3>1, StageMoves DEF IInv
    <3>3. Stage(c) = "idle" /\ Stage(c)' = "raw"
      BY <3>1, <3>2 DEF Stage, InTheOven
    <3>. QED
      BY <3>2, <3>3, StageBecomes
  <2>4. UNCHANGED carriedBar
    BY <1>3, CarriedUnchanged DEF Prepare, IInv, WorkInv, Attach
  <2>5. \E t \in Types : pizza_TYPE' = [pizza_TYPE EXCEPT ![c] = t]
    BY <1>3 DEF Prepare
  <2>6. Flow!Make(c)
    BY <2>1, <2>2, <2>3, <2>4, <2>5 DEF Flow!Make, ovenBar, tableBar, stageBar, carriedBar
  <2>. QED
    BY <2>6 DEF Flow!Next
<1>4. ASSUME NEW c \in Cooks, WaitOven(c) PROVE [Flow!Next]_(Flow!vars)
  <2>1. UNCHANGED ovenBar
    BY <1>4, OvenUnchanged DEF WaitOven, IInv, InTheOven, WorkInv, Attach
  <2>2. UNCHANGED tableBar
    BY <1>4, TableUnchanged DEF WaitOven, IInv, WorkInv, Attach
  <2>3. UNCHANGED stageBar
    BY <1>4 DEF WaitOven, IInv, WorkInv, Attach, stageBar, Stage, InTheOven
  <2>4. UNCHANGED <<pizza_TYPE, carriedBar>>
    BY <1>4, CarriedUnchanged DEF WaitOven, IInv, WorkInv, Attach
  <2>. QED
    BY <2>1, <2>2, <2>3, <2>4, Stutters
<1>5. ASSUME NEW c \in Cooks, ScanOven(c) PROVE [Flow!Next]_(Flow!vars)
  <2>1. UNCHANGED ovenBar
    BY <1>5, OvenUnchanged DEF ScanOven, IInv, InTheOven, WorkInv, Attach
  <2>2. UNCHANGED tableBar
    BY <1>5, TableUnchanged DEF ScanOven, IInv, WorkInv, Attach
  <2>3. UNCHANGED stageBar
    BY <1>5 DEF ScanOven, IInv, WorkInv, Attach, stageBar, Stage, InTheOven
  <2>4. UNCHANGED <<pizza_TYPE, carriedBar>>
    BY <1>5, CarriedUnchanged DEF ScanOven, IInv, WorkInv, Attach
  <2>. QED
    BY <2>1, <2>2, <2>3, <2>4, Stutters
<1>6. ASSUME NEW c \in Cooks, MarkOven(c) PROVE [Flow!Next]_(Flow!vars)
  <2>1. PICK s \in Slots(OVEN_SIZE) : /\ s = idx[c] /\ pizza_in_oven[s] = 0
                                /\ pizza_in_oven' = [pizza_in_oven EXCEPT ![s] = 1]
                                /\ place_in_oven' = [place_in_oven EXCEPT ![c] = s]
    BY <1>6 DEF MarkOven, IInv, FreePlace
  <2>2. UNCHANGED tableBar
    BY <1>6, TableUnchanged DEF MarkOven, IInv, WorkInv, Attach
  <2>3. stageBar' = [stageBar EXCEPT ![c] = "baking"] /\ stageBar[c] = "raw"
    <3>1. pc[c] = "mark_oven" /\ pc' = [pc EXCEPT ![c] = "type_oven"]
      BY <1>6 DEF MarkOven
    <3>2. pc'[c] = "type_oven" /\ \A d \in Cooks : d # c => Stage(d)' = Stage(d)
      BY <3>1, StageMoves DEF IInv
    <3>3. Stage(c) = "raw" /\ Stage(c)' = "baking"
      BY <3>1, <3>2 DEF Stage, InTheOven
    <3>. QED
      BY <3>2, <3>3, StageBecomes
  <2>4. UNCHANGED carriedBar
    BY <1>6, CarriedUnchanged DEF MarkOven, IInv, WorkInv, Attach
  <2>5. InTheOven(c)' /\ \A d \in Cooks \ {c} : InTheOven(d)' <=> InTheOven(d)
    BY <1>6 DEF MarkOven, IInv, InTheOven
  <2>6. Owner(s) = Empty
    BY <2>1 DEF Owner
  <2>7. Owner(s)' = c
    BY <2>1, <2>5, OwnerIsNext DEF IInv
  <2>8. ASSUME NEW t \in Slots(OVEN_SIZE), t # s PROVE Owner(t)' = Owner(t)
    <3>1. pizza_in_oven'[t] = pizza_in_oven[t]
      BY <2>1, <2>8 DEF IInv
    <3>2. ASSUME NEW d \in Cooks, InTheOven(d), place_in_oven[d] = t
          PROVE  InTheOven(d)' /\ place_in_oven'[d] = t
      <4>1. d # c
        BY <1>6, <3>2 DEF MarkOven, InTheOven
      <4>. QED
        BY <2>1, <2>5, <3>2, <4>1 DEF IInv
    <3>. QED
      BY <3>1, <3>2, OwnerKept
  <2>9. ovenBar[s] = Empty /\ ovenBar' = [ovenBar EXCEPT ![s] = c]
    BY <2>6, <2>7, <2>8 DEF ovenBar
  <2>10. UNCHANGED pizza_TYPE
    BY <1>6 DEF MarkOven
  <2>11. Flow!Bake(c)
    BY <2>2, <2>3, <2>4, <2>9, <2>10 DEF Flow!Bake, ovenBar, tableBar, stageBar, carriedBar
  <2>. QED
    BY <2>11 DEF Flow!Next
<1>7. ASSUME NEW c \in Cooks, TypeOven(c) PROVE [Flow!Next]_(Flow!vars)
  <2>1. UNCHANGED ovenBar
    BY <1>7, OvenUnchanged DEF TypeOven, IInv, InTheOven, WorkInv, Attach
  <2>2. UNCHANGED tableBar
    BY <1>7, TableUnchanged DEF TypeOven, IInv, WorkInv, Attach
  <2>3. UNCHANGED stageBar
    BY <1>7 DEF TypeOven, IInv, WorkInv, Attach, stageBar, Stage, InTheOven
  <2>4. UNCHANGED <<pizza_TYPE, carriedBar>>
    BY <1>7, CarriedUnchanged DEF TypeOven, IInv, WorkInv, Attach
  <2>. QED
    BY <2>1, <2>2, <2>3, <2>4, Stutters
<1>8. ASSUME NEW c \in Cooks, PostOven(c) PROVE [Flow!Next]_(Flow!vars)
  <2>1. UNCHANGED ovenBar
    BY <1>8, OvenUnchanged DEF PostOven, IInv, InTheOven, WorkInv, Attach
  <2>2. UNCHANGED tableBar
    BY <1>8, TableUnchanged DEF PostOven, IInv, WorkInv, Attach
  <2>3. UNCHANGED stageBar
    BY <1>8 DEF PostOven, IInv, WorkInv, Attach, stageBar, Stage, InTheOven
  <2>4. UNCHANGED <<pizza_TYPE, carriedBar>>
    BY <1>8, CarriedUnchanged DEF PostOven, IInv, WorkInv, Attach
  <2>. QED
    BY <2>1, <2>2, <2>3, <2>4, Stutters
<1>9. ASSUME NEW c \in Cooks, Baked(c) PROVE [Flow!Next]_(Flow!vars)
  <2>1. UNCHANGED ovenBar
    BY <1>9, OvenUnchanged DEF Baked, IInv, InTheOven, WorkInv, Attach
  <2>2. UNCHANGED tableBar
    BY <1>9, TableUnchanged DEF Baked, IInv, WorkInv, Attach
  <2>3. UNCHANGED stageBar
    BY <1>9 DEF Baked, IInv, WorkInv, Attach, stageBar, Stage, InTheOven
  <2>4. UNCHANGED <<pizza_TYPE, carriedBar>>
    BY <1>9, CarriedUnchanged DEF Baked, IInv, WorkInv, Attach
  <2>. QED
    BY <2>1, <2>2, <2>3, <2>4, Stutters
<1>10. ASSUME NEW c \in Cooks, WaitOvenOut(c) PROVE [Flow!Next]_(Flow!vars)
  <2>1. UNCHANGED ovenBar
    BY <1>10, OvenUnchanged DEF WaitOvenOut, IInv, InTheOven, WorkInv, Attach
  <2>2. UNCHANGED tableBar
    BY <1>10, TableUnchanged DEF WaitOvenOut, IInv, WorkInv, Attach
  <2>3. UNCHANGED stageBar
    BY <1>10 DEF WaitOvenOut, IInv, WorkInv, Attach, stageBar, Stage, InTheOven
  <2>4. UNCHANGED <<pizza_TYPE, carriedBar>>
    BY <1>10, CarriedUnchanged DEF WaitOvenOut, IInv, WorkInv, Attach
  <2>. QED
    BY <2>1, <2>2, <2>3, <2>4, Stutters
<1>11. ASSUME NEW c \in Cooks, ClearOven(c) PROVE [Flow!Next]_(Flow!vars)
  <2>1. PICK s \in Slots(OVEN_SIZE) : /\ s = place_in_oven[c]
                                /\ pizza_in_oven' = [pizza_in_oven EXCEPT ![s] = 0]
                                /\ place_in_oven' = place_in_oven
    BY <1>11 DEF ClearOven, IInv
  <2>2. UNCHANGED tableBar
    BY <1>11, TableUnchanged DEF ClearOven, IInv, WorkInv, Attach
  <2>3. stageBar' = [stageBar EXCEPT ![c] = "baked"] /\ stageBar[c] = "baking"
    <3>1. pc[c] = "clear_oven" /\ pc' = [pc EXCEPT ![c] = "post_oven_out"]
      BY <1>11 DEF ClearOven
    <3>2. pc'[c] = "post_oven_out" /\ \A d \in Cooks : d # c => Stage(d)' = Stage(d)
      BY <3>1, StageMoves DEF IInv
    <3>3. Stage(c) = "baking" /\ Stage(c)' = "baked"
      BY <3>1, <3>2 DEF Stage, InTheOven
    <3>. QED
      BY <3>2, <3>3, StageBecomes
  <2>4. UNCHANGED carriedBar
    BY <1>11, CarriedUnchanged DEF ClearOven, IInv, WorkInv, Attach
  <2>5. InTheOven(c) /\ \A d \in Cooks \ {c} : InTheOven(d)' <=> InTheOven(d)
    BY <1>11 DEF ClearOven, IInv, InTheOven
  <2>6. Owner(s) = c
    BY <2>1, <2>5, OwnerIs
  <2>7. Owner(s)' = Empty
    BY <2>1 DEF Owner, IInv
  <2>8. ASSUME NEW t \in Slots(OVEN_SIZE), t # s PROVE Owner(t)' = Owner(t)
    <3>1. pizza_in_oven'[t] = pizza_in_oven[t]
      BY <2>1, <2>8 DEF IInv
    <3>2. ASSUME NEW d \in Cooks, InTheOven(d), place_in_oven[d] = t
          PROVE  InTheOven(d)' /\ place_in_oven'[d] = t
      BY <2>1, <2>5, <2>8, <3>2
    <3>. QED
      BY <3>1, <3>2, OwnerKept
  <2>9. ovenBar[s] = c /\ ovenBar' = [ovenBar EXCEPT ![s] = Empty]
    BY <2>6, <2>7, <2>8 DEF ovenBar
  <2>10. UNCHANGED pizza_TYPE
    BY <1>11 DEF ClearOven
  <2>11. Flow!TakeOut(c)
    BY <2>2, <2>3, <2>4, <2>9, <2>10 DEF Flow!TakeOut, ovenBar, tableBar, stageBar, carriedBar
  <2>. QED
    BY <2>11 DEF Flow!Next
<1>12. ASSUME NEW c \in Cooks, PostOvenOut(c) PROVE [Flow!Next]_(Flow!vars)
  <2>1. UNCHANGED ovenBar
    BY <1>12, OvenUnchanged DEF PostOvenOut, IInv, InTheOven, WorkInv, Attach
  <2>2. UNCHANGED tableBar
    BY <1>12, TableUnchanged DEF PostOvenOut, IInv, WorkInv, Attach
  <2>3. UNCHANGED stageBar
    BY <1>12 DEF PostOvenOut, IInv, WorkInv, Attach, stageBar, Stage, InTheOven
  <2>4. UNCHANGED <<pizza_TYPE, carriedBar>>
    BY <1>12, CarriedUnchanged DEF PostOvenOut, IInv, WorkInv, Attach
  <2>. QED
    BY <2>1, <2>2, <2>3, <2>4, Stutters
<1>13. ASSUME NEW c \in Cooks, Carry(c) PROVE [Flow!Next]_(Flow!vars)
  <2>1. UNCHANGED ovenBar
    BY <1>13, OvenUnchanged DEF Carry, IInv, InTheOven, WorkInv, Attach
  <2>2. UNCHANGED tableBar
    BY <1>13, TableUnchanged DEF Carry, IInv, WorkInv, Attach
  <2>3. UNCHANGED stageBar
    BY <1>13 DEF Carry, IInv, WorkInv, Attach, stageBar, Stage, InTheOven
  <2>4. UNCHANGED <<pizza_TYPE, carriedBar>>
    BY <1>13, CarriedUnchanged DEF Carry, IInv, WorkInv, Attach
  <2>. QED
    BY <2>1, <2>2, <2>3, <2>4, Stutters
<1>14. ASSUME NEW p \in Procs, WaitTable(p) PROVE [Flow!Next]_(Flow!vars)
  <2>1. UNCHANGED ovenBar
    BY <1>14, OvenUnchanged DEF WaitTable, IInv, InTheOven, WorkInv, Attach
  <2>2. UNCHANGED tableBar
    BY <1>14, TableUnchanged DEF WaitTable, IInv, WorkInv, Attach
  <2>3. UNCHANGED stageBar
    BY <1>14 DEF WaitTable, IInv, WorkInv, Attach, stageBar, Stage, InTheOven
  <2>4. UNCHANGED <<pizza_TYPE, carriedBar>>
    BY <1>14, CarriedUnchanged DEF WaitTable, IInv, WorkInv, Attach
  <2>. QED
    BY <2>1, <2>2, <2>3, <2>4, Stutters
<1>15. ASSUME NEW c \in Cooks, ScanForRoom(c) PROVE [Flow!Next]_(Flow!vars)
  <2>1. UNCHANGED ovenBar
    BY <1>15, OvenUnchanged DEF ScanForRoom, ScanTable, IInv, InTheOven, WorkInv, Attach
  <2>2. UNCHANGED tableBar
    BY <1>15, TableUnchanged DEF ScanForRoom, ScanTable, IInv, WorkInv, Attach
  <2>3. UNCHANGED stageBar
    BY <1>15 DEF ScanForRoom, ScanTable, IInv, WorkInv, Attach, stageBar, Stage, InTheOven
  <2>4. UNCHANGED <<pizza_TYPE, carriedBar>>
    BY <1>15, CarriedUnchanged DEF ScanForRoom, ScanTable, IInv, WorkInv, Attach
  <2>. QED
    BY <2>1, <2>2, <2>3, <2>4, Stutters
<1>16. ASSUME NEW c \in Cooks, MarkTable(c) PROVE [Flow!Next]_(Flow!vars)
  <2>1. UNCHANGED ovenBar
    BY <1>16, OvenUnchanged DEF MarkTable, IInv, InTheOven, WorkInv, Attach
  <2>2. UNCHANGED tableBar
    <3>1. PICK s \in Slots(TABLE_SIZE) : /\ s = idx[c] /\ pizza_on_table[s] = 0
                                 /\ pizza_on_table' = [pizza_on_table EXCEPT ![s] = 1]
                                 /\ UNCHANGED <<table_type, idx>>
      BY <1>16 DEF MarkTable, IInv, FreePlace
    <3>2. pc[c] # "type_table" /\ pc'[c] = "type_table"
      BY <1>16 DEF MarkTable, IInv
    <3>3. \A d \in Cooks \ {c} : pc'[d] = pc[d]
      BY <1>16 DEF MarkTable, IInv
    <3>4. OnTable(s) = Empty /\ OnTable(s)' = Empty
      BY <3>1, <3>2 DEF OnTable
    <3>5. ASSUME NEW t \in Slots(TABLE_SIZE), t # s PROVE OnTable(t)' = OnTable(t)
      BY <3>1, <3>2, <3>3, <3>5 DEF OnTable, IInv
    <3>. QED
      BY <3>4, <3>5 DEF tableBar
  <2>3. UNCHANGED stageBar
    BY <1>16 DEF MarkTable, IInv, WorkInv, Attach, stageBar, Stage, InTheOven
  <2>4. UNCHANGED carriedBar
    BY <1>16, CarriedUnchanged DEF MarkTable, IInv, WorkInv, Attach
  <2>5. UNCHANGED pizza_TYPE
    BY <1>16 DEF MarkTable
  <2>. QED
    BY <2>1, <2>2, <2>3, <2>4, <2>5, Stutters
<1>17. ASSUME NEW c \in Cooks, TypeTable(c) PROVE [Flow!Next]_(Flow!vars)
  <2>1. UNCHANGED ovenBar
    BY <1>17, OvenUnchanged DEF TypeTable, IInv, InTheOven, WorkInv, Attach
  <2>2. PICK s \in Slots(TABLE_SIZE) : /\ s = idx[c] /\ pizza_on_table[s] = 1
                                 /\ table_type' = [table_type EXCEPT ![s] = pizza_TYPE[c]]
                                 /\ UNCHANGED <<pizza_on_table, idx>>
    BY <1>17 DEF TypeTable, IInv, MarkedFirst
  <2>3. stageBar' = [stageBar EXCEPT ![c] = "idle"] /\ stageBar[c] = "baked"
    <3>1. pc[c] = "type_table" /\ pc' = [pc EXCEPT ![c] = "post_table"]
      BY <1>17 DEF TypeTable
    <3>2. pc'[c] = "post_table" /\ \A d \in Cooks : d # c => Stage(d)' = Stage(d)
      BY <3>1, StageMoves DEF IInv
    <3>3. Stage(c) = "baked" /\ Stage(c)' = "idle"
      BY <3>1, <3>2 DEF Stage, InTheOven
    <3>. QED
      BY <3>2, <3>3, StageBecomes
  <2>4. UNCHANGED carriedBar
    <3>1. \A q \in Procs \ {c} : pc[q] \notin {"type_table", "read_type"}
      BY <1>17, TableHeld DEF TypeTable, InTable, IInv
    <3>2. \A d \in Deliverers : pc[d] # "read_type" /\ pc'[d] # "read_type"
      BY <1>17, <3>1 DEF TypeTable, IInv
    <3>. QED
      BY <1>17, <3>2 DEF TypeTable, carriedBar, Carried
  <2>5. \A q \in Procs \ {c} : pc[q] # "type_table"
    BY <1>17, TableHeld DEF TypeTable, InTable, IInv
  <2>6. pc[c] = "type_table" /\ \A d \in Cooks : pc'[d] # "type_table"
    BY <1>17, <2>5 DEF TypeTable, IInv
  <2>7. OnTable(s) = Empty /\ OnTable(s)' = pizza_TYPE[c]
    BY <2>2, <2>6 DEF OnTable, IInv
  <2>8. ASSUME NEW t \in Slots(TABLE_SIZE), t # s PROVE OnTable(t)' = OnTable(t)
    BY <2>2, <2>5, <2>6, <2>8 DEF OnTable, IInv
  <2>9. tableBar[s] = Empty /\ tableBar' = [tableBar EXCEPT ![s] = pizza_TYPE[c]]
    BY <2>7, <2>8 DEF tableBar
  <2>10. UNCHANGED pizza_TYPE
    BY <1>17 DEF TypeTable
  <2>11. Flow!Lay(c)
    BY <2>1, <2>3, <2>4, <2>9, <2>10 DEF Flow!Lay, ovenBar, tableBar, stageBar, carriedBar
  <2>. QED
    BY <2>11 DEF Flow!Next
<1>18. ASSUME NEW c \in Cooks, PostTable(c, "prepare") PROVE [Flow!Next]_(Flow!vars)
  <2>1. UNCHANGED ovenBar
    BY <1>18, OvenUnchanged DEF PostTable, IInv, InTheOven, WorkInv, Attach
  <2>2. UNCHANGED tableBar
    BY <1>18, TableUnchanged DEF PostTable, IInv, WorkInv, Attach
  <2>3. UNCHANGED stageBar
    BY <1>18 DEF PostTable, IInv, WorkInv, Attach, stageBar, Stage, InTheOven
  <2>4. UNCHANGED <<pizza_TYPE, carriedBar>>
    BY <1>18, CarriedUnchanged DEF PostTable, IInv, WorkInv, Attach
  <2>. QED
    BY <2>1, <2>2, <2>3, <2>4, Stutters
<1>19. ASSUME NEW d \in Deliverers, AttachTable(d) PROVE [Flow!Next]_(Flow!vars)
  <2>1. UNCHANGED ovenBar
    BY <1>19, OvenUnchanged DEF AttachTable, IInv, InTheOven, WorkInv, Attach
  <2>2. UNCHANGED tableBar
    BY <1>19, TableUnchanged DEF AttachTable, IInv, WorkInv, Attach
  <2>3. UNCHANGED stageBar
    BY <1>19 DEF AttachTable, IInv, WorkInv, Attach, stageBar, Stage, InTheOven
  <2>4. UNCHANGED <<pizza_TYPE, carriedBar>>
    BY <1>19, CarriedUnchanged DEF AttachTable, IInv, WorkInv, Attach
  <2>. QED
    BY <2>1, <2>2, <2>3, <2>4, Stutters
<1>20. ASSUME NEW d \in Deliverers, ScanForPizza(d) PROVE [Flow!Next]_(Flow!vars)
  <2>1. UNCHANGED ovenBar
    BY <1>20, OvenUnchanged DEF ScanForPizza, ScanTable, IInv, InTheOven, WorkInv, Attach
  <2>2. UNCHANGED tableBar
    BY <1>20, TableUnchanged DEF ScanForPizza, ScanTable, IInv, WorkInv, Attach
  <2>3. UNCHANGED stageBar
    BY <1>20 DEF ScanForPizza, ScanTable, IInv, WorkInv, Attach, stageBar, Stage, InTheOven
  <2>4. UNCHANGED <<pizza_TYPE, carriedBar>>
    BY <1>20, CarriedUnchanged DEF ScanForPizza, ScanTable, IInv, WorkInv, Attach
  <2>. QED
    BY <2>1, <2>2, <2>3, <2>4, Stutters
<1>21. ASSUME NEW d \in Deliverers, ClearTable(d) PROVE [Flow!Next]_(Flow!vars)
  <2>1. UNCHANGED ovenBar
    BY <1>21, OvenUnchanged DEF ClearTable, IInv, InTheOven, WorkInv, Attach
  <2>2. PICK s \in Slots(TABLE_SIZE) : /\ s = idx[d] /\ pizza_on_table[s] = 1
                                 /\ pizza_on_table' = [pizza_on_table EXCEPT ![s] = 0]
                                 /\ UNCHANGED <<table_type, idx>>
    BY <1>21 DEF ClearTable, IInv, FreePlace
  <2>3. UNCHANGED stageBar
    BY <1>21 DEF ClearTable, IInv, WorkInv, Attach, stageBar, Stage, InTheOven
  <2>4. carriedBar' = [carriedBar EXCEPT ![d] = table_type[s]]
    BY <1>21, <2>2 DEF ClearTable, IInv, carriedBar, Carried
  <2>5. \A c \in Cooks : pc[c] # "type_table" /\ pc'[c] # "type_table"
    BY <1>21, TableHeld DEF ClearTable, InTable, IInv
  <2>6. OnTable(s) = table_type[s] /\ OnTable(s)' = Empty
    BY <2>2, <2>5 DEF OnTable, IInv
  <2>7. OnTable(s) # Empty
    BY <2>6, EmptyAssumption DEF IInv
  <2>8. ASSUME NEW t \in Slots(TABLE_SIZE), t # s PROVE OnTable(t)' = OnTable(t)
    BY <2>2, <2>5, <2>8 DEF OnTable, IInv
  <2>9. tableBar[s] = table_type[s] /\ tableBar[s] # Empty /\ tableBar' = [tableBar EXCEPT ![s] = Empty]
    BY <2>6, <2>7, <2>8 DEF tableBar
  <2>10. UNCHANGED pizza_TYPE
    BY <1>21 DEF ClearTable
  <2>11. Flow!Deliver(d)
    BY <2>1, <2>3, <2>4, <2>9, <2>10 DEF Flow!Deliver, ovenBar, tableBar, stageBar, carriedBar
  <2>. QED
    BY <2>11 DEF Flow!Next
<1>22. ASSUME NEW d \in Deliverers, ReadType(d) PROVE [Flow!Next]_(Flow!vars)
  <2>1. UNCHANGED ovenBar
    BY <1>22, OvenUnchanged DEF ReadType, IInv, InTheOven, WorkInv, Attach
  <2>2. UNCHANGED tableBar
    BY <1>22, TableUnchanged DEF ReadType, IInv, WorkInv, Attach
  <2>3. UNCHANGED stageBar
    BY <1>22 DEF ReadType, IInv, WorkInv, Attach, stageBar, Stage, InTheOven
  <2>4. UNCHANGED carriedBar
    BY <1>22 DEF ReadType, IInv, carriedBar, Carried
  <2>5. UNCHANGED pizza_TYPE
    BY <1>22 DEF ReadType
  <2>. QED
    BY <2>1, <2>2, <2>3, <2>4, <2>5, Stutters
<1>23. ASSUME NEW d \in Deliverers, PostTable(d, "attach") PROVE [Flow!Next]_(Flow!vars)
  <2>1. UNCHANGED ovenBar
    BY <1>23, OvenUnchanged DEF PostTable, IInv, InTheOven, WorkInv, Attach
  <2>2. UNCHANGED tableBar
    BY <1>23, TableUnchanged DEF PostTable, IInv, WorkInv, Attach
  <2>3. UNCHANGED stageBar
    BY <1>23 DEF PostTable, IInv, WorkInv, Attach, stageBar, Stage, InTheOven
  <2>4. UNCHANGED <<pizza_TYPE, carriedBar>>
    BY <1>23, CarriedUnchanged DEF PostTable, IInv, WorkInv, Attach
  <2>. QED
    BY <2>1, <2>2, <2>3, <2>4, Stutters
<1>24. CASE UNCHANGED vars
  BY <1>24 DEF vars, Flow!vars, Owner, InTheOven, OnTable, Stage, Carried
<1>. QED
  BY <1>1, <1>2, <1>3, <1>4, <1>5, <1>6, <1>7, <1>8, <1>9, <1>10, <1>11, <1>12, <1>13,
     <1>14, <1>15, <1>16, <1>17, <1>18, <1>19, <1>20, <1>21, <1>22, <1>23, <1>24
     DEF Opening, Work, CookStep, DelivererStep

----------------------------------------------------------------------------
LEMMA StepIInv == IInv /\ [Opening \/ Work]_vars => IInv'
<1> SUFFICES ASSUME IInv, [Opening \/ Work]_vars PROVE IInv'
  OBVIOUS
<1>. QED
  BY TypeStep, LockStep, PlaceStep, OwnershipStep DEF IInv

\* The pizzeria at work satisfies the inductive invariant, however many cooks,
\* deliverers and slots there are.
THEOREM Inductive == Spec => []IInv
  BY InitIInv, StepIInv, PTL DEF Spec

\* The memory holds what its types say, and every scan stays within its slots.
THEOREM TypeCorrect == Spec => []TypeOK
<1>1. IInv => TypeOK
  BY DEF IInv
<1>. QED
  BY <1>1, Inductive, PTL

\* No two processes are between the wait and the post of one semaphore (cook.c and
\* deliverer.c of zad1, semop with -1 and with 1).
THEOREM MutualExclusion == Spec => []Exclusive
<1>1. IInv => Exclusive
  BY DEF IInv
<1>. QED
  BY <1>1, Inductive, PTL

\* The slot that a scan found free, or taken, still is when it is used (cook.c
\* 173-217, deliverer.c).
THEOREM PlaceStaysFree == Spec => []FreePlace
<1>1. IInv => FreePlace
  BY DEF IInv
<1>. QED
  BY <1>1, Inductive, PTL

\* The marked slots of the oven are those the cooks remember, one cook each, although
\* a cook leaves the semaphore while his pizza bakes.
THEOREM OwnSlots == Spec => []OvenOwnership
<1>1. IInv => OvenOwnership
  BY DEF IInv
<1>. QED
  BY <1>1, Inductive, PTL

LEMMA FlowInit == Init => Flow!Init
  BY SlotsExist, KitchenAssumption
     DEF Init, Flow!Init, Owner, OnTable, Stage, Carried, InTheOven, Procs, Slots

\* The scans and single writes of zad1 under its semaphores implement the atomic
\* operations of PizzaFlow: no pizza is lost, overwritten or delivered twice.
THEOREM Refinement == Spec => ImplementsFlow
  BY FlowInit, Inductive, FlowStep, PTL DEF Spec, ImplementsFlow, Flow!Spec

=============================================================================
