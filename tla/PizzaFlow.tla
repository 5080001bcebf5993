----------------------------- MODULE PizzaFlow -----------------------------
(***************************************************************************)
(* What the pizzeria of cw07 promises, without semaphores or scans: a cook *)
(* prepares a pizza, bakes it in a slot of his own, lays it on a free slot *)
(* of the table, and one deliverer takes it from there.                    *)
(***************************************************************************)
CONSTANTS Cooks, Deliverers, OvenSlots, TableSlots, Types, Empty

VARIABLES oven,     \* the cook whose pizza is in a slot, or Empty
          table,    \* the type of the pizza on a slot, or Empty
          stage,    \* of each cook's pizza: "idle", "raw", "baking" or "baked"
          hand,     \* its type
          carried   \* the type of the pizza each deliverer took last

vars == <<oven, table, stage, hand, carried>>

Init ==
    /\ oven = [s \in OvenSlots |-> Empty]
    /\ table = [s \in TableSlots |-> Empty]
    /\ stage = [c \in Cooks |-> "idle"]
    /\ hand \in [Cooks -> Types]
    /\ carried \in [Deliverers -> Types]

Make(c) ==
    /\ stage[c] = "idle"
    /\ stage' = [stage EXCEPT ![c] = "raw"]
    /\ \E t \in Types : hand' = [hand EXCEPT ![c] = t]
    /\ UNCHANGED <<oven, table, carried>>

Bake(c) ==
    /\ stage[c] = "raw"
    /\ \E s \in OvenSlots : oven[s] = Empty /\ oven' = [oven EXCEPT ![s] = c]
    /\ stage' = [stage EXCEPT ![c] = "baking"]
    /\ UNCHANGED <<table, hand, carried>>

TakeOut(c) ==
    /\ stage[c] = "baking"
    /\ \E s \in OvenSlots : oven[s] = c /\ oven' = [oven EXCEPT ![s] = Empty]
    /\ stage' = [stage EXCEPT ![c] = "baked"]
    /\ UNCHANGED <<table, hand, carried>>

Lay(c) ==
    /\ stage[c] = "baked"
    /\ \E s \in TableSlots : table[s] = Empty /\ table' = [table EXCEPT ![s] = hand[c]]
    /\ stage' = [stage EXCEPT ![c] = "idle"]
    /\ UNCHANGED <<oven, hand, carried>>

Deliver(d) ==
    \E s \in TableSlots :
      /\ table[s] # Empty
      /\ table' = [table EXCEPT ![s] = Empty]
      /\ carried' = [carried EXCEPT ![d] = table[s]]
      /\ UNCHANGED <<oven, stage, hand>>

Next == \/ \E c \in Cooks : Make(c) \/ Bake(c) \/ TakeOut(c) \/ Lay(c)
        \/ \E d \in Deliverers : Deliver(d)

Spec == Init /\ [][Next]_vars
=============================================================================
