----------------------------- MODULE MCPizzeria -----------------------------
(* Either pizzeria, chosen in the initial state, run until Ctrl-C and to its   *)
(* end: the one instance for TLC of what both must do under fair scheduling.   *)
(* The constants are those of zad2; zad1 runs with an oven of one slot.        *)
EXTENDS PizzeriaPosix

CONSTANTS empty, c1, c2, d1

VARIABLE ipc   \* which of the two programs runs: "sysv" or "posix"

TwoCooks     == {c1, c2}
OneDeliverer == {d1}
OneType      == {0}

V == INSTANCE PizzeriaSysV WITH SYSV <- TRUE, OVEN_SIZE <- 1, Empty <- empty

mcvars == <<vars, ipc>>

OfSysV(A)  == ipc = "sysv"  /\ A /\ UNCHANGED ipc
OfPosix(A) == ipc = "posix" /\ A /\ UNCHANGED ipc

MCInit == (ipc = "sysv" /\ V!Init) \/ (ipc = "posix" /\ Init)
MCNext == OfSysV(V!Next) \/ OfPosix(Next)

\* The fairness of PizzeriaSysV!FairSpec and of PizzeriaPosix!ShutdownSpec.
MCSpec ==
    /\ MCInit
    /\ [][MCNext]_mcvars
    /\ WF_mcvars(OfSysV(V!MainRemoves)) /\ WF_mcvars(OfPosix(MainRemoves))
    /\ \A p \in Procs :
         /\ WF_mcvars(OfSysV(V!Fork(p) \/ V!Start(p))) /\ WF_mcvars(OfSysV(V!Handler(p)))
         /\ WF_mcvars(OfPosix(Start(p))) /\ WF_mcvars(OfPosix(Handler(p)))
    /\ \A c \in Cooks : SF_mcvars(OfSysV(V!CookStep(c)))
    /\ \A d \in Deliverers : SF_mcvars(OfSysV(V!DelivererStep(d)))

\* In the pizzeria of zad1, as long as nobody presses Ctrl-C, pizzas keep reaching the
\* customers: no full table or oven stops the work (cook.c 173-217).
KeepsDelivering == ipc = "sysv" => V!KeepsDelivering
=============================================================================
