----------------------------- MODULE SignalBurst -----------------------------
(***************************************************************************)
(* cw04/zad3a: sender raises COUNT signals in catcher at once and then an  *)
(* end signal; catcher, once it has the end signal, raises as many as it   *)
(* counted in sender, and an end signal.  Each waits for the end signal of *)
(* the other by testing a flag and calling sigsuspend, with both signals   *)
(* unblocked all along.                                                    *)
(***************************************************************************)
EXTENDS Signals

Procs == {"sender", "catcher"}

VARIABLES
    pc,
    raised,     \* i of each process's loop: the signals it has raised
    pending1,   \* counted signals raised in each process, not yet handled: one
                \* at most unless QUEUED
    pending2,   \* whether the end signal is pending
    counted,    \* received_signals of sender, sigusr1_received of catcher
    got_end     \* is_sigusr2_signal of each

burstVars == <<kind, pc, raised, pending1, pending2, counted, got_end>>

Other(p) == IF p = "sender" THEN "catcher" ELSE "sender"
MovesTo(p, l) == pc' = [pc EXCEPT ![p] = l]

BurstInit ==
    /\ kind \in Modes
    /\ pc = [p \in Procs |-> IF p = "sender" THEN "raise" ELSE "test"]
    /\ raised = [p \in Procs |-> 0]
    /\ pending1 = [p \in Procs |-> 0]
    /\ pending2 = [p \in Procs |-> FALSE]
    /\ counted = [p \in Procs |-> 0]
    /\ got_end = [p \in Procs |-> FALSE]

\* Mutant of Handle: the end signal overtakes the others.
M_EndFirst(p) ==
    /\ pc[p] # "done"
    /\ \/ /\ pending2[p]
          /\ got_end' = [got_end EXCEPT ![p] = TRUE]
          /\ pending2' = [pending2 EXCEPT ![p] = FALSE]
          /\ UNCHANGED <<counted, pending1>>
       \/ /\ ~pending2[p] /\ pending1[p] > 0
          /\ counted' = [counted EXCEPT ![p] = @ + pending1[p]]
          /\ pending1' = [pending1 EXCEPT ![p] = 0]
          /\ UNCHANGED <<got_end, pending2>>
    /\ IF pc[p] = "suspended" THEN MovesTo(p, "test") ELSE UNCHANGED pc
    /\ UNCHANGED <<kind, raised>>

\* The handlers of all signals that are pending run before the program goes on.
\* Only sigsuspend that has begun ends by it.
Handle(p) ==
    /\ pc[p] # "done"
    /\ pending1[p] > 0 \/ pending2[p]
    /\ counted' = [counted EXCEPT ![p] = @ + pending1[p]]
    /\ got_end' = [got_end EXCEPT ![p] = @ \/ pending2[p]]
    /\ pending1' = [pending1 EXCEPT ![p] = 0]
    /\ pending2' = [pending2 EXCEPT ![p] = FALSE]
    /\ IF pc[p] = "suspended" THEN MovesTo(p, "test") ELSE UNCHANGED pc
    /\ UNCHANGED <<kind, raised>>

\* The signals each process raises: sender count of them, catcher all it counted.
Goal(p) == IF p = "sender" THEN COUNT ELSE counted["catcher"]

RaiseOne(p) ==
    /\ pc[p] = "raise"
    /\ raised[p] < Goal(p)
    /\ raised' = [raised EXCEPT ![p] = @ + 1]
    /\ pending1' = [pending1 EXCEPT ![Other(p)] = Plus(@)]
    /\ UNCHANGED <<kind, pc, pending2, counted, got_end>>

\* The end signal; catcher then exits and sender waits.
RaiseLast(p) ==
    /\ pc[p] = "raise"
    /\ raised[p] >= Goal(p)
    /\ pending2' = [pending2 EXCEPT ![Other(p)] = TRUE]
    /\ MovesTo(p, IF p = "sender" THEN "test" ELSE "done")
    /\ UNCHANGED <<kind, raised, pending1, counted, got_end>>

TestFlag(p) ==
    /\ pc[p] = "test"
    /\ MovesTo(p, IF ~got_end[p] THEN "tested"
             ELSE IF p = "sender" THEN "done" ELSE "raise")
    /\ UNCHANGED <<kind, raised, pending1, pending2, counted, got_end>>

Suspend(p) ==
    /\ pc[p] = "tested"
    /\ MovesTo(p, "suspended")
    /\ UNCHANGED <<kind, raised, pending1, pending2, counted, got_end>>

Main(p) == RaiseOne(p) \/ RaiseLast(p) \/ TestFlag(p) \/ Suspend(p)
BurstNext == \E p \in Procs : Handle(p) \/ Main(p)

BurstSpec     == BurstInit /\ [][BurstNext]_burstVars
BurstFairSpec ==
    BurstSpec /\ \A p \in Procs : WF_burstVars(Handle(p)) /\ WF_burstVars(Main(p))

----------------------------------------------------------------------------
Labels == {"raise", "test", "tested", "suspended", "done"}

BurstTypeOK ==
    /\ kind \in Modes
    /\ pc \in [Procs -> Labels]
    /\ raised \in [Procs -> 0 .. COUNT]
    /\ pending1 \in [Procs -> 0 .. IF QUEUED THEN COUNT ELSE 1]
    /\ pending2 \in [Procs -> BOOLEAN]
    /\ counted \in [Procs -> 0 .. COUNT]
    /\ got_end \in [Procs -> BOOLEAN]

\* When p counts the signals of q as complete, it has n of them: all n of a queued
\* kind; of the other kind at least one, if there was one.
Counted(p, n) == IF QUEUED THEN counted[p] = n
                 ELSE counted[p] <= n /\ (n > 0 => counted[p] > 0)

\* Catcher starts to reply only when no signal of sender is still on its way, and
\* what it prints (line 106) is what the kind of signal allows.
CatcherCount == pc["catcher"] \in {"raise", "done"} => Counted("catcher", COUNT)

\* The same for what sender prints, compared with what catcher had counted.
SenderCount == pc["sender"] = "done" => Counted("sender", counted["catcher"])

\* Of a queued kind none is lost or made up: raised signals are pending or counted.
\* Of the other kind they may be fewer, never more.
Conserved ==
    \A p \in Procs :
      LET seen == counted[p] + pending1[p]
      IN  IF QUEUED THEN raised[Other(p)] = seen
          ELSE seen <= raised[Other(p)] /\ (raised[Other(p)] > 0 => seen > 0)

\* The inductive invariant behind the counts: where the end signal is tells how far
\* both loops are.
Ended(p) == pending2[p] \/ got_end[p]
BurstInv ==
    /\ BurstTypeOK
    /\ Conserved
    /\ \A p \in Procs : got_end[p] => pending1[p] = 0
    /\ pc["sender"] = "raise" <=> ~Ended("catcher")
    /\ pc["catcher"] = "done" <=> Ended("sender")
    /\ Ended("catcher") => raised["sender"] = COUNT
    /\ Ended("sender") => raised["catcher"] = counted["catcher"]
    /\ pc["catcher"] \in {"raise", "done"} => got_end["catcher"]
    /\ pc["sender"] = "done" => got_end["sender"]
    /\ raised["catcher"] > 0 => got_end["catcher"]
    /\ raised["catcher"] <= counted["catcher"]

\* "I wait until I receive the signal that means the end of sending signals" (the
\* comment at the loop): both programs come to their end.
BothFinish == <>(\A p \in Procs : pc[p] = "done")
=============================================================================
