----------------------------- MODULE BurstProofs -----------------------------
(***************************************************************************)
(* Proofs about SignalBurst: what the two programs count, for every number *)
(* of signals, queued or not.                                              *)
(***************************************************************************)
EXTENDS SignalBurst, TLAPS

LEMMA InitInv == BurstInit => BurstInv
<1> SUFFICES ASSUME BurstInit PROVE BurstInv
  OBVIOUS
<1> USE SignalsAssumption
    DEF SignalsAssumption, Modes, QUEUED, BurstInit, Procs, Other, Labels
<1>1. BurstTypeOK
  BY DEF BurstTypeOK
<1>2. Conserved
  BY DEF Conserved
<1> QED
  BY <1>1, <1>2 DEF BurstInv, Ended

\* A handler run moves pending signals to the count and keeps the invariant.
LEMMA HandleInv == ASSUME BurstInv, NEW p \in Procs, Handle(p) PROVE BurstInv'
<1> USE SignalsAssumption
    DEF SignalsAssumption, Modes, QUEUED, BurstInv, Procs, Other, Ended
<1>1. BurstTypeOK'
  BY DEF Handle, MovesTo, BurstTypeOK, Labels, Conserved
<1>2. Conserved'
  BY DEF Handle, MovesTo, BurstTypeOK, Conserved
<1>3. QED
  BY <1>1, <1>2 DEF Handle, MovesTo, BurstTypeOK, Labels

\* One more signal of the loop.
LEMMA RaiseInv == ASSUME BurstInv, NEW p \in Procs, RaiseOne(p) PROVE BurstInv'
<1> USE SignalsAssumption
    DEF SignalsAssumption, Modes, QUEUED, BurstInv, Procs, Other, Ended
<1>1. BurstTypeOK'
  BY DEF RaiseOne, Plus, Goal, BurstTypeOK, Labels, Conserved
<1>2. Conserved'
  BY DEF RaiseOne, Plus, Goal, BurstTypeOK, Conserved
<1>3. QED
  BY <1>1, <1>2 DEF RaiseOne, Plus, Goal, BurstTypeOK, Labels

\* The end signal, the test of the flag and sigsuspend.
LEMMA ControlInv ==
  ASSUME BurstInv, NEW p \in Procs, RaiseLast(p) \/ TestFlag(p) \/ Suspend(p)
  PROVE  BurstInv'
<1> USE SignalsAssumption
    DEF SignalsAssumption, Modes, QUEUED, BurstInv, Procs, Other, Ended, MovesTo
<1>1. CASE RaiseLast(p)
  <2>1. BurstTypeOK'
    BY <1>1 DEF RaiseLast, BurstTypeOK, Labels
  <2>2. Conserved'
    BY <1>1 DEF RaiseLast, BurstTypeOK, Conserved
  <2>3. ASSUME p = "sender" PROVE BurstInv'
    <3>1. raised["sender"] = COUNT
      BY <1>1, <2>3 DEF RaiseLast, Goal, BurstTypeOK
    <3> QED
      BY <1>1, <2>1, <2>2, <2>3, <3>1 DEF RaiseLast, BurstTypeOK, Labels
  <2>4. ASSUME p = "catcher" PROVE BurstInv'
    <3>1. raised["catcher"] = counted["catcher"]
      BY <1>1, <2>4 DEF RaiseLast, Goal, BurstTypeOK, Conserved
    <3> QED
      BY <1>1, <2>1, <2>2, <2>4, <3>1 DEF RaiseLast, BurstTypeOK, Labels
  <2> QED
    BY <2>3, <2>4
<1>2. CASE TestFlag(p)
  <2>1. BurstTypeOK'
    BY <1>2 DEF TestFlag, BurstTypeOK, Labels
  <2>2. Conserved'
    BY <1>2 DEF TestFlag, Conserved
  <2> QED
    BY <1>2, <2>1, <2>2 DEF TestFlag, BurstTypeOK, Labels
<1>3. CASE Suspend(p)
  <2>1. BurstTypeOK'
    BY <1>3 DEF Suspend, BurstTypeOK, Labels
  <2>2. Conserved'
    BY <1>3 DEF Suspend, Conserved
  <2> QED
    BY <1>3, <2>1, <2>2 DEF Suspend, BurstTypeOK, Labels
<1> QED
  BY <1>1, <1>2, <1>3

LEMMA StepInv == BurstInv /\ [BurstNext]_burstVars => BurstInv'
<1>1. BurstInv /\ UNCHANGED burstVars => BurstInv'
  BY DEF BurstInv, BurstTypeOK, Conserved, Ended, Modes, QUEUED, burstVars
<1> QED
  BY <1>1, HandleInv, RaiseInv, ControlInv DEF BurstNext, Main

----------------------------------------------------------------------------
\* BurstInv is an inductive invariant of the burst.
THEOREM Inductive == BurstSpec => []BurstInv
  BY InitInv, StepInv, PTL DEF BurstSpec

\* The variables keep their types, the counters their bounds.
THEOREM TypeCorrect == BurstSpec => []BurstTypeOK
<1>1. BurstInv => BurstTypeOK
  BY DEF BurstInv
<1> QED
  BY Inductive, <1>1, PTL

\* Catcher replies only after it has counted all that a signal of this kind lets
\* it count: all COUNT if queued, otherwise at least one.
THEOREM CatcherCounts == BurstSpec => []CatcherCount
<1>1. BurstInv => CatcherCount
  BY SignalsAssumption
  DEF SignalsAssumption, Modes, QUEUED, BurstInv, BurstTypeOK, Conserved, Ended, Procs,
      Other, CatcherCount, Counted
<1> QED
  BY Inductive, <1>1, PTL

\* And so does sender for what catcher raised.
THEOREM SenderCounts == BurstSpec => []SenderCount
<1>1. BurstInv => SenderCount
  BY SignalsAssumption
  DEF SignalsAssumption, Modes, QUEUED, BurstInv, BurstTypeOK, Conserved, Ended, Procs,
      Other, SenderCount, Counted
<1> QED
  BY Inductive, <1>1, PTL
=============================================================================
