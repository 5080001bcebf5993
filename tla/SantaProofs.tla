---------------------------- MODULE SantaProofs ----------------------------
(***************************************************************************)
(* IInv of Santa is inductive, for any number of reindeer and elves, any   *)
(* size of the group of elves and any number of deliveries.  One lemma per *)
(* conjunct of IInv, one step per action in each; the conjuncts need each  *)
(* other, so each lemma assumes all of IInv before the step.               *)
(***************************************************************************)
EXTENDS Santa, FiniteSetTheorems, TLAPS

----------------------------------------------------------------------------
(* Counting reindeer. *)

LEMMA HerdSize == REINDEER_NUM \in Nat \ {0}
  BY ThreadsAssumption, FS_EmptySet, FS_CardinalityType DEF REINDEER_NUM

\* As many reindeer as there are means all of them.
LEMMA ReturnCount ==
  ASSUME NEW B \in SUBSET Reindeers
  PROVE  /\ Cardinality(B) \in 0 .. REINDEER_NUM
         /\ Cardinality(B) = REINDEER_NUM => B = Reindeers
<1>1. IsFiniteSet(B) /\ Cardinality(B) <= Cardinality(Reindeers)
      /\ (Cardinality(Reindeers) = Cardinality(B) => Reindeers = B)
  BY ThreadsAssumption, FS_Subset
<1>2. Cardinality(B) \in Nat /\ REINDEER_NUM \in Nat
  BY <1>1, HerdSize, FS_CardinalityType
<1>. QED
  BY <1>1, <1>2 DEF REINDEER_NUM

LEMMA OneMoreReturns ==
  ASSUME NEW B \in SUBSET Reindeers, NEW r \in Reindeers, r \notin B
  PROVE  /\ Cardinality(B \cup {r}) = Cardinality(B) + 1
         /\ Cardinality(B) + 1 \in 0 .. REINDEER_NUM
<1>1. IsFiniteSet(B)
  BY ThreadsAssumption, FS_Subset
<1>2. Cardinality(B \cup {r}) = Cardinality(B) + 1
  BY <1>1, FS_AddElement
<1>3. B \cup {r} \in SUBSET Reindeers
  OBVIOUS
<1>. QED
  BY <1>2, <1>3, ReturnCount

----------------------------------------------------------------------------
(* IInv holds initially. *)

LEMMA InitIInv == Init => IInv
<1> SUFFICES ASSUME Init PROVE IInv
  OBVIOUS
<1> USE ThreadsAssumption, BoundsAssumption, HerdSize DEF Init
<1>1. TypeOK
  <2>1. /\ 0 \in 0 .. REINDEER_NUM
        /\ 0 \in 0 .. MaxDeliveries
        /\ 0 \in 0 .. ELVES_WAITING_FOR_SANTA
    OBVIOUS
  <2>. QED
    BY <2>1 DEF TypeOK, SantaLabels, ReindeerLabels, ElfLabels
<1>2. LockInv
  BY DEF LockInv, HoldsS, HoldsR, HoldsE, Threads
<1>3. RoundInv
  BY FS_EmptySet DEF RoundInv
<1>4. DeliveryInv
  BY DEF DeliveryInv
<1>5. QueueInv
  BY DEF QueueInv, QueueMatchesCount, Slots
<1>6. WakeInv
  BY DEF WakeInv
<1>. QED
  BY <1>1, <1>2, <1>3, <1>4, <1>5, <1>6 DEF IInv

----------------------------------------------------------------------------
(* Each conjunct after a step. *)

LEMMA TypeStep == IInv /\ [Next]_vars => TypeOK'
<1> SUFFICES ASSUME IInv, [Next]_vars PROVE TypeOK'
  OBVIOUS
<1> USE DEF IInv, TypeOK, SantaLabels, ReindeerLabels, ElfLabels, Mutexes, Slots,
            Threads,
            Lock, Unlock, SantaTo, ReindeerTo, ElfTo, reindeerVars, elfVars
<1>1. CASE SantaLock
  BY <1>1 DEF SantaLock

<1>2. CASE SantaReadsElves
  BY <1>2 DEF SantaReadsElves

<1>3. CASE SantaReadsReindeer
  BY <1>3 DEF SantaReadsReindeer

<1>4. CASE SantaWaits
  BY <1>4 DEF SantaWaits

<1>5. CASE SantaUnlock
  BY <1>5 DEF SantaUnlock

<1>6. CASE SantaLocksReindeer
  <2>1. /\ no_delivery \in Nat
        /\ no_delivery <= MaxDeliveries /\ no_delivery # MaxDeliveries
    BY <1>6 DEF SantaLocksReindeer, DeliveryInv
  <2>2. no_delivery + 1 \in 0 .. MaxDeliveries
    BY <2>1, BoundsAssumption
  <2>. QED
    BY <1>6, <2>2 DEF SantaLocksReindeer

<1>7. CASE SantaDelivers
  BY <1>7, HerdSize DEF SantaDelivers

<1>8. CASE SantaLocksReindeerWait
  BY <1>8 DEF SantaLocksReindeerWait

<1>9. CASE SantaReleasesReindeer
  BY <1>9 DEF SantaReleasesReindeer, BroadcastReindeer

<1>10. CASE SantaUnlocksReindeer
  BY <1>10 DEF SantaUnlocksReindeer

<1>11. CASE SantaTestsDelivery
  BY <1>11 DEF SantaTestsDelivery

<1>12. CASE SantaLocksElves
  BY <1>12 DEF SantaLocksElves

<1>13. CASE SantaLocksElvesWait
  BY <1>13 DEF SantaLocksElvesWait

<1>14. CASE SantaReleasesElves
  <2>1. elves_queue' \in [Slots -> Elves \cup {None}]
    BY <1>14 DEF SantaReleasesElves
  <2>2. 0 \in 0 .. ELVES_WAITING_FOR_SANTA
    BY BoundsAssumption
  <2>. QED
    BY <1>14, <2>1, <2>2 DEF SantaReleasesElves, BroadcastElves

<1>15. CASE SantaUnlocksElves
  BY <1>15 DEF SantaUnlocksElves

<1>16. ASSUME NEW r \in Reindeers, ReindeerLocksWait(r) PROVE TypeOK'
  BY <1>16 DEF ReindeerLocksWait

<1>17. ASSUME NEW r \in Reindeers, ReindeerTestsFlag(r) PROVE TypeOK'
  BY <1>17 DEF ReindeerTestsFlag

<1>18. ASSUME NEW r \in Reindeers, ReindeerReturns(r) PROVE TypeOK'
  BY <1>18 DEF ReindeerReturns

<1>19. ASSUME NEW r \in Reindeers, ReindeerCounts(r) PROVE TypeOK'
  <2>1. no_reindeer_back = Cardinality(back) /\ r \notin back
    BY <1>19 DEF ReindeerCounts, RoundInv
  <2>2. no_reindeer_back + 1 \in 0 .. REINDEER_NUM
    BY <2>1, OneMoreReturns
  <2>. QED
    BY <1>19, <2>2 DEF ReindeerCounts

<1>20. ASSUME NEW r \in Reindeers, ReindeerSetsFlag(r) PROVE TypeOK'
  BY <1>20 DEF ReindeerSetsFlag

<1>21. ASSUME NEW r \in Reindeers, ReindeerLocksSanta(r) PROVE TypeOK'
  BY <1>21 DEF ReindeerLocksSanta

<1>22. ASSUME NEW r \in Reindeers, ReindeerWakesSanta(r) PROVE TypeOK'
  BY <1>22 DEF ReindeerWakesSanta, BroadcastSanta

<1>23. ASSUME NEW r \in Reindeers, ReindeerUnlocks(r) PROVE TypeOK'
  BY <1>23 DEF ReindeerUnlocks

<1>24. ASSUME NEW e \in Elves, ElfLocksWait(e) PROVE TypeOK'
  BY <1>24 DEF ElfLocksWait

<1>25. ASSUME NEW e \in Elves, ElfTestsQueue(e) PROVE TypeOK'
  BY <1>25 DEF ElfTestsQueue

<1>26. ASSUME NEW e \in Elves, ElfLocksElves(e) PROVE TypeOK'
  BY <1>26 DEF ElfLocksElves

<1>27. ASSUME NEW e \in Elves, ElfJoins(e) PROVE TypeOK'
  <2>1. CASE no_elves_waiting_for_santa < ELVES_WAITING_FOR_SANTA
    <3>1. /\ no_elves_waiting_for_santa \in Slots
          /\ no_elves_waiting_for_santa + 1 \in 0 .. ELVES_WAITING_FOR_SANTA
      BY <2>1, BoundsAssumption
    <3>2. elves_queue' \in [Slots -> Elves \cup {None}]
      BY <1>27, <2>1, <3>1, BoundsAssumption DEF ElfJoins
    <3>. QED
      BY <1>27, <2>1, <3>1, <3>2, BoundsAssumption DEF ElfJoins
  <2>2. CASE ~(no_elves_waiting_for_santa < ELVES_WAITING_FOR_SANTA)
    BY <1>27, <2>2 DEF ElfJoins
  <2>. QED
    BY <2>1, <2>2

<1>28. ASSUME NEW e \in Elves, ElfLocksSanta(e) PROVE TypeOK'
  BY <1>28 DEF ElfLocksSanta

<1>29. ASSUME NEW e \in Elves, ElfWakesSanta(e) PROVE TypeOK'
  BY <1>29 DEF ElfWakesSanta, BroadcastSanta

<1>30. ASSUME NEW e \in Elves, ElfUnlocks(e) PROVE TypeOK'
  BY <1>30 DEF ElfUnlocks

<1>31. CASE SpuriousWakeup
  BY <1>31 DEF SpuriousWakeup

<1>32. CASE UNCHANGED vars
  BY <1>32 DEF vars

<1>. QED
  BY <1>1, <1>2, <1>3, <1>4, <1>5, <1>6, <1>7, <1>8, <1>9, <1>10, <1>11,
     <1>12, <1>13, <1>14, <1>15, <1>16, <1>17, <1>18, <1>19, <1>20, <1>21, <1>22,
     <1>23, <1>24, <1>25, <1>26, <1>27, <1>28, <1>29, <1>30, <1>31, <1>32
  DEF Next, SantaStep, ReindeerStep, ElfStep

LEMMA LockStep == IInv /\ [Next]_vars => LockInv'
<1> SUFFICES ASSUME IInv, [Next]_vars PROVE LockInv'
  OBVIOUS
<1> USE ThreadsAssumption
        DEF IInv, LockInv, HoldsS, HoldsR, HoldsE, TypeOK, Mutexes,
            Threads,
            Lock, Unlock, SantaTo, ReindeerTo, ElfTo, reindeerVars, elfVars
<1>1. CASE SantaLock
  BY <1>1 DEF SantaLock

<1>2. CASE SantaReadsElves
  BY <1>2 DEF SantaReadsElves

<1>3. CASE SantaReadsReindeer
  BY <1>3 DEF SantaReadsReindeer

<1>4. CASE SantaWaits
  BY <1>4 DEF SantaWaits

<1>5. CASE SantaUnlock
  BY <1>5 DEF SantaUnlock

<1>6. CASE SantaLocksReindeer
  BY <1>6 DEF SantaLocksReindeer

<1>7. CASE SantaDelivers
  BY <1>7 DEF SantaDelivers

<1>8. CASE SantaLocksReindeerWait
  BY <1>8 DEF SantaLocksReindeerWait

<1>9. CASE SantaReleasesReindeer
  BY <1>9 DEF SantaReleasesReindeer, BroadcastReindeer

<1>10. CASE SantaUnlocksReindeer
  BY <1>10 DEF SantaUnlocksReindeer

<1>11. CASE SantaTestsDelivery
  BY <1>11 DEF SantaTestsDelivery

<1>12. CASE SantaLocksElves
  BY <1>12 DEF SantaLocksElves

<1>13. CASE SantaLocksElvesWait
  BY <1>13 DEF SantaLocksElvesWait

<1>14. CASE SantaReleasesElves
  BY <1>14 DEF SantaReleasesElves, BroadcastElves

<1>15. CASE SantaUnlocksElves
  BY <1>15 DEF SantaUnlocksElves

<1>16. ASSUME NEW r \in Reindeers, ReindeerLocksWait(r) PROVE LockInv'
  BY <1>16 DEF ReindeerLocksWait

<1>17. ASSUME NEW r \in Reindeers, ReindeerTestsFlag(r) PROVE LockInv'
  BY <1>17 DEF ReindeerTestsFlag

<1>18. ASSUME NEW r \in Reindeers, ReindeerReturns(r) PROVE LockInv'
  BY <1>18 DEF ReindeerReturns

<1>19. ASSUME NEW r \in Reindeers, ReindeerCounts(r) PROVE LockInv'
  BY <1>19 DEF ReindeerCounts

<1>20. ASSUME NEW r \in Reindeers, ReindeerSetsFlag(r) PROVE LockInv'
  BY <1>20 DEF ReindeerSetsFlag

<1>21. ASSUME NEW r \in Reindeers, ReindeerLocksSanta(r) PROVE LockInv'
  BY <1>21 DEF ReindeerLocksSanta

<1>22. ASSUME NEW r \in Reindeers, ReindeerWakesSanta(r) PROVE LockInv'
  BY <1>22 DEF ReindeerWakesSanta, BroadcastSanta

<1>23. ASSUME NEW r \in Reindeers, ReindeerUnlocks(r) PROVE LockInv'
  BY <1>23 DEF ReindeerUnlocks

<1>24. ASSUME NEW e \in Elves, ElfLocksWait(e) PROVE LockInv'
  BY <1>24 DEF ElfLocksWait

<1>25. ASSUME NEW e \in Elves, ElfTestsQueue(e) PROVE LockInv'
  BY <1>25 DEF ElfTestsQueue

<1>26. ASSUME NEW e \in Elves, ElfLocksElves(e) PROVE LockInv'
  BY <1>26 DEF ElfLocksElves

<1>27. ASSUME NEW e \in Elves, ElfJoins(e) PROVE LockInv'
  BY <1>27 DEF ElfJoins

<1>28. ASSUME NEW e \in Elves, ElfLocksSanta(e) PROVE LockInv'
  BY <1>28 DEF ElfLocksSanta

<1>29. ASSUME NEW e \in Elves, ElfWakesSanta(e) PROVE LockInv'
  BY <1>29 DEF ElfWakesSanta, BroadcastSanta

<1>30. ASSUME NEW e \in Elves, ElfUnlocks(e) PROVE LockInv'
  BY <1>30 DEF ElfUnlocks

<1>31. CASE SpuriousWakeup
  BY <1>31 DEF SpuriousWakeup

<1>32. CASE UNCHANGED vars
  BY <1>32 DEF vars

<1>. QED
  BY <1>1, <1>2, <1>3, <1>4, <1>5, <1>6, <1>7, <1>8, <1>9, <1>10, <1>11,
     <1>12, <1>13, <1>14, <1>15, <1>16, <1>17, <1>18, <1>19, <1>20, <1>21, <1>22,
     <1>23, <1>24, <1>25, <1>26, <1>27, <1>28, <1>29, <1>30, <1>31, <1>32
  DEF Next, SantaStep, ReindeerStep, ElfStep

LEMMA RoundStep == IInv /\ [Next]_vars => RoundInv'
<1> SUFFICES ASSUME IInv, [Next]_vars PROVE RoundInv'
  OBVIOUS
<1> USE DEF IInv, RoundInv, TypeOK, LockInv, HoldsS, HoldsR,
            Lock, Unlock, SantaTo, ReindeerTo, ElfTo, reindeerVars, elfVars
<1>1. CASE SantaLock
  BY <1>1 DEF SantaLock

<1>2. CASE SantaReadsElves
  BY <1>2 DEF SantaReadsElves

<1>3. CASE SantaReadsReindeer
  BY <1>3 DEF SantaReadsReindeer

<1>4. CASE SantaWaits
  BY <1>4 DEF SantaWaits

<1>5. CASE SantaUnlock
  BY <1>5 DEF SantaUnlock

<1>6. CASE SantaLocksReindeer
  BY <1>6, ReturnCount DEF SantaLocksReindeer

<1>7. CASE SantaDelivers
  BY <1>7, FS_EmptySet DEF SantaDelivers

<1>8. CASE SantaLocksReindeerWait
  BY <1>8 DEF SantaLocksReindeerWait

<1>9. CASE SantaReleasesReindeer
  BY <1>9 DEF SantaReleasesReindeer, BroadcastReindeer

<1>10. CASE SantaUnlocksReindeer
  BY <1>10 DEF SantaUnlocksReindeer

<1>11. CASE SantaTestsDelivery
  BY <1>11 DEF SantaTestsDelivery

<1>12. CASE SantaLocksElves
  BY <1>12 DEF SantaLocksElves

<1>13. CASE SantaLocksElvesWait
  BY <1>13 DEF SantaLocksElvesWait

<1>14. CASE SantaReleasesElves
  BY <1>14 DEF SantaReleasesElves, BroadcastElves

<1>15. CASE SantaUnlocksElves
  BY <1>15 DEF SantaUnlocksElves

<1>16. ASSUME NEW r \in Reindeers, ReindeerLocksWait(r) PROVE RoundInv'
  BY <1>16 DEF ReindeerLocksWait

<1>17. ASSUME NEW r \in Reindeers, ReindeerTestsFlag(r) PROVE RoundInv'
  BY <1>17 DEF ReindeerTestsFlag

<1>18. ASSUME NEW r \in Reindeers, ReindeerReturns(r) PROVE RoundInv'
  BY <1>18 DEF ReindeerReturns

<1>19. ASSUME NEW r \in Reindeers, ReindeerCounts(r) PROVE RoundInv'
  <2>1. r \notin back
    BY <1>19 DEF ReindeerCounts
  <2>2. Cardinality(back \cup {r}) = Cardinality(back) + 1
    BY <2>1, OneMoreReturns
  <2>3. pcS \notin {"deliver", "lock_reindeer_wait", "release_reindeer"}
    BY <1>19, ThreadsAssumption DEF ReindeerCounts, Mutexes
  <2>. QED
    BY <1>19, <2>2, <2>3 DEF ReindeerCounts

<1>20. ASSUME NEW r \in Reindeers, ReindeerSetsFlag(r) PROVE RoundInv'
  BY <1>20 DEF ReindeerSetsFlag

<1>21. ASSUME NEW r \in Reindeers, ReindeerLocksSanta(r) PROVE RoundInv'
  BY <1>21 DEF ReindeerLocksSanta

<1>22. ASSUME NEW r \in Reindeers, ReindeerWakesSanta(r) PROVE RoundInv'
  BY <1>22 DEF ReindeerWakesSanta, BroadcastSanta

<1>23. ASSUME NEW r \in Reindeers, ReindeerUnlocks(r) PROVE RoundInv'
  BY <1>23 DEF ReindeerUnlocks

<1>24. ASSUME NEW e \in Elves, ElfLocksWait(e) PROVE RoundInv'
  BY <1>24 DEF ElfLocksWait

<1>25. ASSUME NEW e \in Elves, ElfTestsQueue(e) PROVE RoundInv'
  BY <1>25 DEF ElfTestsQueue

<1>26. ASSUME NEW e \in Elves, ElfLocksElves(e) PROVE RoundInv'
  BY <1>26 DEF ElfLocksElves

<1>27. ASSUME NEW e \in Elves, ElfJoins(e) PROVE RoundInv'
  BY <1>27 DEF ElfJoins

<1>28. ASSUME NEW e \in Elves, ElfLocksSanta(e) PROVE RoundInv'
  BY <1>28 DEF ElfLocksSanta

<1>29. ASSUME NEW e \in Elves, ElfWakesSanta(e) PROVE RoundInv'
  BY <1>29 DEF ElfWakesSanta, BroadcastSanta

<1>30. ASSUME NEW e \in Elves, ElfUnlocks(e) PROVE RoundInv'
  BY <1>30 DEF ElfUnlocks

<1>31. CASE SpuriousWakeup
  BY <1>31 DEF SpuriousWakeup

<1>32. CASE UNCHANGED vars
  BY <1>32 DEF vars

<1>. QED
  BY <1>1, <1>2, <1>3, <1>4, <1>5, <1>6, <1>7, <1>8, <1>9, <1>10, <1>11,
     <1>12, <1>13, <1>14, <1>15, <1>16, <1>17, <1>18, <1>19, <1>20, <1>21, <1>22,
     <1>23, <1>24, <1>25, <1>26, <1>27, <1>28, <1>29, <1>30, <1>31, <1>32
  DEF Next, SantaStep, ReindeerStep, ElfStep

LEMMA DeliveryStep == IInv /\ [Next]_vars => DeliveryInv'
<1> SUFFICES ASSUME IInv, [Next]_vars PROVE DeliveryInv'
  OBVIOUS
<1> USE BoundsAssumption
        DEF IInv, DeliveryInv, TypeOK,
            Lock, Unlock, SantaTo, ReindeerTo, ElfTo, reindeerVars, elfVars
<1>1. CASE SantaLock
  BY <1>1 DEF SantaLock

<1>2. CASE SantaReadsElves
  BY <1>2 DEF SantaReadsElves

<1>3. CASE SantaReadsReindeer
  BY <1>3 DEF SantaReadsReindeer

<1>4. CASE SantaWaits
  BY <1>4 DEF SantaWaits

<1>5. CASE SantaUnlock
  BY <1>5 DEF SantaUnlock

<1>6. CASE SantaLocksReindeer
  BY <1>6 DEF SantaLocksReindeer

<1>7. CASE SantaDelivers
  BY <1>7 DEF SantaDelivers

<1>8. CASE SantaLocksReindeerWait
  BY <1>8 DEF SantaLocksReindeerWait

<1>9. CASE SantaReleasesReindeer
  BY <1>9 DEF SantaReleasesReindeer, BroadcastReindeer

<1>10. CASE SantaUnlocksReindeer
  BY <1>10 DEF SantaUnlocksReindeer

<1>11. CASE SantaTestsDelivery
  BY <1>11 DEF SantaTestsDelivery

<1>12. CASE SantaLocksElves
  BY <1>12 DEF SantaLocksElves

<1>13. CASE SantaLocksElvesWait
  BY <1>13 DEF SantaLocksElvesWait

<1>14. CASE SantaReleasesElves
  BY <1>14 DEF SantaReleasesElves, BroadcastElves

<1>15. CASE SantaUnlocksElves
  BY <1>15 DEF SantaUnlocksElves

<1>16. ASSUME NEW r \in Reindeers, ReindeerLocksWait(r) PROVE DeliveryInv'
  BY <1>16 DEF ReindeerLocksWait

<1>17. ASSUME NEW r \in Reindeers, ReindeerTestsFlag(r) PROVE DeliveryInv'
  BY <1>17 DEF ReindeerTestsFlag

<1>18. ASSUME NEW r \in Reindeers, ReindeerReturns(r) PROVE DeliveryInv'
  BY <1>18 DEF ReindeerReturns

<1>19. ASSUME NEW r \in Reindeers, ReindeerCounts(r) PROVE DeliveryInv'
  BY <1>19 DEF ReindeerCounts

<1>20. ASSUME NEW r \in Reindeers, ReindeerSetsFlag(r) PROVE DeliveryInv'
  BY <1>20 DEF ReindeerSetsFlag

<1>21. ASSUME NEW r \in Reindeers, ReindeerLocksSanta(r) PROVE DeliveryInv'
  BY <1>21 DEF ReindeerLocksSanta

<1>22. ASSUME NEW r \in Reindeers, ReindeerWakesSanta(r) PROVE DeliveryInv'
  BY <1>22 DEF ReindeerWakesSanta, BroadcastSanta

<1>23. ASSUME NEW r \in Reindeers, ReindeerUnlocks(r) PROVE DeliveryInv'
  BY <1>23 DEF ReindeerUnlocks

<1>24. ASSUME NEW e \in Elves, ElfLocksWait(e) PROVE DeliveryInv'
  BY <1>24 DEF ElfLocksWait

<1>25. ASSUME NEW e \in Elves, ElfTestsQueue(e) PROVE DeliveryInv'
  BY <1>25 DEF ElfTestsQueue

<1>26. ASSUME NEW e \in Elves, ElfLocksElves(e) PROVE DeliveryInv'
  BY <1>26 DEF ElfLocksElves

<1>27. ASSUME NEW e \in Elves, ElfJoins(e) PROVE DeliveryInv'
  BY <1>27 DEF ElfJoins

<1>28. ASSUME NEW e \in Elves, ElfLocksSanta(e) PROVE DeliveryInv'
  BY <1>28 DEF ElfLocksSanta

<1>29. ASSUME NEW e \in Elves, ElfWakesSanta(e) PROVE DeliveryInv'
  BY <1>29 DEF ElfWakesSanta, BroadcastSanta

<1>30. ASSUME NEW e \in Elves, ElfUnlocks(e) PROVE DeliveryInv'
  BY <1>30 DEF ElfUnlocks

<1>31. CASE SpuriousWakeup
  BY <1>31 DEF SpuriousWakeup

<1>32. CASE UNCHANGED vars
  BY <1>32 DEF vars

<1>. QED
  BY <1>1, <1>2, <1>3, <1>4, <1>5, <1>6, <1>7, <1>8, <1>9, <1>10, <1>11,
     <1>12, <1>13, <1>14, <1>15, <1>16, <1>17, <1>18, <1>19, <1>20, <1>21, <1>22,
     <1>23, <1>24, <1>25, <1>26, <1>27, <1>28, <1>29, <1>30, <1>31, <1>32
  DEF Next, SantaStep, ReindeerStep, ElfStep

LEMMA QueueStep == IInv /\ [Next]_vars => QueueInv'
<1> SUFFICES ASSUME IInv, [Next]_vars PROVE QueueInv'
  OBVIOUS
<1> USE BoundsAssumption, ThreadsAssumption
        DEF IInv, QueueInv, QueueMatchesCount, TypeOK, Slots, Threads,
            Lock, Unlock, SantaTo, ReindeerTo, ElfTo, reindeerVars, elfVars
<1>1. CASE SantaLock
  BY <1>1 DEF SantaLock

<1>2. CASE SantaReadsElves
  BY <1>2 DEF SantaReadsElves

<1>3. CASE SantaReadsReindeer
  BY <1>3 DEF SantaReadsReindeer

<1>4. CASE SantaWaits
  BY <1>4 DEF SantaWaits

<1>5. CASE SantaUnlock
  BY <1>5 DEF SantaUnlock

<1>6. CASE SantaLocksReindeer
  BY <1>6 DEF SantaLocksReindeer

<1>7. CASE SantaDelivers
  BY <1>7 DEF SantaDelivers

<1>8. CASE SantaLocksReindeerWait
  BY <1>8 DEF SantaLocksReindeerWait

<1>9. CASE SantaReleasesReindeer
  BY <1>9 DEF SantaReleasesReindeer, BroadcastReindeer

<1>10. CASE SantaUnlocksReindeer
  BY <1>10 DEF SantaUnlocksReindeer

<1>11. CASE SantaTestsDelivery
  BY <1>11 DEF SantaTestsDelivery

<1>12. CASE SantaLocksElves
  BY <1>12 DEF SantaLocksElves

<1>13. CASE SantaLocksElvesWait
  BY <1>13 DEF SantaLocksElvesWait

<1>14. CASE SantaReleasesElves
  BY <1>14 DEF SantaReleasesElves, BroadcastElves

<1>15. CASE SantaUnlocksElves
  BY <1>15 DEF SantaUnlocksElves

<1>16. ASSUME NEW r \in Reindeers, ReindeerLocksWait(r) PROVE QueueInv'
  BY <1>16 DEF ReindeerLocksWait

<1>17. ASSUME NEW r \in Reindeers, ReindeerTestsFlag(r) PROVE QueueInv'
  BY <1>17 DEF ReindeerTestsFlag

<1>18. ASSUME NEW r \in Reindeers, ReindeerReturns(r) PROVE QueueInv'
  BY <1>18 DEF ReindeerReturns

<1>19. ASSUME NEW r \in Reindeers, ReindeerCounts(r) PROVE QueueInv'
  BY <1>19 DEF ReindeerCounts

<1>20. ASSUME NEW r \in Reindeers, ReindeerSetsFlag(r) PROVE QueueInv'
  BY <1>20 DEF ReindeerSetsFlag

<1>21. ASSUME NEW r \in Reindeers, ReindeerLocksSanta(r) PROVE QueueInv'
  BY <1>21 DEF ReindeerLocksSanta

<1>22. ASSUME NEW r \in Reindeers, ReindeerWakesSanta(r) PROVE QueueInv'
  BY <1>22 DEF ReindeerWakesSanta, BroadcastSanta

<1>23. ASSUME NEW r \in Reindeers, ReindeerUnlocks(r) PROVE QueueInv'
  BY <1>23 DEF ReindeerUnlocks

<1>24. ASSUME NEW e \in Elves, ElfLocksWait(e) PROVE QueueInv'
  BY <1>24 DEF ElfLocksWait

<1>25. ASSUME NEW e \in Elves, ElfTestsQueue(e) PROVE QueueInv'
  BY <1>25 DEF ElfTestsQueue

<1>26. ASSUME NEW e \in Elves, ElfLocksElves(e) PROVE QueueInv'
  BY <1>26 DEF ElfLocksElves

<1>27. ASSUME NEW e \in Elves, ElfJoins(e) PROVE QueueInv'
  <2>1. CASE no_elves_waiting_for_santa < ELVES_WAITING_FOR_SANTA
    <3>1. no_elves_waiting_for_santa \in Slots /\ e # None
      BY <2>1
    <3>2. \A i \in Slots : elves_queue'[i] # None <=> i < no_elves_waiting_for_santa'
      BY <1>27, <2>1, <3>1 DEF ElfJoins
    <3>3. pcS' \notin {"lock_elves_wait", "release_elves"}
      BY <1>27, <2>1 DEF ElfJoins
    <3>. QED
      BY <3>2, <3>3
  <2>2. CASE ~(no_elves_waiting_for_santa < ELVES_WAITING_FOR_SANTA)
    BY <1>27, <2>2 DEF ElfJoins
  <2>. QED
    BY <2>1, <2>2

<1>28. ASSUME NEW e \in Elves, ElfLocksSanta(e) PROVE QueueInv'
  BY <1>28 DEF ElfLocksSanta

<1>29. ASSUME NEW e \in Elves, ElfWakesSanta(e) PROVE QueueInv'
  BY <1>29 DEF ElfWakesSanta, BroadcastSanta

<1>30. ASSUME NEW e \in Elves, ElfUnlocks(e) PROVE QueueInv'
  BY <1>30 DEF ElfUnlocks

<1>31. CASE SpuriousWakeup
  BY <1>31 DEF SpuriousWakeup

<1>32. CASE UNCHANGED vars
  BY <1>32 DEF vars

<1>. QED
  BY <1>1, <1>2, <1>3, <1>4, <1>5, <1>6, <1>7, <1>8, <1>9, <1>10, <1>11,
     <1>12, <1>13, <1>14, <1>15, <1>16, <1>17, <1>18, <1>19, <1>20, <1>21, <1>22,
     <1>23, <1>24, <1>25, <1>26, <1>27, <1>28, <1>29, <1>30, <1>31, <1>32
  DEF Next, SantaStep, ReindeerStep, ElfStep

LEMMA WakeStep == IInv /\ [Next]_vars => WakeInv'
<1> SUFFICES ASSUME IInv, [Next]_vars PROVE WakeInv'
  OBVIOUS
<1> USE BoundsAssumption, ThreadsAssumption
        DEF IInv, WakeInv, LockInv, HoldsS, HoldsR, HoldsE, TypeOK,
            Mutexes,
            Lock, Unlock, SantaTo, ReindeerTo, ElfTo, reindeerVars, elfVars
<1>1. CASE SantaLock
  BY <1>1 DEF SantaLock

<1>2. CASE SantaReadsElves
  BY <1>2 DEF SantaReadsElves

<1>3. CASE SantaReadsReindeer
  BY <1>3 DEF SantaReadsReindeer

<1>4. CASE SantaWaits
  BY <1>4 DEF SantaWaits

<1>5. CASE SantaUnlock
  BY <1>5 DEF SantaUnlock

<1>6. CASE SantaLocksReindeer
  BY <1>6 DEF SantaLocksReindeer

<1>7. CASE SantaDelivers
  BY <1>7 DEF SantaDelivers

<1>8. CASE SantaLocksReindeerWait
  BY <1>8 DEF SantaLocksReindeerWait

<1>9. CASE SantaReleasesReindeer
  BY <1>9 DEF SantaReleasesReindeer, BroadcastReindeer

<1>10. CASE SantaUnlocksReindeer
  BY <1>10 DEF SantaUnlocksReindeer

<1>11. CASE SantaTestsDelivery
  BY <1>11 DEF SantaTestsDelivery

<1>12. CASE SantaLocksElves
  BY <1>12 DEF SantaLocksElves

<1>13. CASE SantaLocksElvesWait
  BY <1>13 DEF SantaLocksElvesWait

<1>14. CASE SantaReleasesElves
  BY <1>14 DEF SantaReleasesElves, BroadcastElves

<1>15. CASE SantaUnlocksElves
  BY <1>15 DEF SantaUnlocksElves

<1>16. ASSUME NEW r \in Reindeers, ReindeerLocksWait(r) PROVE WakeInv'
  BY <1>16 DEF ReindeerLocksWait

<1>17. ASSUME NEW r \in Reindeers, ReindeerTestsFlag(r) PROVE WakeInv'
  BY <1>17 DEF ReindeerTestsFlag

<1>18. ASSUME NEW r \in Reindeers, ReindeerReturns(r) PROVE WakeInv'
  BY <1>18 DEF ReindeerReturns

<1>19. ASSUME NEW r \in Reindeers, ReindeerCounts(r) PROVE WakeInv'
  BY <1>19 DEF ReindeerCounts

<1>20. ASSUME NEW r \in Reindeers, ReindeerSetsFlag(r) PROVE WakeInv'
  BY <1>20 DEF ReindeerSetsFlag

<1>21. ASSUME NEW r \in Reindeers, ReindeerLocksSanta(r) PROVE WakeInv'
  BY <1>21 DEF ReindeerLocksSanta

<1>22. ASSUME NEW r \in Reindeers, ReindeerWakesSanta(r) PROVE WakeInv'
  BY <1>22 DEF ReindeerWakesSanta, BroadcastSanta

<1>23. ASSUME NEW r \in Reindeers, ReindeerUnlocks(r) PROVE WakeInv'
  BY <1>23 DEF ReindeerUnlocks

<1>24. ASSUME NEW e \in Elves, ElfLocksWait(e) PROVE WakeInv'
  BY <1>24 DEF ElfLocksWait

<1>25. ASSUME NEW e \in Elves, ElfTestsQueue(e) PROVE WakeInv'
  BY <1>25 DEF ElfTestsQueue

<1>26. ASSUME NEW e \in Elves, ElfLocksElves(e) PROVE WakeInv'
  BY <1>26 DEF ElfLocksElves

<1>27. ASSUME NEW e \in Elves, ElfJoins(e) PROVE WakeInv'
  BY <1>27 DEF ElfJoins

<1>28. ASSUME NEW e \in Elves, ElfLocksSanta(e) PROVE WakeInv'
  BY <1>28 DEF ElfLocksSanta

<1>29. ASSUME NEW e \in Elves, ElfWakesSanta(e) PROVE WakeInv'
  BY <1>29 DEF ElfWakesSanta, BroadcastSanta

<1>30. ASSUME NEW e \in Elves, ElfUnlocks(e) PROVE WakeInv'
  BY <1>30 DEF ElfUnlocks

<1>31. CASE SpuriousWakeup
  BY <1>31 DEF SpuriousWakeup

<1>32. CASE UNCHANGED vars
  BY <1>32 DEF vars

<1>. QED
  BY <1>1, <1>2, <1>3, <1>4, <1>5, <1>6, <1>7, <1>8, <1>9, <1>10, <1>11,
     <1>12, <1>13, <1>14, <1>15, <1>16, <1>17, <1>18, <1>19, <1>20, <1>21, <1>22,
     <1>23, <1>24, <1>25, <1>26, <1>27, <1>28, <1>29, <1>30, <1>31, <1>32
  DEF Next, SantaStep, ReindeerStep, ElfStep

----------------------------------------------------------------------------
(* The theorems. *)

\* The strengthening is an invariant.
THEOREM Inductive == Spec => []IInv
<1>1. IInv /\ [Next]_vars => IInv'
  BY TypeStep, LockStep, RoundStep, DeliveryStep, QueueStep, WakeStep DEF IInv
<1>. QED
  BY InitIInv, <1>1, PTL DEF Spec

\* Every variable keeps its type and the counters their bounds (lines 18-26).
THEOREM TypeCorrect == Spec => []TypeOK
<1>1. IInv => TypeOK
  BY DEF IInv
<1>. QED
  BY Inductive, <1>1, PTL

\* The counter of line 127 never counts a reindeer twice in a round.
THEOREM CountsReindeer == Spec => []OneReturnPerRound
<1>1. IInv => OneReturnPerRound
  BY DEF IInv, RoundInv, OneReturnPerRound
<1>. QED
  BY Inductive, <1>1, PTL

\* elves_queue and no_elves_waiting_for_santa agree (lines 99-100 and 163-164).
THEOREM QueueCorrect == Spec => []QueueMatchesCount
<1>1. IInv => QueueMatchesCount
  BY DEF IInv, QueueInv
<1>. QED
  BY Inductive, <1>1, PTL

\* Santa, who tests his condition (line 56) under another mutex than the counters
\* are written under, still misses no wakeup.
THEOREM WakesUp == Spec => []NoLostWakeup
<1>1. IInv => NoLostWakeup
  BY DEF IInv, WakeInv, NoLostWakeup
<1>. QED
  BY Inductive, <1>1, PTL

\* The first of two nested mutexes is always mutex_reindeer or mutex_elves and the
\* second never is, so no chain of waiting threads is longer than two.
THEOREM LocksAcyclic == Spec => []NoCircularWait
<1>1. ASSUME IInv, NEW t \in Threads, NEW u \in Threads,
             Wants(t) # "none", mutex[Wants(t)] = u, Wants(u) # "none"
      PROVE  Wants(t) \in {"reindeer", "elves"} /\ Wants(u) \notin {"reindeer", "elves"}
  <2>1. Wants(t) \in Mutexes
    BY <1>1 DEF Wants, Mutexes
  <2> USE ThreadsAssumption DEF IInv, LockInv, Wants, HoldsS, HoldsR, HoldsE, Mutexes
  <2>2. CASE u = Claus
    BY <1>1, <2>1, <2>2
  <2>3. CASE u \in Reindeers
    BY <1>1, <2>1, <2>3
  <2>4. CASE u \in Elves
    BY <1>1, <2>1, <2>4
  <2>. QED
    BY <2>2, <2>3, <2>4 DEF Threads
<1>2. IInv => NoCircularWait
  <2> SUFFICES ASSUME IInv, NEW D \in SUBSET Threads, D # {},
                      \A t \in D : BlockedBy(t, D)
               PROVE  FALSE
    BY DEF NoCircularWait
  <2>1. PICK t \in D : TRUE
    OBVIOUS
  <2>2. PICK u \in D : Wants(t) # "none" /\ mutex[Wants(t)] = u
    BY <2>1 DEF BlockedBy
  <2>3. PICK v \in D : Wants(u) # "none" /\ mutex[Wants(u)] = v
    BY <2>2 DEF BlockedBy
  <2>4. Wants(v) # "none"
    BY <2>3 DEF BlockedBy
  <2>5. Wants(u) \notin {"reindeer", "elves"}
    BY <2>1, <2>2, <2>3, <1>1
  <2>6. Wants(u) \in {"reindeer", "elves"}
    BY <2>2, <2>3, <2>4, <1>1
  <2>. QED
    BY <2>5, <2>6
<1>. QED
  BY Inductive, <1>2, PTL

\* Santa counts a delivery (line 71) only with the whole herd back.
THEOREM DeliversWithHerd == Spec => DeliveryNeedsHerd
<1>1. IInv /\ [Next]_vars => [no_delivery' # no_delivery => back = Reindeers]_vars
  <2> SUFFICES ASSUME IInv, [Next]_vars, no_delivery' # no_delivery
               PROVE  back = Reindeers
    OBVIOUS
  <2>1. SantaLocksReindeer /\ no_reindeer_back = REINDEER_NUM
    BY DEF Next, vars, SantaStep, ReindeerStep, ElfStep, SantaLock, SantaReadsElves,
           SantaReadsReindeer, SantaWaits, SantaUnlock, SantaLocksReindeer,
           SantaDelivers, SantaLocksReindeerWait, SantaReleasesReindeer,
           SantaUnlocksReindeer, SantaTestsDelivery, SantaLocksElves,
           SantaLocksElvesWait, SantaReleasesElves, SantaUnlocksElves,
           ReindeerLocksWait, ReindeerTestsFlag, ReindeerReturns, ReindeerCounts,
           ReindeerSetsFlag, ReindeerLocksSanta, ReindeerWakesSanta,
           ReindeerUnlocks, ElfLocksWait, ElfTestsQueue, ElfLocksElves, ElfJoins,
           ElfLocksSanta, ElfWakesSanta, ElfUnlocks, SpuriousWakeup
  <2>2. no_reindeer_back = Cardinality(back) /\ back \in SUBSET Reindeers
    BY DEF IInv, RoundInv, TypeOK
  <2>. QED
    BY <2>1, <2>2, ReturnCount
<1>. QED
  BY Inductive, <1>1, PTL DEF Spec, DeliveryNeedsHerd
=============================================================================
