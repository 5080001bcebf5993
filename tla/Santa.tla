------------------------------- MODULE Santa -------------------------------
(***************************************************************************)
(* cw09/zad/main.c: Santa Claus, the reindeer and the elves as POSIX       *)
(* threads of one process.  Santa sleeps on cond_santa until all reindeer  *)
(* are back or a full group of elves stands in front of the workshop.      *)
(* Five mutexes and three condition variables protect four shared          *)
(* variables, not always the same mutex on both sides: line 56 reads both  *)
(* counters under mutex_santa while they are written under mutex_reindeer  *)
(* and mutex_elves, and line 129 sets under mutex_reindeer the flag that   *)
(* line 119 reads under mutex_reindeer_wait.                               *)
(*                                                                         *)
(* A step is the code from one lock operation or racy access to the next.  *)
(* The sleep() calls only take time, so they are not steps.                *)
(***************************************************************************)
EXTENDS Integers, FiniteSets

CONSTANTS Reindeers,                \* the threads running reindeer()
          Elves,                    \* the threads running elf()
          Claus,                    \* the thread running santa()
          None,                     \* an unlocked mutex, and the -1 of elves_queue
          ELVES_WAITING_FOR_SANTA,  \* 3 in the code
          MaxDeliveries             \* the 3 of line 87

REINDEER_NUM == Cardinality(Reindeers)
Threads == {Claus} \cup Reindeers \cup Elves

ASSUME ThreadsAssumption ==
    /\ IsFiniteSet(Reindeers) /\ Reindeers # {}
    /\ Claus \notin Reindeers \cup Elves
    /\ Reindeers \cap Elves = {}
    /\ None \notin Threads

ASSUME BoundsAssumption ==
    /\ ELVES_WAITING_FOR_SANTA \in Nat \ {0}
    /\ MaxDeliveries \in Nat \ {0}

Mutexes == {"santa", "reindeer", "reindeer_wait", "elves", "elves_wait"}
Slots   == 0 .. ELVES_WAITING_FOR_SANTA - 1

VARIABLES
    no_reindeer_back, no_delivery, reindeer_are_waiting,
    no_elves_waiting_for_santa, elves_queue,
    mutex,           \* mutex[m]: the thread that holds mutex_m, or None
    pcS, pcR, pcE,   \* where Santa, each reindeer and each elf is in its code
    back             \* history: the reindeer counted since the last delivery

reindeerVars == <<no_reindeer_back, reindeer_are_waiting, back>>
elfVars      == <<no_elves_waiting_for_santa, elves_queue>>
vars == <<no_delivery, reindeerVars, elfVars, mutex, pcS, pcR, pcE>>

SantaLabels ==
    {"lock_santa", "read_elves", "read_reindeer", "wait", "asleep",
     "unlock_santa", "lock_reindeer", "deliver", "lock_reindeer_wait",
     "release_reindeer", "unlock_reindeer", "test_delivery", "lock_elves", "lock_elves_wait",
     "release_elves", "unlock_elves", "exited"}
ReindeerLabels ==
    {"lock_reindeer_wait", "test_flag", "waiting", "holidays", "count",
     "set_flag", "lock_santa", "wake_santa", "unlock_reindeer"}
ElfLabels ==
    {"lock_elves_wait", "test_queue", "waiting", "lock_elves", "join",
     "lock_santa", "wake_santa", "unlock_elves"}

Init ==
    /\ no_reindeer_back = 0 /\ no_delivery = 0 /\ reindeer_are_waiting = FALSE
    /\ no_elves_waiting_for_santa = 0
    /\ elves_queue = [i \in Slots |-> None]
    /\ mutex = [m \in Mutexes |-> None]
    /\ pcS = "lock_santa"
    /\ pcR = [r \in Reindeers |-> "lock_reindeer_wait"]
    /\ pcE = [e \in Elves |-> "lock_elves_wait"]
    /\ back = {}

----------------------------------------------------------------------------
(* Mutexes and condition variables. *)

Lock(m, t) == mutex[m] = None /\ mutex' = [mutex EXCEPT ![m] = t]
Unlock(m)  == mutex' = [mutex EXCEPT ![m] = None]

SantaTo(l)       == pcS' = l
ReindeerTo(r, l) == pcR' = [pcR EXCEPT ![r] = l]
ElfTo(e, l)      == pcE' = [pcE EXCEPT ![e] = l]

\* A thread that a broadcast wakes still has to lock its mutex again.
BroadcastSanta   == pcS' = IF pcS = "asleep" THEN "lock_santa" ELSE pcS
BroadcastReindeer ==
    pcR' = [r \in Reindeers |->
              IF pcR[r] = "waiting" THEN "lock_reindeer_wait" ELSE pcR[r]]
BroadcastElves ==
    pcE' = [e \in Elves |->
              IF pcE[e] = "waiting" THEN "lock_elves_wait" ELSE pcE[e]]

----------------------------------------------------------------------------
(* santa(): lines 50-111. *)

SantaLock ==
    /\ pcS = "lock_santa"
    /\ Lock("santa", Claus)
    /\ SantaTo("read_elves")
    /\ UNCHANGED <<no_delivery, reindeerVars, elfVars, pcR, pcE>>

\* The left operand of the && of line 56.
SantaReadsElves ==
    /\ pcS = "read_elves"
    /\ SantaTo(IF no_elves_waiting_for_santa < ELVES_WAITING_FOR_SANTA
               THEN "read_reindeer" ELSE "unlock_santa")
    /\ UNCHANGED <<no_delivery, reindeerVars, elfVars, mutex, pcR, pcE>>

\* The right operand.
SantaReadsReindeer ==
    /\ pcS = "read_reindeer"
    /\ SantaTo(IF no_reindeer_back < REINDEER_NUM THEN "wait" ELSE "unlock_santa")
    /\ UNCHANGED <<no_delivery, reindeerVars, elfVars, mutex, pcR, pcE>>

\* pthread_cond_wait releases mutex_santa and falls asleep in one step.
SantaWaits ==
    /\ pcS = "wait"
    /\ Unlock("santa")
    /\ SantaTo("asleep")
    /\ UNCHANGED <<no_delivery, reindeerVars, elfVars, pcR, pcE>>

\* Mutant of SantaUnlock: Santa keeps mutex_santa while he locks mutex_reindeer.
M_SantaKeepsLock ==
    /\ pcS = "unlock_santa"
    /\ SantaTo("lock_reindeer")
    /\ UNCHANGED <<no_delivery, reindeerVars, elfVars, mutex, pcR, pcE>>

SantaUnlock ==
    /\ pcS = "unlock_santa"
    /\ Unlock("santa")
    /\ SantaTo("lock_reindeer")
    /\ UNCHANGED <<no_delivery, reindeerVars, elfVars, pcR, pcE>>

SantaLocksReindeer ==
    /\ pcS = "lock_reindeer"
    /\ Lock("reindeer", Claus)
    /\ \/ /\ no_reindeer_back = REINDEER_NUM
          /\ no_delivery' = no_delivery + 1
          /\ SantaTo("deliver")
       \/ /\ no_reindeer_back # REINDEER_NUM
          /\ SantaTo("unlock_reindeer")
          /\ UNCHANGED no_delivery
    /\ UNCHANGED <<reindeerVars, elfVars, pcR, pcE>>

\* Mutant of SantaDelivers: line 74 is missing.
M_SantaDeliversNoReset ==
    /\ pcS = "deliver"
    /\ back' = {}
    /\ SantaTo("lock_reindeer_wait")
    /\ UNCHANGED <<no_delivery, no_reindeer_back, reindeer_are_waiting, elfVars,
                   mutex, pcR, pcE>>

SantaDelivers ==
    /\ pcS = "deliver"
    /\ no_reindeer_back' = 0
    /\ back' = {}
    /\ SantaTo("lock_reindeer_wait")
    /\ UNCHANGED <<no_delivery, reindeer_are_waiting, elfVars, mutex, pcR, pcE>>

SantaLocksReindeerWait ==
    /\ pcS = "lock_reindeer_wait"
    /\ Lock("reindeer_wait", Claus)
    /\ SantaTo("release_reindeer")
    /\ UNCHANGED <<no_delivery, reindeerVars, elfVars, pcR, pcE>>

SantaReleasesReindeer ==
    /\ pcS = "release_reindeer"
    /\ reindeer_are_waiting' = FALSE
    /\ BroadcastReindeer
    /\ Unlock("reindeer_wait")
    /\ SantaTo("unlock_reindeer")
    /\ UNCHANGED <<no_delivery, no_reindeer_back, back, elfVars, pcE>>

SantaUnlocksReindeer ==
    /\ pcS = "unlock_reindeer"
    /\ Unlock("reindeer")
    /\ SantaTo("test_delivery")
    /\ UNCHANGED <<no_delivery, reindeerVars, elfVars, pcR, pcE>>

\* break and exit(0): the whole process, every other thread with it, ends.
SantaTestsDelivery ==
    /\ pcS = "test_delivery"
    /\ SantaTo(IF no_delivery = MaxDeliveries THEN "exited" ELSE "lock_elves")
    /\ UNCHANGED <<no_delivery, reindeerVars, elfVars, mutex, pcR, pcE>>

SantaLocksElves ==
    /\ pcS = "lock_elves"
    /\ Lock("elves", Claus)
    /\ SantaTo(IF no_elves_waiting_for_santa = ELVES_WAITING_FOR_SANTA
               THEN "lock_elves_wait" ELSE "unlock_elves")
    /\ UNCHANGED <<no_delivery, reindeerVars, elfVars, pcR, pcE>>

SantaLocksElvesWait ==
    /\ pcS = "lock_elves_wait"
    /\ Lock("elves_wait", Claus)
    /\ SantaTo("release_elves")
    /\ UNCHANGED <<no_delivery, reindeerVars, elfVars, pcR, pcE>>

\* Mutant of SantaReleasesElves: reset_queue (line 99) is not called.
M_SantaKeepsQueue ==
    /\ pcS = "release_elves"
    /\ no_elves_waiting_for_santa' = 0
    /\ BroadcastElves
    /\ Unlock("elves_wait")
    /\ SantaTo("unlock_elves")
    /\ UNCHANGED <<no_delivery, reindeerVars, elves_queue, pcR>>

\* Mutant of SantaReleasesElves: pthread_cond_signal instead of broadcast.
M_SantaSignalsOneElf ==
    /\ pcS = "release_elves"
    /\ elves_queue' = [i \in Slots |-> None]
    /\ no_elves_waiting_for_santa' = 0
    /\ IF \E e \in Elves : pcE[e] = "waiting"
       THEN \E e \in Elves : pcE[e] = "waiting" /\ ElfTo(e, "lock_elves_wait")
       ELSE UNCHANGED pcE
    /\ Unlock("elves_wait")
    /\ SantaTo("unlock_elves")
    /\ UNCHANGED <<no_delivery, reindeerVars, pcR>>

SantaReleasesElves ==
    /\ pcS = "release_elves"
    /\ elves_queue' = [i \in Slots |-> None]
    /\ no_elves_waiting_for_santa' = 0
    /\ BroadcastElves
    /\ Unlock("elves_wait")
    /\ SantaTo("unlock_elves")
    /\ UNCHANGED <<no_delivery, reindeerVars, pcR>>

SantaUnlocksElves ==
    /\ pcS = "unlock_elves"
    /\ Unlock("elves")
    /\ SantaTo("lock_santa")
    /\ UNCHANGED <<no_delivery, reindeerVars, elfVars, pcR, pcE>>

SantaStep ==
    \/ SantaLock \/ SantaReadsElves \/ SantaReadsReindeer \/ SantaWaits
    \/ SantaUnlock \/ SantaLocksReindeer \/ SantaDelivers \/ SantaLocksReindeerWait
    \/ SantaReleasesReindeer \/ SantaUnlocksReindeer \/ SantaTestsDelivery
    \/ SantaLocksElves \/ SantaLocksElvesWait \/ SantaReleasesElves
    \/ SantaUnlocksElves

----------------------------------------------------------------------------
(* reindeer(): lines 113-140. *)

ReindeerLocksWait(r) ==
    /\ pcR[r] = "lock_reindeer_wait"
    /\ Lock("reindeer_wait", r)
    /\ ReindeerTo(r, "test_flag")
    /\ UNCHANGED <<no_delivery, reindeerVars, elfVars, pcS, pcE>>

\* Mutant of ReindeerTestsFlag: the loop of line 119 is missing.
M_ReindeerIgnoresFlag(r) ==
    /\ pcR[r] = "test_flag"
    /\ Unlock("reindeer_wait")
    /\ ReindeerTo(r, "holidays")
    /\ UNCHANGED <<no_delivery, reindeerVars, elfVars, pcS, pcE>>

ReindeerTestsFlag(r) ==
    /\ pcR[r] = "test_flag"
    /\ Unlock("reindeer_wait")
    /\ ReindeerTo(r, IF reindeer_are_waiting THEN "waiting" ELSE "holidays")
    /\ UNCHANGED <<no_delivery, reindeerVars, elfVars, pcS, pcE>>

ReindeerReturns(r) ==
    /\ pcR[r] = "holidays"
    /\ Lock("reindeer", r)
    /\ ReindeerTo(r, "count")
    /\ UNCHANGED <<no_delivery, reindeerVars, elfVars, pcS, pcE>>

ReindeerCounts(r) ==
    /\ pcR[r] = "count"
    /\ no_reindeer_back' = no_reindeer_back + 1
    /\ back' = back \cup {r}
    /\ ReindeerTo(r, "set_flag")
    /\ UNCHANGED <<no_delivery, reindeer_are_waiting, elfVars, mutex, pcS, pcE>>

ReindeerSetsFlag(r) ==
    /\ pcR[r] = "set_flag"
    /\ reindeer_are_waiting' = TRUE
    /\ ReindeerTo(r, IF no_reindeer_back = REINDEER_NUM
                     THEN "lock_santa" ELSE "unlock_reindeer")
    /\ UNCHANGED <<no_delivery, no_reindeer_back, back, elfVars, mutex, pcS, pcE>>

ReindeerLocksSanta(r) ==
    /\ pcR[r] = "lock_santa"
    /\ Lock("santa", r)
    /\ ReindeerTo(r, "wake_santa")
    /\ UNCHANGED <<no_delivery, reindeerVars, elfVars, pcS, pcE>>

ReindeerWakesSanta(r) ==
    /\ pcR[r] = "wake_santa"
    /\ BroadcastSanta
    /\ Unlock("santa")
    /\ ReindeerTo(r, "unlock_reindeer")
    /\ UNCHANGED <<no_delivery, reindeerVars, elfVars, pcE>>

ReindeerUnlocks(r) ==
    /\ pcR[r] = "unlock_reindeer"
    /\ Unlock("reindeer")
    /\ ReindeerTo(r, "lock_reindeer_wait")
    /\ UNCHANGED <<no_delivery, reindeerVars, elfVars, pcS, pcE>>

ReindeerStep(r) ==
    \/ ReindeerLocksWait(r) \/ ReindeerTestsFlag(r) \/ ReindeerReturns(r)
    \/ ReindeerCounts(r) \/ ReindeerSetsFlag(r) \/ ReindeerLocksSanta(r)
    \/ ReindeerWakesSanta(r) \/ ReindeerUnlocks(r)

----------------------------------------------------------------------------
(* elf(): lines 143-177. *)

ElfLocksWait(e) ==
    /\ pcE[e] = "lock_elves_wait"
    /\ Lock("elves_wait", e)
    /\ ElfTo(e, "test_queue")
    /\ UNCHANGED <<no_delivery, reindeerVars, elfVars, pcS, pcR>>

ElfTestsQueue(e) ==
    /\ pcE[e] = "test_queue"
    /\ Unlock("elves_wait")
    /\ ElfTo(e, IF no_elves_waiting_for_santa = ELVES_WAITING_FOR_SANTA
                THEN "waiting" ELSE "lock_elves")
    /\ UNCHANGED <<no_delivery, reindeerVars, elfVars, pcS, pcR>>

ElfLocksElves(e) ==
    /\ pcE[e] = "lock_elves"
    /\ Lock("elves", e)
    /\ ElfTo(e, "join")
    /\ UNCHANGED <<no_delivery, reindeerVars, elfVars, pcS, pcR>>

\* Mutant of ElfJoins: the test of line 162 is missing.
M_ElfJoinsUnchecked(e) ==
    /\ pcE[e] = "join"
    /\ elves_queue' = [elves_queue EXCEPT ![no_elves_waiting_for_santa] = e]
    /\ no_elves_waiting_for_santa' = no_elves_waiting_for_santa + 1
    /\ ElfTo(e, IF no_elves_waiting_for_santa' = ELVES_WAITING_FOR_SANTA
                THEN "lock_santa" ELSE "unlock_elves")
    /\ UNCHANGED <<no_delivery, reindeerVars, mutex, pcS, pcR>>

\* Another elf may have filled the queue since the test of line 152.
ElfJoins(e) ==
    /\ pcE[e] = "join"
    /\ \/ /\ no_elves_waiting_for_santa < ELVES_WAITING_FOR_SANTA
          /\ elves_queue' = [elves_queue EXCEPT ![no_elves_waiting_for_santa] = e]
          /\ no_elves_waiting_for_santa' = no_elves_waiting_for_santa + 1
          /\ ElfTo(e, IF no_elves_waiting_for_santa' = ELVES_WAITING_FOR_SANTA
                      THEN "lock_santa" ELSE "unlock_elves")
       \/ /\ no_elves_waiting_for_santa >= ELVES_WAITING_FOR_SANTA
          /\ ElfTo(e, "unlock_elves")
          /\ UNCHANGED elfVars
    /\ UNCHANGED <<no_delivery, reindeerVars, mutex, pcS, pcR>>

\* Mutant of ElfLocksSanta: the broadcast is sent without mutex_santa.
M_ElfWakesUnlocked(e) ==
    /\ pcE[e] = "lock_santa"
    /\ BroadcastSanta
    /\ ElfTo(e, "unlock_elves")
    /\ UNCHANGED <<no_delivery, reindeerVars, elfVars, mutex, pcR>>

ElfLocksSanta(e) ==
    /\ pcE[e] = "lock_santa"
    /\ Lock("santa", e)
    /\ ElfTo(e, "wake_santa")
    /\ UNCHANGED <<no_delivery, reindeerVars, elfVars, pcS, pcR>>

ElfWakesSanta(e) ==
    /\ pcE[e] = "wake_santa"
    /\ BroadcastSanta
    /\ Unlock("santa")
    /\ ElfTo(e, "unlock_elves")
    /\ UNCHANGED <<no_delivery, reindeerVars, elfVars, pcR>>

ElfUnlocks(e) ==
    /\ pcE[e] = "unlock_elves"
    /\ Unlock("elves")
    /\ ElfTo(e, "lock_elves_wait")
    /\ UNCHANGED <<no_delivery, reindeerVars, elfVars, pcS, pcR>>

ElfStep(e) ==
    \/ ElfLocksWait(e) \/ ElfTestsQueue(e) \/ ElfLocksElves(e) \/ ElfJoins(e)
    \/ ElfLocksSanta(e) \/ ElfWakesSanta(e) \/ ElfUnlocks(e)

----------------------------------------------------------------------------
\* POSIX lets pthread_cond_wait return without a broadcast.
SpuriousWakeup ==
    /\ \/ /\ pcS = "asleep"
          /\ SantaTo("lock_santa")
          /\ UNCHANGED <<pcR, pcE>>
       \/ \E r \in Reindeers : /\ pcR[r] = "waiting"
                               /\ ReindeerTo(r, "lock_reindeer_wait")
                               /\ UNCHANGED <<pcS, pcE>>
       \/ \E e \in Elves : /\ pcE[e] = "waiting"
                           /\ ElfTo(e, "lock_elves_wait")
                           /\ UNCHANGED <<pcS, pcR>>
    /\ UNCHANGED <<no_delivery, reindeerVars, elfVars, mutex>>

Running == pcS # "exited"

Next ==
    \/ Running /\ SantaStep
    \/ Running /\ \E r \in Reindeers : ReindeerStep(r)
    \/ Running /\ \E e \in Elves : ElfStep(e)
    \/ Running /\ SpuriousWakeup
    \/ ~Running /\ UNCHANGED vars   \* the process has exited

Spec == Init /\ [][Next]_vars

\* Liveness leaves spurious wakeups out: an endless run of them is not scheduling.
\* The operating system runs every runnable thread.
Step ==
    \/ Running /\ SantaStep
    \/ Running /\ \E r \in Reindeers : ReindeerStep(r)
    \/ Running /\ \E e \in Elves : ElfStep(e)
    \/ ~Running /\ UNCHANGED vars

FairSpec ==
    /\ Init /\ [][Step]_vars
    /\ WF_vars(Running /\ SantaStep)
    /\ \A r \in Reindeers : WF_vars(Running /\ ReindeerStep(r))
    /\ \A e \in Elves : WF_vars(Running /\ ElfStep(e))

----------------------------------------------------------------------------
(* Safety. *)

\* The type invariant; the counters stay within the arrays and loops they
\* index or end: lines 18-26.
TypeOK ==
    /\ no_reindeer_back \in 0 .. REINDEER_NUM
    /\ no_delivery \in 0 .. MaxDeliveries
    /\ reindeer_are_waiting \in BOOLEAN
    /\ no_elves_waiting_for_santa \in 0 .. ELVES_WAITING_FOR_SANTA
    /\ elves_queue \in [Slots -> Elves \cup {None}]
    /\ mutex \in [Mutexes -> Threads \cup {None}]
    /\ pcS \in SantaLabels
    /\ pcR \in [Reindeers -> ReindeerLabels]
    /\ pcE \in [Elves -> ElfLabels]
    /\ back \in SUBSET Reindeers

\* No reindeer is counted twice in one round, although line 129 sets the flag
\* that keeps it from returning under another mutex than line 119 reads it:
\* no_reindeer_back is the number of different reindeer that are back.
OneReturnPerRound == no_reindeer_back = Cardinality(back)

\* A delivery (line 71) starts only when every reindeer is back.
DeliveryNeedsHerd == [][no_delivery' # no_delivery => back = Reindeers]_vars

\* The slots of elves_queue below no_elves_waiting_for_santa hold elves and the
\* others hold -1, at every point where another thread can look: lines 99-100, 163-164.
QueueMatchesCount ==
    \A i \in Slots : elves_queue[i] # None <=> i < no_elves_waiting_for_santa

\* Santa does not sleep through a wakeup: while he sleeps and one of his two
\* conditions (line 56) holds, some thread is still going to wake him.
NoLostWakeup ==
    pcS = "asleep" =>
      /\ no_elves_waiting_for_santa = ELVES_WAITING_FOR_SANTA =>
           \E e \in Elves : pcE[e] \in {"lock_santa", "wake_santa"}
      /\ no_reindeer_back = REINDEER_NUM =>
           \E r \in Reindeers : pcR[r] \in {"set_flag", "lock_santa", "wake_santa"}

\* The mutex a thread is about to lock.
Wants(t) ==
    CASE t = Claus ->
           (CASE pcS = "lock_santa" -> "santa"
              [] pcS = "lock_reindeer" -> "reindeer"
              [] pcS = "lock_reindeer_wait" -> "reindeer_wait"
              [] pcS = "lock_elves" -> "elves"
              [] pcS = "lock_elves_wait" -> "elves_wait"
              [] OTHER -> "none")
      [] t \in Reindeers ->
           (CASE pcR[t] = "lock_reindeer_wait" -> "reindeer_wait"
              [] pcR[t] = "holidays" -> "reindeer"
              [] pcR[t] = "lock_santa" -> "santa"
              [] OTHER -> "none")
      [] OTHER ->
           (CASE pcE[t] = "lock_elves_wait" -> "elves_wait"
              [] pcE[t] = "lock_elves" -> "elves"
              [] pcE[t] = "lock_santa" -> "santa"
              [] OTHER -> "none")

\* t waits for a mutex that a thread of D holds.
BlockedBy(t, D) == Wants(t) # "none" /\ mutex[Wants(t)] \in D

\* No set of threads waits for each other's mutexes, although Santa, the
\* reindeer and the elves each nest two of the five: lines 67-84, 93-107,
\* 126-138 and 159-175.
NoCircularWait ==
    \A D \in SUBSET Threads : D # {} => \E t \in D : ~BlockedBy(t, D)

----------------------------------------------------------------------------
(* The inductive invariant. *)

\* Where a thread holds each mutex.
HoldsS(m) ==
    \/ m = "santa" /\ pcS \in {"read_elves", "read_reindeer", "wait", "unlock_santa"}
    \/ m = "reindeer" /\ pcS \in {"deliver", "lock_reindeer_wait",
                                  "release_reindeer", "unlock_reindeer"}
    \/ m = "reindeer_wait" /\ pcS = "release_reindeer"
    \/ m = "elves" /\ pcS \in {"lock_elves_wait", "release_elves", "unlock_elves"}
    \/ m = "elves_wait" /\ pcS = "release_elves"
HoldsR(m, r) ==
    \/ m = "santa" /\ pcR[r] = "wake_santa"
    \/ m = "reindeer" /\ pcR[r] \in {"count", "set_flag", "lock_santa",
                                     "wake_santa", "unlock_reindeer"}
    \/ m = "reindeer_wait" /\ pcR[r] = "test_flag"
HoldsE(m, e) ==
    \/ m = "santa" /\ pcE[e] = "wake_santa"
    \/ m = "elves" /\ pcE[e] \in {"join", "lock_santa", "wake_santa", "unlock_elves"}
    \/ m = "elves_wait" /\ pcE[e] = "test_queue"

\* A thread is where it holds a mutex exactly when the mutex is its own.
LockInv ==
    \A m \in Mutexes :
      /\ mutex[m] = Claus <=> HoldsS(m)
      /\ \A r \in Reindeers : mutex[m] = r <=> HoldsR(m, r)
      /\ \A e \in Elves : mutex[m] = e <=> HoldsE(m, e)

\* A reindeer on holiday is not yet counted; once one that is counted has set the
\* flag, the flag stays up until Santa has started a new round.
RoundInv ==
    /\ no_reindeer_back = Cardinality(back)
    /\ \A r \in back : /\ pcR[r] \notin {"holidays", "count"}
                       /\ pcR[r] # "set_flag" => reindeer_are_waiting
    /\ pcS \in {"lock_reindeer_wait", "release_reindeer"} => back = {}
    /\ pcS = "deliver" => back = Reindeers

\* Santa ends the process before he could start a delivery too many.
DeliveryInv ==
    /\ no_delivery <= MaxDeliveries
    /\ no_delivery = MaxDeliveries =>
         pcS \in {"deliver", "lock_reindeer_wait", "release_reindeer",
                  "unlock_reindeer", "test_delivery", "exited"}

\* The queue and its count; Santa helps full groups only.
QueueInv ==
    /\ QueueMatchesCount
    /\ pcS \in {"lock_elves_wait", "release_elves"} =>
         no_elves_waiting_for_santa = ELVES_WAITING_FOR_SANTA

\* NoLostWakeup, from the moment Santa has read a counter.
WakeInv ==
    /\ pcS \in {"read_reindeer", "wait", "asleep"}
       /\ no_elves_waiting_for_santa = ELVES_WAITING_FOR_SANTA =>
         \E e \in Elves : pcE[e] \in {"lock_santa", "wake_santa"}
    /\ pcS \in {"wait", "asleep"} /\ no_reindeer_back = REINDEER_NUM =>
         \E r \in Reindeers : pcR[r] \in {"set_flag", "lock_santa", "wake_santa"}

\* The conjunction every step preserves (SantaProofs).
IInv == TypeOK /\ LockInv /\ RoundInv /\ DeliveryInv /\ QueueInv /\ WakeInv

----------------------------------------------------------------------------
(* Liveness. *)

\* A full group of elves is helped, unless the process exits first.
GroupServed ==
    no_elves_waiting_for_santa = ELVES_WAITING_FOR_SANTA
      ~> no_elves_waiting_for_santa = 0 \/ ~Running

\* When all reindeer are back Santa delivers, unless that was after his last delivery.
HerdDelivered ==
    no_reindeer_back = REINDEER_NUM ~> no_reindeer_back = 0 \/ ~Running

\* An elf that found the queue full (line 152) is woken again.
WaitingElfResumes ==
    \A e \in Elves : pcE[e] = "waiting" ~> pcE[e] # "waiting" \/ ~Running

\* Santa makes all his deliveries and the threads end: lines 86-90 and 206-213.
\* The code does not guarantee it: a reindeer that reaches line 119 after another
\* one has set the flag waits without having been counted.
AllDeliveriesMade == <>~Running
=============================================================================
