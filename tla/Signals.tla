------------------------------- MODULE Signals -------------------------------
(***************************************************************************)
(* What the two signalling programs of cw04 have in common: how many       *)
(* signals the user asks for, and which kind of signal both are told to    *)
(* use.  In the mode SIGRT they are SIGRTMIN and SIGRTMIN + 1, of which    *)
(* the kernel queues every one; in the modes KILL and SIGQUEUE they are    *)
(* SIGUSR1 and SIGUSR2, where one that is pending absorbs the next.        *)
(***************************************************************************)
EXTENDS Integers

CONSTANT COUNT   \* how many signals the user asks for

ASSUME SignalsAssumption == COUNT \in Nat

VARIABLE kind    \* the mode both programs are started in

Modes == {"KILL", "SIGQUEUE", "SIGRT"}

QUEUED == kind = "SIGRT"

\* One more pending signal of a number.
Plus(pending) == IF QUEUED THEN pending + 1 ELSE 1
=============================================================================
