--------------------------- MODULE SignalHandshake ---------------------------
(***************************************************************************)
(* cw04/zad3b: sender raises a signal in catcher and spins until catcher's *)
(* handler has raised one back, COUNT times; the end signal is answered in *)
(* the same way.  So at most one signal is ever under way, and it does not *)
(* matter whether the kernel queues signals (SIGRT mode) or lets a pending *)
(* one absorb the next (modes KILL and SIGQUEUE).                          *)
(***************************************************************************)
EXTENDS Signals

VARIABLES
    pcS,         \* of sender: "raise", "spin", "end", "spin_end" or "done"
    rounds,      \* rounds of sender's loop that are complete
    pcC,         \* of catcher's main: "spin" or "done"
    in1, in2,    \* where catcher is in its handlers sigusr1 and sigusr2
    toC1, toC2,  \* signals pending in catcher: how many, and the end signal
    toS1, toS2,  \* the same in sender
    received_signals, is_sigusr2_signal,   \* of sender
    sigusr1_received, got_sig2             \* of catcher

kernel  == <<toC1, toC2, toS1, toS2>>
sender  == <<pcS, rounds, received_signals, is_sigusr2_signal>>
catcher == <<pcC, in1, in2, sigusr1_received, got_sig2>>
handshakeVars == <<kind, kernel, sender, catcher>>

HandshakeInit ==
    /\ kind \in Modes
    /\ pcS = "raise" /\ rounds = 0
    /\ pcC = "spin" /\ in1 = "out" /\ in2 = "out"
    /\ toC1 = 0 /\ toC2 = FALSE /\ toS1 = 0 /\ toS2 = FALSE
    /\ received_signals = 0 /\ is_sigusr2_signal = FALSE
    /\ sigusr1_received = 0 /\ got_sig2 = FALSE

----------------------------------------------------------------------------
(* sender *)

Raise ==
    /\ pcS = "raise"
    /\ IF rounds < COUNT THEN toC1' = Plus(toC1) /\ pcS' = "spin"
                    ELSE UNCHANGED toC1 /\ pcS' = "end"
    /\ UNCHANGED <<kind, toC2, toS1, toS2, rounds, received_signals, is_sigusr2_signal,
                   catcher>>

\* Mutant of Spin: the loop ends one signal early.
M_SpinsLess ==
    /\ pcS = "spin"
    /\ received_signals >= rounds
    /\ pcS' = "raise"
    /\ rounds' = rounds + 1
    /\ UNCHANGED <<kind, kernel, received_signals, is_sigusr2_signal, catcher>>

\* The end of while(received_signals - 1 < rounds).
Spin ==
    /\ pcS = "spin"
    /\ received_signals - 1 >= rounds
    /\ pcS' = "raise"
    /\ rounds' = rounds + 1
    /\ UNCHANGED <<kind, kernel, received_signals, is_sigusr2_signal, catcher>>

RaiseEnd ==
    /\ pcS = "end"
    /\ toC2' = TRUE
    /\ pcS' = "spin_end"
    /\ UNCHANGED <<kind, toC1, toS1, toS2, rounds, received_signals, is_sigusr2_signal,
                   catcher>>

SpinEnd ==
    /\ pcS = "spin_end"
    /\ is_sigusr2_signal
    /\ pcS' = "done"
    /\ UNCHANGED <<kind, kernel, rounds, received_signals, is_sigusr2_signal, catcher>>

\* sender's handlers only write their variable.
SenderHandles1 ==
    /\ pcS # "done" /\ toS1 > 0
    /\ toS1' = toS1 - 1
    /\ received_signals' = received_signals + 1
    /\ UNCHANGED <<kind, toC1, toC2, toS2, pcS, rounds, is_sigusr2_signal, catcher>>

SenderHandles2 ==
    /\ pcS # "done" /\ toS2
    /\ toS2' = FALSE
    /\ is_sigusr2_signal' = TRUE
    /\ UNCHANGED <<kind, toC1, toC2, toS1, pcS, rounds, received_signals, catcher>>

Sender == Raise \/ Spin \/ RaiseEnd \/ SpinEnd \/ SenderHandles1 \/ SenderHandles2

----------------------------------------------------------------------------
(* catcher.  A signal is blocked while its own handler runs, and either handler *)
(* can interrupt the other.                                                     *)

sigusr1_counts ==
    /\ pcC # "done" /\ toC1 > 0 /\ in1 = "out"
    /\ toC1' = toC1 - 1
    /\ sigusr1_received' = sigusr1_received + 1
    /\ in1' = "counted"
    /\ UNCHANGED <<kind, toC2, toS1, toS2, pcC, in2, got_sig2, sender>>

sigusr1_replies ==
    /\ in1 = "counted"
    /\ toS1' = Plus(toS1)
    /\ in1' = "replied"
    /\ UNCHANGED <<kind, toC1, toC2, toS2, pcC, in2, sigusr1_received, got_sig2, sender>>

\* sigusr2, raised last, can only be on top of sigusr1, and then ends first.
sigusr1_returns ==
    /\ in1 = "replied" /\ in2 = "out"
    /\ in1' = "out"
    /\ UNCHANGED <<kind, kernel, pcC, in2, sigusr1_received, got_sig2, sender>>

\* Mutant of sigusr2_replies: the end signal is noted but not answered.
M_NoAnswer ==
    /\ pcC # "done" /\ toC2 /\ in2 = "out"
    /\ toC2' = FALSE
    /\ in2' = "replied"
    /\ UNCHANGED <<kind, toC1, toS1, toS2, pcC, in1, sigusr1_received, got_sig2, sender>>

sigusr2_replies ==
    /\ pcC # "done" /\ toC2 /\ in2 = "out"
    /\ toC2' = FALSE
    /\ toS2' = TRUE
    /\ in2' = "replied"
    /\ UNCHANGED <<kind, toC1, toS1, pcC, in1, sigusr1_received, got_sig2, sender>>

sigusr2_returns ==
    /\ in2 = "replied"
    /\ got_sig2' = TRUE
    /\ in2' = "out"
    /\ UNCHANGED <<kind, kernel, pcC, in1, sigusr1_received, sender>>

\* main of catcher runs outside of the handlers only.
CatcherExits ==
    /\ pcC = "spin" /\ in1 = "out" /\ in2 = "out"
    /\ got_sig2
    /\ pcC' = "done"
    /\ UNCHANGED <<kind, kernel, in1, in2, sigusr1_received, got_sig2, sender>>

Catcher == sigusr1_counts \/ sigusr1_replies \/ sigusr1_returns
           \/ sigusr2_replies \/ sigusr2_returns \/ CatcherExits

----------------------------------------------------------------------------
BothDone == pcS = "done" /\ pcC = "done"
HandshakeNext == Sender \/ Catcher \/ (BothDone /\ UNCHANGED handshakeVars)

HandshakeSpec     == HandshakeInit /\ [][HandshakeNext]_handshakeVars
HandshakeFairSpec ==
    HandshakeSpec /\ WF_handshakeVars(Sender) /\ WF_handshakeVars(Catcher)

----------------------------------------------------------------------------
HandshakeTypeOK ==
    /\ kind \in Modes
    /\ pcS \in {"raise", "spin", "end", "spin_end", "done"} /\ pcC \in {"spin", "done"}
    /\ in1 \in {"out", "counted", "replied"} /\ in2 \in {"out", "replied"}
    /\ toC1 \in Nat /\ toS1 \in Nat
    /\ toC2 \in BOOLEAN /\ toS2 \in BOOLEAN
    /\ rounds \in 0 .. COUNT
    /\ received_signals \in Nat /\ sigusr1_received \in Nat
    /\ is_sigusr2_signal \in BOOLEAN /\ got_sig2 \in BOOLEAN

\* The comment at the spin loop: sender waits until catcher sends the same signal
\* back.  So no signal is raised while one of its number is pending, which the
\* kernel would absorb.
OneUnderWay == toC1 + toS1 + (IF in1 = "counted" THEN 1 ELSE 0) <= 1

\* What both programs print at their end is the number the user asked for: nothing
\* is lost on either way, whatever the kind of signal.
Lossless ==
    /\ pcS = "done" => received_signals = COUNT /\ sigusr1_received = COUNT
    /\ pcC = "done" => sigusr1_received = COUNT

\* The inductive invariant: each phase of sender fixes how many signals there are,
\* and where.
Phase1 ==
    /\ received_signals <= sigusr1_received
    /\ sigusr1_received = received_signals + toS1 + (IF in1 = "counted" THEN 1 ELSE 0)
    /\ IF pcS = "spin"
        THEN rounds < COUNT /\ rounds + 1 = sigusr1_received + toC1
        ELSE rounds = received_signals /\ toC1 = 0 /\ rounds = sigusr1_received
Phase2 ==
    /\ pcS \in {"end", "spin_end", "done"} => rounds = COUNT
    /\ toC2 \/ in2 = "replied" \/ got_sig2 \/ toS2 \/ is_sigusr2_signal
         => pcS \in {"spin_end", "done"}
    /\ pcS = "done" => is_sigusr2_signal
    /\ pcC = "done" => got_sig2
HandshakeInv == HandshakeTypeOK /\ OneUnderWay /\ Phase1 /\ Phase2

\* Both programs end.
Termination == <>BothDone
=============================================================================
