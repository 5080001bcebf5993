---------------------------- MODULE SignalProofs ----------------------------
(***************************************************************************)
(* Proofs about SignalHandshake, for every number of signals and both      *)
(* kinds of them.                                                          *)
(***************************************************************************)
EXTENDS SignalHandshake, TLAPS

\* The programs start with nothing under way.
LEMMA InitInv == HandshakeInit => HandshakeInv
<1> SUFFICES ASSUME HandshakeInit PROVE HandshakeInv
  OBVIOUS
<1>1. HandshakeTypeOK
  <2>1. rounds \in 0 .. COUNT /\ toC1 \in Nat /\ toS1 \in Nat
        /\ received_signals \in Nat /\ sigusr1_received \in Nat
    BY SignalsAssumption DEF SignalsAssumption, Modes, QUEUED, HandshakeInit
  <2>2. pcS = "raise" /\ pcC = "spin" /\ in1 = "out" /\ in2 = "out"
    BY DEF HandshakeInit
  <2>3. toC2 \in BOOLEAN /\ toS2 \in BOOLEAN
        /\ is_sigusr2_signal \in BOOLEAN /\ got_sig2 \in BOOLEAN
    BY Zenon DEF HandshakeInit
  <2>4. kind \in Modes
    BY DEF HandshakeInit
  <2> QED
    BY <2>1, <2>2, <2>3, <2>4, Zenon DEF HandshakeTypeOK
<1>2. OneUnderWay /\ Phase1 /\ Phase2
  BY SignalsAssumption
  DEF SignalsAssumption, Modes, QUEUED, HandshakeInit, OneUnderWay, Phase1, Phase2
<1> QED
  BY <1>1, <1>2 DEF HandshakeInv

\* Every step of sender keeps the invariant.
LEMMA SenderInv == HandshakeInv /\ Sender => HandshakeInv'
<1> SUFFICES ASSUME HandshakeInv, Sender PROVE HandshakeInv'
  OBVIOUS
<1> USE SignalsAssumption
    DEF SignalsAssumption, Modes, QUEUED, HandshakeInv, HandshakeTypeOK, OneUnderWay,
        Phase1, Phase2, catcher, kernel, Plus
<1>1. CASE Raise
  BY <1>1 DEF Raise
<1>2. CASE Spin
  BY <1>2 DEF Spin
<1>3. CASE RaiseEnd
  BY <1>3 DEF RaiseEnd
<1>4. CASE SpinEnd
  BY <1>4 DEF SpinEnd
<1>5. CASE SenderHandles1
  BY <1>5 DEF SenderHandles1
<1>6. CASE SenderHandles2
  BY <1>6 DEF SenderHandles2
<1> QED
  BY <1>1, <1>2, <1>3, <1>4, <1>5, <1>6 DEF Sender

\* Every step of catcher, in main and in its handlers, keeps the invariant.
LEMMA CatcherInv == HandshakeInv /\ Catcher => HandshakeInv'
<1> SUFFICES ASSUME HandshakeInv, Catcher PROVE HandshakeInv'
  OBVIOUS
<1> USE SignalsAssumption
    DEF SignalsAssumption, Modes, QUEUED, HandshakeInv, HandshakeTypeOK, OneUnderWay,
        Phase1, Phase2, sender, kernel, Plus
<1>1. CASE sigusr1_counts
  BY <1>1 DEF sigusr1_counts
<1>2. CASE sigusr1_replies
  BY <1>2 DEF sigusr1_replies
<1>3. CASE sigusr1_returns
  BY <1>3 DEF sigusr1_returns
<1>4. CASE sigusr2_replies
  BY <1>4 DEF sigusr2_replies
<1>5. CASE sigusr2_returns
  BY <1>5 DEF sigusr2_returns
<1>6. CASE CatcherExits
  BY <1>6 DEF CatcherExits
<1> QED
  BY <1>1, <1>2, <1>3, <1>4, <1>5, <1>6 DEF Catcher

LEMMA StepInv == HandshakeInv /\ [HandshakeNext]_handshakeVars => HandshakeInv'
<1>1. HandshakeInv /\ UNCHANGED handshakeVars => HandshakeInv'
  BY DEF HandshakeInv, HandshakeTypeOK, OneUnderWay, Phase1, Phase2, QUEUED, Modes,
         handshakeVars, kernel, sender, catcher
<1> QED
  BY <1>1, SenderInv, CatcherInv DEF HandshakeNext

----------------------------------------------------------------------------
\* HandshakeInv is an inductive invariant of the handshake.
THEOREM Inductive == HandshakeSpec => []HandshakeInv
  BY InitInv, StepInv, PTL DEF HandshakeSpec

\* The variables keep their types.
THEOREM TypeCorrect == HandshakeSpec => []HandshakeTypeOK
<1>1. HandshakeInv => HandshakeTypeOK
  BY DEF HandshakeInv
<1> QED
  BY Inductive, <1>1, PTL

\* At no time is more than one counted signal under way, so none is absorbed.
THEOREM OneAtATime == HandshakeSpec => []OneUnderWay
<1>1. HandshakeInv => OneUnderWay
  BY DEF HandshakeInv
<1> QED
  BY Inductive, <1>1, PTL

\* Both programs have counted exactly COUNT signals when they end.
THEOREM NothingLost == HandshakeSpec => []Lossless
<1>1. HandshakeInv => Lossless
  BY DEF HandshakeInv, HandshakeTypeOK, OneUnderWay, Phase1, Phase2, Lossless
<1> QED
  BY Inductive, <1>1, PTL
=============================================================================
