------------------------------- MODULE MCLabs -------------------------------
(***************************************************************************)
(* The small programs, one of which is chosen in the initial state.  The   *)
(* others stay in a first state of theirs.                                 *)
(***************************************************************************)
EXTENDS Board, BlocksArray, Negative, MCPipeline, FifoTransfer, SignalBurst,
        SignalHandshake, TLC

VARIABLE lab

\* The lines of the two producers.
OneAndThree == <<1, 3>>

signalVars == <<burstVars, handshakeVars>>
vars == <<lab, boardVars, negVars, blockVars, pipeVars, fifoVars, signalVars>>

\* The variables of the modules that do not run.
NoBoard  == BoardInit
NoImage  == /\ mode = "block" /\ width = 1 /\ no_threads = 1
            /\ input_matrix = [r \in Rows |-> [c \in {0} |-> CHOOSE v \in Values : TRUE]]
            /\ NegInit
NoBlocks == BlocksInit
NoPipes  == no_separated_commands = 1 /\ garbage = <<-1, -1>> /\ PipeInit
NoFifo   == newlines = {} /\ input = [p \in Producers |-> 0] /\ FifoInit
NoSignal == kind = "KILL" /\ BurstInit /\ HandshakeInit

Init ==
    \/ /\ lab = "board" /\ BoardInit
       /\ NoImage /\ NoBlocks /\ NoPipes /\ NoFifo /\ NoSignal
    \/ /\ lab = "negative" /\ NegInit
       /\ NoBoard /\ NoBlocks /\ NoPipes /\ NoFifo /\ NoSignal
    \/ /\ lab = "blocks" /\ BlocksInit
       /\ NoBoard /\ NoImage /\ NoPipes /\ NoFifo /\ NoSignal
    \/ /\ lab = "pipeline" /\ PipeInit
       /\ NoBoard /\ NoImage /\ NoBlocks /\ NoFifo /\ NoSignal
    \/ /\ lab = "fifo" /\ FifoInit
       /\ NoBoard /\ NoImage /\ NoBlocks /\ NoPipes /\ NoSignal
    \/ /\ lab \in {"burst", "handshake"} /\ BurstInit /\ HandshakeInit
       /\ NoBoard /\ NoImage /\ NoBlocks /\ NoPipes /\ NoFifo

\* What is left alone while the handshake takes a step.
Rest == <<lab, boardVars, negVars, blockVars, pipeVars, fifoVars, pc, raised, pending1,
          pending2, counted, got_end>>

Next ==
    \/ /\ lab = "board" /\ BoardNext
       /\ UNCHANGED <<lab, negVars, blockVars, pipeVars, fifoVars, signalVars>>
    \/ /\ lab = "negative" /\ NegNext
       /\ UNCHANGED <<lab, boardVars, blockVars, pipeVars, fifoVars, signalVars>>
    \/ /\ lab = "blocks" /\ BlocksNext
       /\ UNCHANGED <<lab, boardVars, negVars, pipeVars, fifoVars, signalVars>>
    \/ /\ lab = "pipeline" /\ PipeNext
       /\ UNCHANGED <<lab, boardVars, negVars, blockVars, fifoVars, signalVars>>
    \/ /\ lab = "fifo" /\ FifoNext
       /\ UNCHANGED <<lab, boardVars, negVars, blockVars, pipeVars, signalVars>>
    \/ /\ lab = "burst" /\ BurstNext
       /\ UNCHANGED <<lab, boardVars, negVars, blockVars, pipeVars, fifoVars, kernel, sender,
                      catcher>>
    \/ lab = "handshake" /\ HandshakeNext /\ UNCHANGED Rest

\* The two processes of the handshake are scheduled.
SenderStep  == lab = "handshake" /\ Sender /\ UNCHANGED Rest
CatcherStep == lab = "handshake" /\ Catcher /\ UNCHANGED Rest

Spec == Init /\ [][Next]_vars /\ WF_vars(SenderStep) /\ WF_vars(CatcherStep)

----------------------------------------------------------------------------
\* Type invariant.
TypeOK == /\ BoardTypeOK /\ NegTypeOK /\ BlocksTypeOK /\ PipeTypeOK /\ FifoTypeOK
          /\ BurstTypeOK /\ HandshakeTypeOK

\* Sender and catcher of cw04/zad3b come to their end, though each spins on what the
\* handler of the other raises (sender.c 118-142, catcher.c 111).
HandshakeEnds == lab = "handshake" => Termination
=============================================================================
