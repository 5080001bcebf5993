------------------------------ MODULE Pipeline ------------------------------
(***************************************************************************)
(* cw05/zad1: execute_command joins the commands of a line by pipes.  What *)
(* matters is which process has which end of which pipe under which        *)
(* descriptor: descriptors are numbers that are used again, and the loop   *)
(* remembers the numbers of the pipe before.  A step is one turn's pipe,   *)
(* its fork with what the child does before it executes its command, and   *)
(* the rest of the turn.                                                   *)
(***************************************************************************)
EXTENDS Integers, Sequences

CONSTANTS MaxSeparated,   \* bound: commands of one line
          MaxLines,       \* bound: lines executed
          OPEN_MAX,       \* descriptors a process may have
          Rubbish         \* numbers the stack may hold where prev is

ASSUME PipelineAssumption ==
    /\ MaxSeparated \in Nat \ {0} /\ MaxLines \in Nat \ {0}
    /\ OPEN_MAX \in Nat /\ OPEN_MAX >= 4
    /\ Rubbish \subseteq Int

VARIABLES
    no_separated_commands,
    i,            \* the command the loop is at; all are started when i is their number
    at,           \* "pipe", "fork", "close" or "exited"
    files,        \* what the parent's descriptors are open on
    fd1, prev,    \* the arrays of descriptors
    child,        \* what the descriptors of each child were when it executed its command
    lines,        \* lines executed
    garbage       \* history: what prev held when the line was started

pipeVars == <<no_separated_commands, i, at, files, fd1, prev, child, lines, garbage>>

\* Standard input, output and error, the file of commands, and those that are free.
Descriptors == 0 .. OPEN_MAX - 1
Closed == <<"closed">>
In(k)  == <<"write", lines, k>>   \* the end of a line's pipe k that output goes into
Out(k) == <<"read", lines, k>>

close(f, d) == IF d \in Descriptors THEN [f EXCEPT ![d] = Closed] ELSE f
dup2(f, from, to) == IF f[from] = Closed THEN f ELSE [f EXCEPT ![to] = f[from]]

\* prev is not initialised: the first turn of a line closes whatever the stack holds there,
\* and the later ones find what the turn before left.
Garbage == Rubbish \X Rubbish

PipeInit ==
    /\ no_separated_commands \in 1 .. MaxSeparated
    /\ i = 0 /\ at = "pipe"
    /\ files = [d \in Descriptors |-> CASE d < 3 -> <<"tty">> [] d = 3 -> <<"commands">>
                                    [] OTHER -> Closed]
    /\ fd1 = <<-1, -1>>
    /\ garbage \in Garbage /\ prev = garbage
    /\ child = <<>>
    /\ lines = 1

Free(f) == {d \in Descriptors : f[d] = Closed}

\* Mutant of More: one turn too many.
M_OneMore == i <= no_separated_commands

More == i < no_separated_commands

\* The lowest free descriptors become the two ends.
Pipe ==
    /\ at = "pipe" /\ More
    /\ \E r, w \in Free(files) :
         /\ r < w
         /\ \A d \in Free(files) : d = r \/ d >= w
         /\ fd1' = <<r, w>>
         /\ files' = [files EXCEPT ![r] = Out(i), ![w] = In(i)]
    /\ at' = "fork"
    /\ UNCHANGED <<no_separated_commands, i, prev, child, lines, garbage>>

\* pipe or fork fails; nobody waits for the commands that have been started.
Exits ==
    /\ \/ at = "pipe" /\ More /\ ~\E r, w \in Free(files) : r # w
       \/ at = "fork"
    /\ at' = "exited"
    /\ files' = [d \in Descriptors |-> Closed]
    /\ UNCHANGED <<no_separated_commands, i, fd1, prev, child, lines, garbage>>

\* Mutant of Child: both ends of the pipe stay open.
M_ChildKeepsEnd ==
    LET a == close(files, prev[2])
        b == IF i > 0 THEN dup2(a, prev[1], 0) ELSE a
    IN IF i < no_separated_commands - 1 THEN dup2(b, fd1[2], 1) ELSE b

Child ==
    LET a == close(close(files, fd1[1]), prev[2])
        b == IF i > 0 THEN dup2(a, prev[1], 0) ELSE a
    IN IF i < no_separated_commands - 1 THEN dup2(b, fd1[2], 1) ELSE b

Fork ==
    /\ at = "fork"
    /\ child' = Append(child, Child)
    /\ at' = "close"
    /\ UNCHANGED <<no_separated_commands, i, files, fd1, prev, lines, garbage>>

CloseEnds ==
    /\ at = "close"
    /\ files' = close(close(files, fd1[2]), prev[1])
    /\ prev' = fd1
    /\ i' = i + 1
    /\ at' = "pipe"
    /\ UNCHANGED <<no_separated_commands, fd1, child, lines, garbage>>

\* Every command has ended, and the next line is executed; the last pipe is left open.
Wait ==
    /\ at = "pipe" /\ ~More /\ lines < MaxLines
    /\ lines' = lines + 1
    /\ no_separated_commands' \in 1 .. MaxSeparated
    /\ i' = 0 /\ child' = <<>>
    /\ garbage' \in Garbage /\ prev' = garbage'
    /\ UNCHANGED <<at, files, fd1>>

PipeNext == Pipe \/ Fork \/ CloseEnds \/ Wait \/ Exits

PipeSpec == PipeInit /\ [][PipeNext]_pipeVars

----------------------------------------------------------------------------
OpenOn == {<<"tty">>, <<"commands">>, Closed} \cup
          ({"read", "write"} \X (1 .. lines) \X (0 .. MaxSeparated - 1))

PipeTypeOK ==
    /\ i \in 0 .. no_separated_commands
    /\ files \in [Descriptors -> OpenOn]
    /\ Len(child) <= no_separated_commands

Has(k, end) == end \in {child[k + 1][d] : d \in Descriptors}
Started == 0 .. Len(child) - 1
AllStarted == at = "pipe" /\ ~More

\* prev[0] held no descriptor, so that nothing of the line's first pipe was closed.
Spared == garbage[1] \notin Descriptors

\* A command that waits for the end of its input, or that writes on after its reader has
\* gone, ends, whatever the stack held: each end of each pipe is open in no command but
\* the one it is meant for, and main keeps no end that output goes into.  And if prev[0]
\* held no descriptor, each command but the first reads from the pipe of the one before.
EndsInOneProcess ==
    /\ \A k, l \in Started : /\ Has(l, In(k)) => l = k
                             /\ Has(l, Out(k)) => l = k + 1
    /\ AllStarted => \A k \in Started : In(k) \notin {files[d] : d \in Descriptors}
    /\ Spared => \A k \in Started \ {0} : child[k + 1][0] = Out(k - 1)

\* What the notation "skladnik1 | skladnik 2 | ... | skladnikN" of main.c 255 stands for:
\* the output of each command goes into its pipe and the next one reads from it, even if
\* prev held no descriptor at all.
ChainJoined ==
    AllStarted /\ Spared /\ garbage[2] \notin Descriptors =>
      \A k \in 0 .. no_separated_commands - 2 :
        child[k + 1][1] = In(k) /\ child[k + 2][0] = Out(k)

\* The inductive invariant: of a line's ends the process has at most those of this turn's
\* pipe and the one the turn before has left to read from, each under the number that the
\* arrays have for it.
InPlace(d, k)  == at # "pipe" /\ k = i /\ d = fd1[2]
OutPlace(d, k) == (at # "pipe" /\ k = i /\ d = fd1[1]) \/ (k = i - 1 /\ d = prev[1])

ParentHolds ==
    \A d \in Descriptors, k \in Int :
      /\ files[d] = In(k)  => InPlace(d, k)
      /\ files[d] = Out(k) => OutPlace(d, k)

ArraysHold ==
    /\ fd1 \in Int \X Int /\ prev \in Int \X Int /\ garbage \in Int \X Int
    /\ i = 0 => prev = garbage
    /\ i > 0 => prev \in Descriptors \X Descriptors /\ prev[1] # prev[2]
    /\ at \in {"fork", "close"} => fd1 \in Descriptors \X Descriptors /\ fd1[1] # fd1[2]

\* Nothing is missing of what is to be read, if prev[0] held no descriptor.
Readable ==
    /\ i > 0 => files[prev[1]] = Out(i - 1)
    /\ at \in {"fork", "close"} => files[fd1[1]] = Out(i)

ChildHolds(k, c) ==
    /\ c \in [Descriptors -> OpenOn]
    /\ \A d \in Descriptors, l \in Int :
         /\ c[d] = In(l)  => l = k
         /\ c[d] = Out(l) => l = k - 1
    /\ Spared /\ k > 0 => c[0] = Out(k - 1)

PipeInv ==
    /\ no_separated_commands \in 1 .. MaxSeparated /\ lines \in 1 .. MaxLines
    /\ i \in 0 .. no_separated_commands
    /\ at \in {"pipe", "fork", "close", "exited"}
    /\ at # "pipe" => More
    /\ files \in [Descriptors -> OpenOn]
    /\ child \in Seq([Descriptors -> OpenOn])
    /\ Len(child) = IF at = "close" THEN i + 1 ELSE i
    /\ ParentHolds /\ ArraysHold
    /\ Spared /\ at # "exited" => Readable
    /\ \A k \in Started : ChildHolds(k, child[k + 1])
=============================================================================
