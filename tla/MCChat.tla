------------------------------- MODULE MCChat -------------------------------
(* The chats of zad1 and zad2, each with room for both clients and with room   *)
(* for one of them only: the instance of ChatSysV and ChatPosix for TLC.  Which *)
(* one runs is chosen in the initial state; the constants of this module are    *)
(* those of zad1 with room for both.                                            *)
EXTENDS ChatSysV

CONSTANTS c1, c2

VARIABLES
    ipc,     \* "sysv" or "posix"
    users    \* MAX_NO_USERS

Both == {c1, c2}

V1 == INSTANCE ChatSysV  WITH MAX_NO_USERS <- 1, MaxCommands <- 1
P1 == INSTANCE ChatPosix WITH MAX_NO_USERS <- 1, MaxCommands <- 1, CAPACITY <- 2
P2 == INSTANCE ChatPosix WITH CAPACITY <- 2

mcvars == <<SysVvars, ipc, users>>

Is(p, n) == ipc = p /\ users = n
NoSysV   == my_queue = {} /\ zero = FALSE

MCInit ==
    \/ Is("sysv", 1) /\ V1!SysVInit
    \/ Is("sysv", 2) /\ SysVInit
    \/ Is("posix", 1) /\ P1!Init /\ NoSysV
    \/ Is("posix", 2) /\ P2!Init /\ NoSysV

MCNext ==
    /\ UNCHANGED <<ipc, users>>
    /\ \/ Is("sysv", 1) /\ V1!Next
       \/ Is("sysv", 2) /\ Next
       \/ Is("posix", 1) /\ P1!Next /\ UNCHANGED <<my_queue, zero>>
       \/ Is("posix", 2) /\ P2!Next /\ UNCHANGED <<my_queue, zero>>

MCSpec == MCInit /\ [][MCNext]_mcvars

Symmetry == Permutations(Both)

----------------------------------------------------------------------------
\* Type invariant.
MCTypeOK == IF users = 1 THEN V1!TypeOK ELSE TypeOK
=============================================================================
