------------------------------- MODULE GameNet -------------------------------
(***************************************************************************)
(* What goes between the tic-tac-toe server and its clients, cw10: over    *)
(* stream sockets (zad1) or datagram sockets (zad2), local or internet.    *)
(* Every message is sent whole and in order; datagrams to an internet      *)
(* socket whose buffer is full are lost.                                   *)
(***************************************************************************)
EXTENDS Integers, Sequences, FiniteSets

CONSTANTS Clients,    \* the client processes; each runs once
          Name,       \* the name each was started with: two may have the same
          STREAM,     \* TRUE for zad1, FALSE for zad2
          MaxLost     \* bound: datagrams lost

NetAssumption == STREAM \in BOOLEAN /\ MaxLost \in Nat

VARIABLES
    toServer,   \* what each client has sent and the server has not received
    toClient,   \* and the other way round
    conn,       \* each client's socket: "none", "open", "closed" by the client, or
                \* "killed" with its process
    lost        \* datagrams lost so far

net == <<toServer, toClient, conn, lost>>

ServerMessages == [action : {"initialization", "move", "quit", "game_over", "ping"},
                   args : {" ", "goes on", "ends"}]
ClientMessages == [action : {"initialization", "opponent_move", "quit", "ping"},
                   args : {"O", "X", "no_enemy_found", "username_in_use", "no_free_slot",
                           "goes on", "ends", " "}]
Msg(a, x) == [action |-> a, args |-> x]

NetInit ==
    /\ toServer = [c \in Clients |-> <<>>]
    /\ toClient = [c \in Clients |-> <<>>]
    /\ conn = [c \in Clients |-> "none"]
    /\ lost = 0

Gone(c) == conn[c] \in {"closed", "killed"}

\* The next datagram of some queue does not get there.
Lose ==
    /\ ~STREAM /\ lost < MaxLost
    /\ lost' = lost + 1
    /\ \E c \in Clients :
         \/ /\ toServer[c] # <<>>
            /\ toServer' = [toServer EXCEPT ![c] = Tail(@)]
            /\ UNCHANGED toClient
         \/ /\ toClient[c] # <<>>
            /\ toClient' = [toClient EXCEPT ![c] = Tail(@)]
            /\ UNCHANGED toServer
    /\ UNCHANGED conn
=============================================================================
