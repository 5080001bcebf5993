-------------------------------- MODULE Game --------------------------------
(***************************************************************************)
(* Tic-tac-toe over sockets, cw10: the server, its clients and the network *)
(* between them.                                                           *)
(***************************************************************************)
EXTENDS GameServer, GameClient, Functions

ASSUME GameAssumption == NetAssumption /\ ServerAssumption /\ ClientAssumption

vars == <<net, serverVars, clientVars>>

Init == NetInit /\ ServerInit /\ ClientInit

\* What the server does on the way to poll touches nothing a client can see, nor the
\* other way round: no client needs to take a step in between.
OnTheWay == STREAM /\ srv \in {"count", "collect", "place"}

\* The model ends with the server's process.
Next ==
    /\ Running
    /\ \/ ServerStep /\ UNCHANGED clientVars
       \/ ~OnTheWay /\ (\E c \in Clients : ClientStep(c)) /\ UNCHANGED serverVars
       \/ Lose /\ UNCHANGED <<serverVars, clientVars>>

Spec == Init /\ [][Next]_vars

----------------------------------------------------------------------------
TypeOK ==
    /\ toServer \in [Clients -> Seq(ServerMessages)]
    /\ toClient \in [Clients -> Seq(ClientMessages)]
    /\ conn \in [Clients -> {"none", "open", "closed", "killed"}]
    /\ lost \in 0 .. MaxLost
    /\ clients \in [Slots -> Entries(Clients) \cup {Null}]
    /\ srv \in {"count", "collect", "place", "poll", "handle", "exited", "crashed"}
    /\ poll \in [alloc : 0 .. MAX_NO_CLIENTS + 2, fds : Seq(Clients)]
    /\ msg \in [m : ServerMessages, by : Clients] \cup {Null}
    /\ rounds \in 0 .. MaxPings
    /\ over \in BOOLEAN
    /\ main \in [Clients -> MainAt]
    /\ args \in [Clients -> Arguments]
    /\ status \in [Clients -> Status]
    /\ game \in [Clients -> [at : GameAt, next : Status]]
    /\ moves \in [Clients -> 0 .. MaxMoves]
    /\ differ \in BOOLEAN

\* Whoever waits for an opponent waits alone: of the clients in the table at most one is
\* in no game, whoever quits, ends a game or does not answer (server.c, find_opponent).
OneWaiting == Cardinality({i \in Taken(clients) : ~clients[i].in_game}) <= 1

\* The server never writes, polls or scans past the array it allocated, though it reads
\* the number of clients before, under and after the mutex while the pinging thread
\* removes clients (server.c, get_client_descriptor).
PollInBounds ==
    srv \in {"collect", "place", "poll"} =>
        /\ Len(poll.fds) <= poll.alloc
        /\ no_connected_clients + 2 <= poll.alloc

\* Until a game_over has been handled, whoever plays has an opponent in the table, whose
\* opponent it is: no move goes to a stranger or to an empty slot (server.c, move).
PairsUntilGameOver ==
    ~over /\ Running =>
        \A i \in Taken(clients) :
            LET o == clients[i].opponent IN
            o # -1 => /\ clients[i].in_game
                      /\ o \in Taken(clients) \ {i}
                      /\ clients[o].opponent = i

\* What c has sent and the server handles just now.
Hand(c) == IF msg # Null /\ msg.by = c THEN {msg.m} ELSE {}
Leaves(m) == m.action \in {"quit", "game_over"}

\* While nothing is lost, whoever is in the table and has exited by itself left a quit or
\* a game_over that the server has yet to receive or to handle (client.c 163-176, quit and
\* game_over).  Not so of one killed by SIGINT before it has its handler, which a client
\* of zad2 is open to when it has already sent its name (zad2/client.c 46 and 77, 400):
\* that one leaves a ghost, which only a ping without an answer removes.
NoGhost ==
    lost = 0 /\ Running =>
        \A i \in Taken(clients) :
            LET c == clients[i].fd IN
            conn[c] = "closed" => \E m \in Range(toServer[c]) \cup Hand(c) : Leaves(m)

----------------------------------------------------------------------------
(* The inductive invariant: what the invariants above rest on. *)

InHand == srv = "handle" <=> msg # Null

\* Until the sockets of the server are placed, clients have only gone.
Collected == srv = "place" => no_connected_clients <= Len(poll.fds)

\* The table has nobody twice, and no two of one name.
NamesDiffer ==
    \A i, j \in Taken(clients) : i # j => Name[clients[i].fd] # Name[clients[j].fd]

InTable(c)   == \E i \in Taken(clients) : clients[i].fd = c

\* A client sends its name once, before anything else.
Greets(m)    == m.action = "initialization"
Ungreeted(c) == \E m \in Range(toServer[c]) \cup Hand(c) : Greets(m)
GreetsFirst(c) ==
    \A k \in DOMAIN toServer[c] : Greets(toServer[c][k]) => k = 1 /\ Hand(c) = {}

\* Until the server has handled the name it knows nothing of the client.
Unknown(c) ==
    /\ conn[c] = "none" => toServer[c] = <<>> /\ Hand(c) = {} /\ main[c] = "recv"
    /\ conn[c] = "none" \/ Ungreeted(c) =>
         /\ ~InTable(c)
         /\ toClient[c] = <<>> /\ args[c] = " "
         /\ main[c] # "told" /\ game[c].at = "none"

\* Who is refused, or told to quit, is not in the table and does not get there again.
Dismisses(m) == m.action = "quit" \/ m.args \in Refused
Dismissed(c) == \/ main[c] = "told" \/ args[c] \in Refused
                \/ \E m \in Range(toClient[c]) : Dismisses(m)
DismissedOut(c) == Dismissed(c) => ~InTable(c)

\* Who leaves without being told has said so, behind its name if that is still to come.
Leaving(c) == conn[c] = "closed" \/ main[c] = "quitting" \/ game[c].at = "over"
SaysSo(c) ==
    lost = 0 /\ Leaving(c) =>
        /\ InTable(c)   => \E m \in Range(toServer[c]) \cup Hand(c) : Leaves(m)
        /\ Ungreeted(c) => \E m \in Range(toServer[c]) : Leaves(m)

ClientInv(c) == GreetsFirst(c) /\ Unknown(c) /\ DismissedOut(c) /\ SaysSo(c)

OneWaits ==
    \A i, j \in Taken(clients) : ~clients[i].in_game /\ ~clients[j].in_game => i = j

IInv == /\ TypeOK /\ InHand /\ Collected /\ NamesDiffer /\ OneWaits /\ PollInBounds
        /\ PairsUntilGameOver /\ \A c \in Clients : ClientInv(c)
=============================================================================
