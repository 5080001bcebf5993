----------------------------- MODULE GameServer -----------------------------
(***************************************************************************)
(* The server of cw10: one thread waits for messages and handles each with *)
(* the mutex held; another pings everybody every two seconds and removes   *)
(* who has not answered; SIGINT closes the server, without the mutex.      *)
(* A step is one look at shared state without the mutex, one section with  *)
(* it.                                                                     *)
(***************************************************************************)
EXTENDS GameNet

CONSTANTS Null,             \* an empty slot
          MAX_NO_CLIENTS,
          MaxPings          \* bound: rounds of pings


VARIABLES
    clients,   \* the table of clients
    srv,       \* where the main thread is
    poll,      \* fds of get_client_descriptor: places allocated, clients in it
    msg,       \* the message being handled and who sent it
    rounds,    \* rounds of pings so far
    over       \* history: whether a game_over has been handled

serverVars == <<clients, srv, poll, msg, rounds, over>>

Slots   == 0 .. MAX_NO_CLIENTS - 1
Entries(C) == [fd : C, in_game : BOOLEAN, opponent : {-1} \cup Slots, online : BOOLEAN]

ServerAssumption ==
    /\ MAX_NO_CLIENTS \in Nat \ {0} /\ MaxPings \in Nat
    /\ Null \notin Entries(Clients) \cup [m : ServerMessages, by : Clients]

NoPoll == [alloc |-> 0, fds |-> <<>>]

ServerInit ==
    /\ clients = [i \in Slots |-> Null]
    /\ srv = "count"
    /\ poll = NoPoll
    /\ msg = Null
    /\ rounds = 0
    /\ over = FALSE

----------------------------------------------------------------------------
Taken(t) == {i \in DOMAIN t : t[i] # Null}
no_connected_clients == Cardinality(Taken(clients))

\* What a loop over the slots meets first: in a set with one element, or none.
Lowest(S) == {i \in S : \A j \in S : i <= j}

find_by_name(n) == {i \in Taken(clients) : Name[clients[i].fd] = n}
find_free_slot  == Slots \ Taken(clients)

\* Mutant of find_opponent: only who has answered the last ping is asked to play.
M_FindsOnline(t, i) == {j \in Taken(t) \ {i} : ~t[j].in_game /\ t[j].online}

find_opponent(t, i) == {j \in Taken(t) \ {i} : ~t[j].in_game}

\* Mutants of Pair: the older player's opponent counted from one, or not set at all.
M_PairsFromOne(t, i, o) ==
    [t EXCEPT ![i].in_game = TRUE, ![i].opponent = o, ![o].in_game = TRUE, ![o].opponent = i + 1]
M_PairsOneWay(t, i, o) ==
    [t EXCEPT ![i].in_game = TRUE, ![i].opponent = o, ![o].in_game = TRUE]

\* i and o play against each other.
Pair(t, i, o) ==
    [t EXCEPT ![i].in_game = TRUE, ![i].opponent = o, ![o].in_game = TRUE, ![o].opponent = i]

\* out has a message for each of some clients.  The queues after sending it: a stream
\* whose client has closed its end drops what is sent.
After(out) ==
    [c \in Clients |-> IF c \in DOMAIN out /\ ~Gone(c)
                      THEN Append(toClient[c], out[c]) ELSE toClient[c]]

At(l)  == srv' = l
Crash  == At("crashed") /\ clients' = [i \in Slots |-> Null] /\ poll' = NoPoll /\ msg' = Null
          /\ UNCHANGED <<rounds, over, toClient>>

\* Sending to a stream whose other end is closed raises SIGPIPE: at once on a local
\* socket, on an internet one from the second message on.
Deliver(out) == toClient' = After(out)
Broken(out)  == STREAM /\ \E c \in DOMAIN out : conn[c] = "closed"

Fds(S) == {clients[i].fd : i \in S}
ToAll(C, m) == [c \in C |-> m]

remove_clients(S) == [i \in Slots |-> IF i \in S THEN Null ELSE clients[i]]

\* remove_both_clients removes a client and the one its opponent index names, who is
\* told to quit.  Those in P are removed in that way, one after the other.
Opponents(P) == {o \in Taken(clients) \ P : \E i \in P : clients[i].opponent = o}

----------------------------------------------------------------------------
(* get_client_descriptor, with streams *)

\* Mutant of CountFds: no room is made for the sockets of the server.
M_CountsClients ==
    /\ STREAM /\ srv = "count"
    /\ poll' = [alloc |-> no_connected_clients, fds |-> <<>>]
    /\ At("collect")
    /\ UNCHANGED <<clients, msg, rounds, over, net>>

CountFds ==
    /\ STREAM /\ srv = "count"
    /\ poll' = [alloc |-> no_connected_clients + 2, fds |-> <<>>]
    /\ At("collect")
    /\ UNCHANGED <<clients, msg, rounds, over, net>>

\* A set of slots as a sequence, the lowest first.
InOrder(S) == {s \in [1 .. Cardinality(S) -> S] : \A j, k \in DOMAIN s : j < k => s[j] < s[k]}

CollectFds ==
    /\ srv = "collect"
    /\ \E s \in InOrder(Taken(clients)) :
         poll' = [poll EXCEPT !.fds = [k \in DOMAIN s |-> clients[s[k]].fd]]
    /\ At("place")
    /\ UNCHANGED <<clients, msg, rounds, over, net>>

\* The sockets of the server go behind as many clients as there are by now.
PlaceSockets ==
    /\ srv = "place"
    /\ poll' = [poll EXCEPT !.fds = SubSeq(@, 1, no_connected_clients)]
    /\ At("poll")
    /\ UNCHANGED <<clients, msg, rounds, over, net>>

Connecting == {c \in Clients : toServer[c] # <<>> /\ Head(toServer[c]).action = "initialization"}
Readable   == {k \in DOMAIN poll.fds :
                 toServer[poll.fds[k]] # <<>> \/ conn[poll.fds[k]] = "closed"}

\* The first place with input: a client's, else one of the two sockets of the server.
First(k) ==
    IF Readable # {} THEN k \in Lowest(Readable)
    ELSE Connecting # {} /\ k \in {Len(poll.fds) + 1, Len(poll.fds) + 2}

Receive(c) ==
    /\ msg' = [m |-> Head(toServer[c]), by |-> c]
    /\ toServer' = [toServer EXCEPT ![c] = Tail(@)]
    /\ At("handle")
    /\ poll' = NoPoll
    /\ UNCHANGED <<clients, rounds, over, toClient, conn, lost>>

\* Nothing is received: buff is as the last message left it, cut at its first colon, and
\* has no name in it to look for.  Only the reply to a move left there is no command.
StaleBuffer ==
    /\ Crash \/ (At("count") /\ poll' = NoPoll /\ UNCHANGED <<clients, msg, rounds, over, toClient>>)
    /\ UNCHANGED <<toServer, conn, lost>>

\* The scan goes over as many places as there are clients by then, and two.
Places == 1 .. no_connected_clients + 2

Scan ==
    /\ srv = "poll"
    /\ \E k \in Places :
         /\ First(k)
         /\ IF k \in DOMAIN poll.fds
            THEN toServer[poll.fds[k]] # <<>> /\ Receive(poll.fds[k])
            ELSE \E c \in Connecting : Receive(c)

EndOfStream ==
    /\ srv = "poll"
    /\ \E k \in Places \cap DOMAIN poll.fds : First(k) /\ toServer[poll.fds[k]] = <<>>
    /\ StaleBuffer

\* Clients were removed since, and the scan ends before the place with input: client_id
\* is whatever was on the stack, some descriptor or none.
ScanEndsEarly ==
    /\ srv = "poll"
    /\ \E k \in 1 .. Len(poll.fds) + 2 : k \notin Places /\ First(k)
    /\ (\E c \in Clients : toServer[c] # <<>> /\ Receive(c)) \/ StaleBuffer

\* With datagrams: two sockets, and messages from anybody.
ReceiveFrom ==
    /\ ~STREAM /\ srv = "count"
    /\ \E c \in Clients : toServer[c] # <<>> /\ Receive(c)

----------------------------------------------------------------------------
(* The handlers *)

Handles(a) == srv = "handle" /\ msg.m.action = a

\* The handler ends with table t, having sent out, unless a broken pipe ends the server.
Finish(t, out) ==
    \/ /\ clients' = t
       /\ Deliver(out)
       /\ At("count") /\ msg' = Null
       /\ UNCHANGED <<poll, rounds, over>>
    \/ Broken(out) /\ Crash

\* The table with a new client in slot i.
Entered(i, c) == [clients EXCEPT ![i] = [fd |-> c, in_game |-> FALSE,
                                         opponent |-> -1, online |-> TRUE]]
Refuse(c, why) == Finish(clients, ToAll({c}, Msg("initialization", why)))

initialization ==
    /\ Handles("initialization")
    /\ LET c == msg.by IN
       \/ find_by_name(Name[c]) # {} /\ Refuse(c, "username_in_use")
       \/ find_by_name(Name[c]) = {} /\ find_free_slot = {} /\ Refuse(c, "no_free_slot")
       \/ /\ find_by_name(Name[c]) = {}
          /\ \E i \in Lowest(find_free_slot) :
               LET t == Entered(i, c) IN
               \/ /\ find_opponent(t, i) = {}
                  /\ Finish(t, ToAll({c}, Msg("initialization", "no_enemy_found")))
               \/ \E o \in Lowest(find_opponent(t, i)) :
                    \E first \in {c, t[o].fd} :
                      Finish(Pair(t, i, o),
                             [x \in {c, t[o].fd} |->
                                Msg("initialization", IF x = first THEN "O" ELSE "X")])
    /\ UNCHANGED <<toServer, conn, lost>>

Players == Lowest(find_by_name(Name[msg.by]))

\* Whoever is not in the table has the index -1.
UnknownSender ==
    /\ srv = "handle" /\ msg.m.action # "initialization" /\ Players = {}
    /\ Crash
    /\ UNCHANGED <<toServer, conn, lost>>

\* With -1, or a free slot, for the opponent the server is killed.
move ==
    /\ Handles("move")
    /\ \E i \in Players :
         \/ /\ Opponents({i}) # {}
            /\ Finish(clients, ToAll(Fds(Opponents({i})), Msg("opponent_move", msg.m.args)))
         \/ Opponents({i}) = {} /\ Crash
    /\ UNCHANGED <<toServer, conn, lost>>

\* Without an opponent clients[-1] is read: what lies before the table is zero or not.
quit ==
    /\ Handles("quit")
    /\ \E i \in Players :
         \/ Finish(remove_clients({i} \cup Opponents({i})),
                   ToAll(Fds(Opponents({i})), Msg("quit", " ")))
         \/ clients[i].opponent = -1 /\ Crash
    /\ UNCHANGED <<toServer, conn, lost>>

game_over ==
    /\ Handles("game_over")
    /\ \E i \in Players : clients' = remove_clients({i})
    /\ over' = TRUE
    /\ At("count") /\ msg' = Null
    /\ UNCHANGED <<poll, rounds, net>>

ping_answer ==
    /\ Handles("ping")
    /\ \E i \in Players : Finish([clients EXCEPT ![i].online = TRUE], <<>>)
    /\ UNCHANGED <<toServer, conn, lost>>

message_handler ==
    initialization \/ move \/ quit \/ game_over \/ ping_answer \/ UnknownSender

----------------------------------------------------------------------------
(* The thread that pings, and SIGINT *)

\* remove_offline_clients meets, slot after slot, those in P: whoever has not answered,
\* unless removed before as somebody's opponent.
Offline(i) == clients[i] # Null /\ ~clients[i].online
remove_offline_clients(P) ==
    \A i \in Slots : i \in P <=> Offline(i) /\ ~\E j \in P : j < i /\ clients[j].opponent = i

\* The table after send_ping_to_all_clients.
Pinged(t) == [i \in Slots |-> IF t[i] = Null THEN Null ELSE [t[i] EXCEPT !.online = FALSE]]
Running == srv \notin {"exited", "crashed"}

\* It takes the mutex, so no handler is half done.
ping ==
    /\ Running /\ rounds < MaxPings
    /\ \E P \in SUBSET Slots :
         /\ remove_offline_clients(P)
         /\ LET told == Opponents(P)
                rest == Taken(clients) \ P
                out  == [c \in Fds(rest) |-> IF c \in Fds(told) THEN Msg("quit", " ")
                                            ELSE Msg("ping", " ")]
            IN \/ /\ clients' = Pinged(remove_clients(P \cup told))
                  /\ Deliver(out)
                  /\ rounds' = rounds + 1
                  /\ UNCHANGED <<srv, poll, msg, over>>
               \/ (Broken(out) \/ \E i \in P : clients[i].opponent = -1) /\ Crash
    /\ UNCHANGED <<toServer, conn, lost>>

\* SIGINT: close_server tells everybody and exits, in the main thread and without the
\* mutex, so that it and the pinging thread may free the same client.
close_server ==
    /\ Running
    /\ LET out == ToAll(Fds(Taken(clients)), Msg("quit", " ")) IN
       \/ /\ clients' = remove_clients(Slots)
          /\ Deliver(out)
          /\ At("exited") /\ poll' = NoPoll /\ msg' = Null
          /\ UNCHANGED <<rounds, over>>
       \/ (Broken(out) \/ (rounds < MaxPings /\ Taken(clients) # {})) /\ Crash
    /\ UNCHANGED <<toServer, conn, lost>>

get_client_descriptor ==
    CountFds \/ CollectFds \/ PlaceSockets \/ Scan \/ EndOfStream \/ ScanEndsEarly
    \/ ReceiveFrom

ServerStep == get_client_descriptor \/ message_handler \/ ping \/ close_server
=============================================================================
