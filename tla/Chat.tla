-------------------------------- MODULE Chat --------------------------------
(***************************************************************************)
(* The chat of cw06: a server with one message queue and a table of users, *)
(* and clients with a message queue each.  A client sends its requests to  *)
(* the server; the server answers or passes messages on by putting them    *)
(* into the queues of clients and raising SIGUSR1 in them, whose handler   *)
(* reads one message.  Everybody stops on SIGINT.  The program exists      *)
(* twice, with System V queues (zad1) and with POSIX queues (zad2); here   *)
(* are the state and the steps they share, ChatSysV and ChatPosix add how  *)
(* each sends, receives, starts and stops.                                 *)
(*                                                                         *)
(* A step is one call on a queue, one signal, or one handler's entry.      *)
(* Texts are left out, except that a client reads its number from one.     *)
(***************************************************************************)
EXTENDS Integers, Sequences, SequencesExt, FiniteSetsExt

CONSTANTS Clients,        \* the client processes; each runs once, PIDs are not reused
          Nobody,         \* a zero in clients_PID and clients_queue_ID
          MAX_NO_USERS,
          MaxCommands     \* bound: the lines typed at all clients together

ASSUME ChatAssumption ==
    /\ Nobody \notin Clients /\ "server" \notin Clients
    /\ MAX_NO_USERS \in Nat \ {0} /\ MaxCommands \in Nat

STOP   == 1
LIST   == 2
TO_ALL == 3
TO_ONE == 4
INIT   == 5

Slots(n) == 0 .. n - 1      \* of a table of size n
Signals  == {"INT", "USR1"}

\* A request: its type, the number the sender believes is its own, the receiver's
\* number, and the process it comes from.  What clients get: type and number.
Request(t, id, to, c) == [type |-> t, id |-> id, to |-> to, by |-> c]
Requests(ids) == [type : STOP .. INIT, id : ids, to : ids, by : Clients]
Letters(ids)  == [type : {LIST, TO_ALL, TO_ONE, INIT}, id : ids]

VARIABLES
    clients,    \* the server's table: which client has each slot
    existing,   \* the queues that can be found: the server's and those of clients
    requests,   \* the server's queue
    inbox,      \* the queue of each client
    server,     \* where the server is, the request it handles, its loop index
    pc,         \* where each client is
    my_id,      \* the number each client believes it has
    pending,    \* signals raised in clients and not handled yet, at most one of a kind
    blocked,    \* signals whose handler a client has entered and not left
    reading,    \* the clients whose innermost frame is get_message, about to receive
    notify,     \* in zad2: clients whose mq_notify is in force, and those it has signalled
    typed       \* lines typed so far

queues    == <<existing, requests, inbox>>
signals   == <<pending, blocked, reading, notify>>
clientOwn == <<pc, my_id, typed>>
vars      == <<clients, queues, server, clientOwn, signals>>

ServerLabels == {"receive", "handle", "signal", "destroy", "exit", "dead", "killed"}
ClientLabels == {"create", "send_init", "wait_init", "notify", "chat",
                 "remove1", "send1", "remove2", "send2", "close", "dead"}

Init ==
    /\ clients = [i \in Slots(MAX_NO_USERS) |-> Nobody]
    /\ existing = {"server"}
    /\ requests = <<>>
    /\ inbox = [c \in Clients |-> <<>>]
    /\ server = [at |-> "receive", msg |-> Nobody, i |-> 0]
    /\ pc = [c \in Clients |-> "create"]
    /\ my_id = [c \in Clients |-> 0]
    /\ pending = {} /\ blocked = {} /\ reading = {}
    /\ notify = [on |-> {}, spent |-> {}]
    /\ typed = 0

----------------------------------------------------------------------------
\* The first message of the lowest, and of the highest, type in a queue.
Lowest(q)  == Min({i \in DOMAIN q : \A j \in DOMAIN q : q[i].type <= q[j].type})
Highest(q) == Min({i \in DOMAIN q : \A j \in DOMAIN q : q[i].type >= q[j].type})

To(c, l)    == pc' = [pc EXCEPT ![c] = l]
Serve(l)    == server' = [server EXCEPT !.at = l]
Done        == server' = [at |-> "receive", msg |-> Nobody, i |-> 0]
Put(c, m)   == inbox' = [inbox EXCEPT ![c] = Append(@, m)]
Submit(m)   == requests' = Append(requests, m)
Alive(c)    == pc[c] # "dead"
Raised(c, s) == IF Alive(c) THEN pending \cup {<<c, s>>} ELSE pending

\* main, or a stop() that interrupts it, runs only while get_message does not.
Runs(c) == Alive(c) /\ c \notin reading

\* The end of a process takes its signals with it.
Die(c) ==
    /\ To(c, "dead")
    /\ pending' = {x \in pending : x[1] # c}
    /\ blocked' = {x \in blocked : x[1] # c}
    /\ reading' = reading \ {c}

----------------------------------------------------------------------------
(* The server *)

Take(k) ==
    /\ requests' = RemoveAt(requests, k)
    /\ server' = [at |-> "handle", msg |-> requests[k], i |-> 0]
    /\ UNCHANGED <<clients, existing, inbox, clientOwn, signals>>

Handles(t) == server.at = "handle" /\ server.msg.type = t

disconnet_user ==
    /\ Handles(STOP)
    /\ clients' = [clients EXCEPT ![server.msg.id] = Nobody]
    /\ Done
    /\ UNCHANGED <<queues, clientOwn, signals>>

\* The slots a TO_ALL has still to go to.
Ahead == {j \in DOMAIN clients : j >= server.i /\ j # server.msg.id /\ clients[j] # Nobody}

SentToAll ==
    /\ Handles(TO_ALL) /\ Ahead = {}
    /\ Done
    /\ UNCHANGED <<clients, queues, clientOwn, signals>>

\* Mutant of Free: slots counted from one.
M_FreeFromOne == {i + 1 : i \in {j \in DOMAIN clients : clients[j] = Nobody}}

Free == {i \in DOMAIN clients : clients[i] = Nobody}

\* kill(clients_PID[i], SIGUSR1), after the message: a step of its own.
Signal(i) ==
    /\ server.at = "signal" /\ server.i = i /\ clients[i] # Nobody
    /\ pending' = Raised(clients[i], "USR1")
    /\ IF server.msg.type = TO_ALL
       THEN server' = [server EXCEPT !.at = "handle", !.i = i + 1]
       ELSE Done
    /\ UNCHANGED <<clients, queues, clientOwn, blocked, reading, notify>>

\* Ctrl-C at the server.  "destroy" is destroy_queue in the handler of SIGINT, with
\* SIGINT blocked; "exit" is the same function called by exit().
ServerInterrupted ==
    /\ server.at \in {"receive", "handle", "signal"}
    /\ server' = [at |-> "destroy", msg |-> Nobody, i |-> 0]
    /\ UNCHANGED <<clients, queues, clientOwn, signals>>

ServerExits == server' = [at |-> "exit", msg |-> Nobody, i |-> 0]

\* Mutant of KillClient: the loop starts at 1.
M_SkipsFirst(i) ==
    /\ server.at \in {"destroy", "exit"} /\ server.i = i
    /\ clients[i] # Nobody
    /\ pending' = IF i = 0 THEN pending ELSE Raised(clients[i], "INT")
    /\ server' = [server EXCEPT !.i = i + 1]
    /\ UNCHANGED <<clients, queues, clientOwn, blocked, reading, notify>>

\* destroy_queue, for a slot that is taken.
KillClient(i) ==
    /\ server.at \in {"destroy", "exit"} /\ server.i = i
    /\ clients[i] # Nobody
    /\ pending' = Raised(clients[i], "INT")
    /\ server' = [server EXCEPT !.i = i + 1]
    /\ UNCHANGED <<clients, queues, clientOwn, blocked, reading, notify>>

----------------------------------------------------------------------------
(* The clients *)

\* A line typed at a client, LIST, 2ONE or 2ALL: what is sent to the server.
Command(c) ==
    {Request(LIST, my_id[c], 0, c), Request(TO_ALL, my_id[c], 0, c)} \cup
    {Request(TO_ONE, my_id[c], i, c) : i \in DOMAIN clients}

\* SIGUSR1 is delivered: get_message begins.
GetMessage(c) ==
    /\ Alive(c)
    /\ <<c, "USR1">> \in pending /\ <<c, "USR1">> \notin blocked
    /\ pending' = pending \ {<<c, "USR1">>}
    /\ blocked' = blocked \cup {<<c, "USR1">>}
    /\ reading' = reading \cup {c}
    /\ UNCHANGED <<clients, queues, server, clientOwn, notify>>

\* get_message receives message k and returns.
Reads(c, k) ==
    /\ c \in reading
    /\ inbox' = [inbox EXCEPT ![c] = RemoveAt(@, k)]
    /\ blocked' = blocked \ {<<c, "USR1">>}
    /\ reading' = reading \ {c}
    /\ UNCHANGED <<clients, existing, requests, server, clientOwn, pending, notify>>

\* SIGINT, from the keyboard or from the server, begins stop() at label l and never
\* returns; get_message, if it was running, is never finished.
Interrupt(c, l) ==
    /\ Alive(c) /\ <<c, "INT">> \notin blocked
    /\ pending' = pending \ {<<c, "INT">>}
    /\ blocked' = blocked \cup {<<c, "INT">>}
    /\ reading' = reading \ {c}
    /\ To(c, l)
    /\ UNCHANGED <<clients, queues, server, my_id, typed, notify>>

----------------------------------------------------------------------------
\* Type invariant.
TypeOK ==
    /\ clients \in [Slots(MAX_NO_USERS) -> Clients \cup {Nobody}]
    /\ existing \subseteq {"server"} \cup Clients
    /\ requests \in Seq(Requests(Slots(MAX_NO_USERS)))
    /\ inbox \in [Clients -> Seq(Letters(Slots(MAX_NO_USERS)))]
    /\ server \in [at : ServerLabels, msg : Requests(Slots(MAX_NO_USERS)) \cup {Nobody},
                   i : 0 .. MAX_NO_USERS]
    /\ pc \in [Clients -> ClientLabels]
    /\ my_id \in [Clients -> Slots(MAX_NO_USERS)]
    /\ pending \subseteq Clients \X Signals
    /\ blocked \subseteq Clients \X Signals
    /\ reading \subseteq Clients
    /\ notify \in [on : SUBSET Clients, spent : SUBSET Clients]
    /\ typed \in 0 .. MaxCommands

Registered(c) == \E i \in DOMAIN clients : clients[i] = c

\* A client's STOP is the last of what it sent that the server handles, so that no request
\* is handled for a number its sender has given up by then: with System V because the
\* queue is read in order, with POSIX because STOP has the lowest priority.  A number
\* that somebody else has freed, by a second STOP or one with the number 0, is another
\* matter: its owner goes on sending.
StopLast ==
    Handles(STOP) => \A k \in DOMAIN requests :
      requests[k].by = server.msg.by => requests[k].type = STOP

\* When the server has gone through destroy_queue every client it still lists has been
\* told to stop, whatever else was under way; "killed" is a server that never got there.
StopReachesAll ==
    server.at = "dead" => \A c \in Clients :
      Registered(c) /\ Alive(c) => <<c, "INT">> \in pending \cup blocked

\* Signals of c that will have get_message read, and messages there for it to read:
\* one of those in the queue is for main while that waits for the answer to INIT.
SignalsToCome(c) ==
    (IF <<c, "USR1">> \in pending THEN 1 ELSE 0) + (IF c \in reading THEN 1 ELSE 0)
Readable(c) == Len(inbox[c]) - (IF pc[c] = "wait_init" THEN 1 ELSE 0)

\* However signals coalesce and messages stay behind, get_message is never called for a
\* message that is not there, and blocks nobody, except in zad2 for the one call that
\* mq_notify causes (client.c 88-99 of zad1, 95-110 of zad2).
SignalsCovered ==
    \A c \in existing \cap Clients :
      SignalsToCome(c) > 0 =>
        SignalsToCome(c) <= Readable(c) + (IF c \in notify.spent THEN 1 ELSE 0)

----------------------------------------------------------------------------
(* What the invariants above rest on, in both programs *)

\* The server has a request in hand while it handles one, and an index while it sends.
Busy ==
    /\ server.at \in {"handle", "signal"} => server.msg \in Requests(Slots(MAX_NO_USERS))
    /\ server.at = "signal" => server.i \in DOMAIN clients

\* destroy_queue has told whom it has passed to stop.
IsTold(c) == c # Nobody /\ Alive(c) => <<c, "INT">> \in pending \cup blocked
Told ==
    /\ server.at \in {"destroy", "exit"} =>
         \A i \in DOMAIN clients : i < server.i => IsTold(clients[i])
    /\ server.at = "dead" => \A i \in DOMAIN clients : IsTold(clients[i])

\* The requests of type t that c has sent and the server has yet to receive, and whether
\* it has one of them in hand.
Asked(c, t)   == {k \in DOMAIN requests : requests[k].by = c /\ requests[k].type = t}
Handled(c, t) == Handles(t) /\ server.msg.by = c
Sent(c, t)    == Asked(c, t) # {} \/ Handled(c, t)

\* A client sends INIT once, and until that has been handled nothing comes to it.
New(c) == pc[c] \in {"create", "send_init"} \/ Sent(c, INIT)
NewInv(c) ==
    /\ pc[c] \in {"create", "send_init"} => ~Sent(c, INIT)
    /\ \A k, l \in Asked(c, INIT) : k = l
    /\ Handled(c, INIT) => Asked(c, INIT) = {}
    /\ New(c) => ~Registered(c) /\ inbox[c] = <<>> /\ SignalsToCome(c) = 0

\* The message for c that has been sent and is about to be signalled.
Announced(c) == IF server.at = "signal" /\ clients[server.i] = c THEN 1 ELSE 0

ChatInv == TypeOK /\ Busy /\ Told /\ StopLast /\ \A c \in Clients : NewInv(c)
=============================================================================
