------------------------------ MODULE ChatSysV ------------------------------
(***************************************************************************)
(* cw06/zad1: the chat with System V queues.  Queues are found by number;  *)
(* number 0 is the first queue the system has ever made, which may be the  *)
(* server's.  Removing a queue takes effect at once and for everybody.     *)
(* Queues are not filled up here (the default is 51 messages).             *)
(***************************************************************************)
EXTENDS Chat

VARIABLES
    my_queue,   \* the clients that have created their queue
    zero        \* whether the server's queue has the number 0

SysVInit == Init /\ my_queue = {} /\ zero \in BOOLEAN
SysVvars == <<vars, my_queue, zero>>

SendTo(i, m) ==
    LET c == clients[i] IN
    \/ /\ c # Nobody /\ c \in existing
       /\ Put(c, m)
       /\ server' = [server EXCEPT !.at = "signal", !.i = i]
    \* Queue 0 is the server's own: it will not live to read the message.
    \/ /\ c = Nobody /\ zero /\ "server" \in existing
       /\ server' = [server EXCEPT !.at = "signal", !.i = i]
       /\ UNCHANGED inbox
    \/ /\ IF c = Nobody THEN ~(zero /\ "server" \in existing) ELSE c \notin existing
       /\ ServerExits
       /\ UNCHANGED inbox

\* Mutant of Receive: the lowest type first, as the clients read theirs.
M_ReceivesLowest ==
    /\ server.at = "receive" /\ "server" \in existing
    /\ requests # <<>>
    /\ Take(Lowest(requests))

Receive ==
    /\ server.at = "receive" /\ "server" \in existing
    /\ requests # <<>>
    /\ Take(1)

ReceiveFails ==
    /\ server.at = "receive" /\ "server" \notin existing
    /\ ServerExits
    /\ UNCHANGED <<clients, queues, clientOwn, signals>>

menage_LIST ==
    /\ Handles(LIST)
    /\ SendTo(server.msg.id, [type |-> LIST, id |-> 0])
    /\ UNCHANGED <<clients, existing, requests, clientOwn, signals>>

send_TO_ONE ==
    /\ Handles(TO_ONE)
    /\ SendTo(server.msg.to, [type |-> TO_ONE, id |-> 0])
    /\ UNCHANGED <<clients, existing, requests, clientOwn, signals>>

send_TO_ALL ==
    /\ Handles(TO_ALL) /\ Ahead # {}
    /\ SendTo(Min(Ahead), [type |-> TO_ALL, id |-> 0])
    /\ UNCHANGED <<clients, existing, requests, clientOwn, signals>>

\* Mutant of menage_INIT: the answer is signalled like every other message.
M_SignalsInit ==
    /\ Handles(INIT) /\ Free # {} /\ server.msg.by \in existing
    /\ clients' = [clients EXCEPT ![Min(Free)] = server.msg.by]
    /\ Put(server.msg.by, [type |-> INIT, id |-> Min(Free)])
    /\ pending' = Raised(server.msg.by, "USR1")
    /\ Done
    /\ UNCHANGED <<existing, requests, clientOwn, blocked, reading, notify>>

\* With the table full the answer goes to whatever number follows the table: nobody
\* gets it.  Whether the answer could be sent is not checked.
menage_INIT ==
    /\ Handles(INIT)
    /\ LET c == server.msg.by IN
       IF Free = {} THEN UNCHANGED <<clients, inbox>>
       ELSE /\ clients' = [clients EXCEPT ![Min(Free)] = c]
            /\ IF c \in existing THEN Put(c, [type |-> INIT, id |-> Min(Free)])
                                 ELSE UNCHANGED inbox
    /\ Done
    /\ UNCHANGED <<existing, requests, clientOwn, signals>>

\* kill(0, SIGUSR1) reaches the server itself, which dies of it on the spot.
SignalGroup ==
    /\ server.at = "signal" /\ clients[server.i] = Nobody
    /\ Serve("killed")
    /\ UNCHANGED <<clients, queues, clientOwn, signals>>

\* destroy_queue at an empty slot: kill(0, SIGINT) reaches the server itself.  In the
\* handler of SIGINT that is blocked.  Otherwise destroy_queue begins anew and writes
\* to the file it has closed: it goes through, or the process crashes.
KillGroup ==
    /\ server.i < MAX_NO_USERS /\ clients[server.i] = Nobody
    /\ \/ server.at = "destroy" /\ server' = [server EXCEPT !.i = @ + 1]
       \/ server.at = "exit" /\ \/ server' = [server EXCEPT !.at = "destroy", !.i = 0]
                                \/ Serve("killed")
    /\ UNCHANGED <<clients, queues, clientOwn, signals>>

DestroyQueue ==
    /\ server.at \in {"destroy", "exit"} /\ server.i = MAX_NO_USERS
    /\ existing' = existing \ {"server"}
    /\ requests' = <<>>
    /\ Serve("dead")
    /\ UNCHANGED <<clients, inbox, clientOwn, signals>>

Destroy == (\E i \in DOMAIN clients : KillClient(i)) \/ KillGroup \/ DestroyQueue

ServerStep ==
    \/ Receive \/ ReceiveFails \/ menage_LIST \/ send_TO_ONE \/ send_TO_ALL \/ SentToAll
    \/ menage_INIT \/ disconnet_user \/ (\E i \in DOMAIN clients : Signal(i)) \/ SignalGroup
    \/ Destroy

----------------------------------------------------------------------------
\* msgsnd to the server, which a client leaves through exit when it fails.
Send(c, m, l) ==
    IF "server" \in existing THEN Submit(m) /\ To(c, l)
    ELSE To(c, "remove2") /\ UNCHANGED requests

\* The client starts.  The key of its queue is made of getpid() % ('Z' - 'a' + 1), one
\* of six: it may be in use.
create_queue(c) ==
    /\ pc[c] = "create" /\ Runs(c)
    /\ \/ /\ existing' = existing \cup {c}
          /\ my_queue' = my_queue \cup {c}
          /\ To(c, "send_init")
       \/ /\ existing \cap Clients # {}
          /\ To(c, "remove2")
          /\ UNCHANGED <<existing, my_queue>>
    /\ UNCHANGED <<clients, requests, inbox, server, my_id, typed, signals>>

send_INIT(c) ==
    /\ pc[c] = "send_init" /\ Runs(c)
    /\ Send(c, Request(INIT, 0, 0, c), "wait_init")
    /\ UNCHANGED <<clients, existing, inbox, server, my_id, typed, signals>>

Answers(q) == {k \in DOMAIN q : q[k].type = INIT}

\* msgrcv by type: messages of others may already lie in front of the answer.
receive_INIT(c) ==
    /\ pc[c] = "wait_init" /\ Runs(c)
    /\ Answers(inbox[c]) # {}
    /\ LET k == Min(Answers(inbox[c])) IN
         /\ my_id' = [my_id EXCEPT ![c] = inbox[c][k].id]
         /\ inbox' = [inbox EXCEPT ![c] = RemoveAt(@, k)]
    /\ To(c, "chat")
    /\ UNCHANGED <<clients, existing, requests, server, my_queue, typed, signals>>

ChatLine(c) ==
    /\ pc[c] = "chat" /\ Runs(c) /\ typed < MaxCommands
    /\ typed' = typed + 1
    /\ \/ \E m \in Command(c) : Send(c, m, "chat")
       \/ To(c, "remove1") /\ UNCHANGED requests
    /\ UNCHANGED <<clients, existing, inbox, server, my_id, signals>>

\* Mutant of HandlerTakes: the messages are read in the order of their arrival.
M_TakesFirst(q) == 1

\* msgrcv with the type -INIT - 1: the lowest type first.
HandlerTakes(q) == Lowest(q)

get_message(c) == inbox[c] # <<>> /\ Reads(c, HandlerTakes(inbox[c]))

\* The queue is gone: get_message calls exit.
ReadFails(c) ==
    /\ c \in reading /\ c \notin existing
    /\ IF pc[c] \in {"remove2", "send2"} THEN Die(c)
       ELSE To(c, "remove2") /\ reading' = reading \ {c} /\ UNCHANGED <<pending, blocked>>
    /\ UNCHANGED <<clients, queues, server, my_id, typed, notify>>

\* stop() runs twice, the second time from exit.  A client without a queue of its own
\* has my_queue = 0, and removes the server's if that has this number.
remove_queue(c) ==
    /\ pc[c] \in {"remove1", "remove2"} /\ Runs(c)
    /\ IF c \in my_queue
       THEN existing' = existing \ {c} /\ inbox' = [inbox EXCEPT ![c] = <<>>]
            /\ UNCHANGED requests
       ELSE /\ existing' = IF zero THEN existing \ {"server"} ELSE existing
            /\ requests' = IF zero THEN <<>> ELSE requests
            /\ UNCHANGED inbox
    /\ To(c, IF pc[c] = "remove1" THEN "send1" ELSE "send2")
    /\ UNCHANGED <<clients, server, my_id, typed, signals>>

send_STOP(c) ==
    /\ Runs(c)
    /\ IF "server" \in existing THEN Submit(Request(STOP, my_id[c], 0, c))
                                ELSE UNCHANGED requests
    /\ \/ pc[c] = "send1" /\ To(c, "remove2") /\ UNCHANGED signals
       \/ pc[c] = "send2" /\ Die(c) /\ UNCHANGED notify
    /\ UNCHANGED <<clients, existing, inbox, server, my_id, typed>>

\* While exit runs stop(), an interrupt runs it once more and then nothing is left.
stop(c) == Interrupt(c, IF pc[c] \in {"remove2", "send2"} THEN "remove2" ELSE "remove1")

Finish(c) == remove_queue(c) \/ send_STOP(c)

ClientStep(c) ==
    \/ send_INIT(c) \/ receive_INIT(c) \/ ChatLine(c)
    \/ GetMessage(c) \/ get_message(c) \/ ReadFails(c) \/ stop(c) \/ Finish(c)

Next ==
    /\ \/ ServerStep /\ UNCHANGED my_queue
       \/ ServerInterrupted /\ UNCHANGED my_queue
       \/ \E c \in Clients : create_queue(c) \/ (ClientStep(c) /\ UNCHANGED my_queue)
    /\ UNCHANGED zero

Spec == SysVInit /\ [][Next]_SysVvars

----------------------------------------------------------------------------
\* The answer to INIT waits in the queue of a registered client until its main
\* receives it, although get_message may read the same queue first (client.c 90 and 158).
ReplyNotStolen ==
    \A c \in my_queue : Registered(c) /\ pc[c] = "wait_init" =>
      \E k \in DOMAIN inbox[c] : inbox[c][k].type = INIT /\ clients[inbox[c][k].id] = c

----------------------------------------------------------------------------
(* The inductive invariant *)

\* In the queue, STOP is behind everything its sender has sent before ...
StopsInOrder ==
    \A k, l \in DOMAIN requests :
      k < l /\ requests[k].by = requests[l].by /\ requests[k].type = STOP
        => requests[l].type = STOP

\* ... and nothing but STOP follows it.  Who has ended reads nothing.
Stopping(c) ==
    /\ Sent(c, STOP) => pc[c] \in {"remove2", "send2", "dead"}
    /\ c \in reading => Alive(c)

\* There is one answer to INIT at most, and a signal for each of the other messages that
\* is to be read.
Covered(c) ==
    /\ \A k, l \in Answers(inbox[c]) : k = l
    /\ c \in existing =>
         SignalsToCome(c) + Announced(c)
           <= Len(inbox[c]) - (IF Answers(inbox[c]) = {} THEN 0 ELSE 1)

\* Who waits for the answer has its queue, and has been sent nothing without the answer.
Answered(c) ==
    /\ pc[c] \in {"send_init", "wait_init"} => c \in existing /\ c \in my_queue
    /\ pc[c] = "wait_init" =>
         /\ \A i \in DOMAIN clients : clients[i] = c =>
              \E k \in Answers(inbox[c]) : inbox[c][k].id = i
         /\ SignalsToCome(c) > 0 => Answers(inbox[c]) # {}

IInv ==
    /\ ChatInv /\ my_queue \subseteq Clients /\ zero \in BOOLEAN /\ StopsInOrder
    /\ \A c \in Clients : Stopping(c) /\ Covered(c) /\ Answered(c)
=============================================================================
