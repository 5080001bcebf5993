----------------------------- MODULE ChatPosix -----------------------------
(***************************************************************************)
(* cw06/zad2: the chat with POSIX queues.  A queue holds CAPACITY messages *)
(* and gives out the one with the highest priority, which is the type; who *)
(* finds it full, or empty, waits.  A queue that is unlinked stays with    *)
(* the processes that have it open.                                        *)
(***************************************************************************)
EXTENDS Chat

CONSTANT CAPACITY   \* mq_maxmsg, 5 in the code

\* mq_send by the server.  It waits for room, also in the queue of a client that is
\* gone.  A message that comes into an empty queue whose reader is not waiting for it
\* spends the notification.
SendTo(i, m) ==
    LET c == clients[i] IN
    \/ /\ c # Nobody /\ Len(inbox[c]) < CAPACITY
       /\ Put(c, m)
       /\ server' = [server EXCEPT !.at = "signal", !.i = i]
       /\ \/ /\ c \in notify.on /\ inbox[c] = <<>> /\ Alive(c)
             /\ notify' = [on |-> notify.on \ {c}, spent |-> notify.spent \cup {c}]
             /\ pending' = Raised(c, "USR1")
          \/ /\ c \in notify.on /\ inbox[c] = <<>> /\ Alive(c) => c \in reading
             /\ UNCHANGED <<notify, pending>>
    \/ /\ c = Nobody    \* descriptor 0 is no queue
       /\ ServerExits
       /\ UNCHANGED <<inbox, notify, pending>>

Receive ==
    /\ server.at = "receive" /\ requests # <<>>
    /\ Take(Highest(requests))

menage_LIST ==
    /\ Handles(LIST)
    /\ SendTo(server.msg.id, [type |-> LIST, id |-> 0])
    /\ UNCHANGED <<clients, existing, requests, clientOwn, blocked, reading>>

send_TO_ONE ==
    /\ Handles(TO_ONE)
    /\ SendTo(server.msg.to, [type |-> TO_ONE, id |-> 0])
    /\ UNCHANGED <<clients, existing, requests, clientOwn, blocked, reading>>

send_TO_ALL ==
    /\ Handles(TO_ALL) /\ Ahead # {}
    /\ SendTo(Min(Ahead), [type |-> TO_ALL, id |-> 0])
    /\ UNCHANGED <<clients, existing, requests, clientOwn, blocked, reading>>

\* The slot is taken before the client's queue is opened.  With the table full mq_send
\* gets what follows the table as its descriptor, and fails.
menage_INIT ==
    /\ Handles(INIT)
    /\ LET c == server.msg.by IN
       IF Free = {} THEN ServerExits /\ UNCHANGED <<clients, inbox>>
       ELSE /\ clients' = [clients EXCEPT ![Min(Free)] = c]
            /\ IF c \in existing THEN Put(c, [type |-> INIT, id |-> Min(Free)]) /\ Done
                                 ELSE ServerExits /\ UNCHANGED inbox
    /\ UNCHANGED <<existing, requests, clientOwn, signals>>

\* destroy_queue passes over empty slots.
SkipSlot ==
    /\ server.at \in {"destroy", "exit"}
    /\ server.i < MAX_NO_USERS /\ clients[server.i] = Nobody
    /\ server' = [server EXCEPT !.i = @ + 1]
    /\ UNCHANGED <<clients, queues, clientOwn, signals>>

\* The queue stays with the clients that have opened it.
UnlinkServer ==
    /\ server.at \in {"destroy", "exit"} /\ server.i = MAX_NO_USERS
    /\ existing' = existing \ {"server"}
    /\ Serve("dead")
    /\ UNCHANGED <<clients, requests, inbox, clientOwn, signals>>

destroy_queue ==
    SkipSlot \/ UnlinkServer \/ \E i \in DOMAIN clients : KillClient(i)

message_handler ==
    \/ menage_LIST \/ menage_INIT \/ send_TO_ONE \/ send_TO_ALL \/ SentToAll
    \/ disconnet_user \/ \E i \in DOMAIN clients : Signal(i)

----------------------------------------------------------------------------
Send(m) == Len(requests) < CAPACITY /\ Submit(m)

\* The client starts and opens the server's queue.  Without one it exits, and stop()
\* finds nothing to do.
open_queue(c) ==
    /\ pc[c] = "create" /\ "server" \notin existing
    /\ Die(c)
    /\ UNCHANGED <<clients, queues, server, my_id, typed, notify>>

create_queue(c) ==
    /\ pc[c] = "create" /\ "server" \in existing
    /\ existing' = existing \cup {c}
    /\ To(c, "send_init")
    /\ UNCHANGED <<clients, requests, inbox, server, my_id, typed, signals>>

send_INIT(c) ==
    /\ pc[c] = "send_init" /\ Runs(c)
    /\ Send(Request(INIT, 0, 0, c))
    /\ To(c, "wait_init")
    /\ UNCHANGED <<clients, existing, inbox, server, my_id, typed, signals>>

\* main receives whatever has the highest priority and takes its text for the number:
\* the answer to INIT, unless get_message was faster.
receive_INIT(c) ==
    /\ pc[c] = "wait_init" /\ Runs(c) /\ inbox[c] # <<>>
    /\ LET k == Highest(inbox[c]) IN
       /\ \E n \in IF inbox[c][k].type = INIT THEN {inbox[c][k].id} ELSE DOMAIN clients :
            my_id' = [my_id EXCEPT ![c] = n]
       /\ inbox' = [inbox EXCEPT ![c] = RemoveAt(@, k)]
    /\ To(c, "notify")
    /\ UNCHANGED <<clients, existing, requests, server, typed, signals>>

mq_notify(c) ==
    /\ pc[c] = "notify" /\ Runs(c)
    /\ notify' = [notify EXCEPT !.on = @ \cup {c}]
    /\ To(c, "chat")
    /\ UNCHANGED <<clients, queues, server, my_id, typed, pending, blocked,
                   reading>>

SendLine(c) == \E m \in Command(c) : Send(m)

ChatLine(c) ==
    /\ pc[c] = "chat" /\ Runs(c) /\ typed < MaxCommands
    /\ typed' = typed + 1
    /\ \/ UNCHANGED pc /\ SendLine(c)
       \/ To(c, "send1") /\ UNCHANGED requests
    /\ UNCHANGED <<clients, existing, inbox, server, my_id, signals>>

get_message(c) ==
    /\ inbox[c] # <<>>
    /\ Reads(c, Highest(inbox[c]))

send_STOP(c) ==
    /\ pc[c] = "send1" /\ Runs(c)
    /\ Send(Request(STOP, my_id[c], 0, c))
    /\ To(c, "close")
    /\ UNCHANGED <<clients, existing, inbox, server, my_id, typed, signals>>

\* Closing the server's queue, unlinking its own, and stop() called again by exit, whose
\* STOP can no longer be sent.
close_queues(c) ==
    /\ pc[c] = "close" /\ Runs(c)
    /\ existing' = existing \ {c}
    /\ notify' = [notify EXCEPT !.on = @ \ {c}]
    /\ Die(c)
    /\ UNCHANGED <<clients, requests, inbox, server, my_id, typed>>

\* A client that is interrupted before it has created its queue has opened the server's.
stop(c) ==
    /\ pc[c] = "create" => "server" \in existing
    /\ Interrupt(c, "send1")

ClientStep(c) ==
    \/ open_queue(c) \/ create_queue(c) \/ send_INIT(c) \/ receive_INIT(c) \/ mq_notify(c)
    \/ ChatLine(c) \/ GetMessage(c) \/ get_message(c)
    \/ stop(c) \/ send_STOP(c) \/ close_queues(c)

Next ==
    \/ Receive \/ message_handler \/ destroy_queue
    \/ ServerInterrupted
    \/ \E c \in Clients : ClientStep(c)

Spec == Init /\ [][Next]_vars

----------------------------------------------------------------------------
(* The inductive invariant *)

\* Nothing but STOP follows a STOP.
Stopping(c) == Sent(c, STOP) => pc[c] \in {"send1", "close", "dead"}

\* mq_notify is called once, and signals once.
Notified(c) ==
    /\ c \notin notify.on \cap notify.spent
    /\ pc[c] \in {"create", "send_init", "wait_init", "notify"} =>
         c \notin notify.on \cup notify.spent

\* There is a message for each signal, but for the one of mq_notify, and one more for
\* main when it waits and has been sent anything.
Covered(c) ==
    c \in existing =>
      /\ SignalsToCome(c) + Announced(c)
           <= Len(inbox[c]) + (IF c \in notify.spent THEN 1 ELSE 0)
      /\ pc[c] = "wait_init" /\ (Registered(c) \/ inbox[c] # <<>> \/ SignalsToCome(c) > 0) =>
           SignalsToCome(c) + Announced(c) < Len(inbox[c])

Exists(c) == pc[c] \in {"send_init", "wait_init"} => c \in existing

IInv == ChatInv /\ \A c \in Clients : Stopping(c) /\ Notified(c) /\ Covered(c) /\ Exists(c)
=============================================================================
