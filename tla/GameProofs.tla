----------------------------- MODULE GameProofs -----------------------------
(***************************************************************************)
(* IInv of Game is inductive, over streams and over datagrams, for any     *)
(* number of clients, whatever their names are, and any size of the table. *)
(***************************************************************************)
EXTENDS Game, FiniteSetTheorems, TLAPS

----------------------------------------------------------------------------
(* Queues. *)

LEMMA RangeEmpty == Range(<<>>) = {}
  BY DEF Range

LEMMA AppendIt ==
  ASSUME NEW S, NEW q \in Seq(S), NEW e \in S
  PROVE  /\ Append(q, e) \in Seq(S) /\ Append(q, e) # <<>>
         /\ DOMAIN Append(q, e) = DOMAIN q \cup {Len(q) + 1}
         /\ \A k \in DOMAIN q : Append(q, e)[k] = q[k]
         /\ Append(q, e)[Len(q) + 1] = e
         /\ Range(Append(q, e)) = Range(q) \cup {e}
<1>1. /\ Append(q, e) \in Seq(S) /\ Append(q, e) # <<>>
      /\ DOMAIN Append(q, e) = DOMAIN q \cup {Len(q) + 1}
      /\ \A k \in DOMAIN q : Append(q, e)[k] = q[k]
      /\ Append(q, e)[Len(q) + 1] = e
  OBVIOUS
<1>. QED
  BY <1>1 DEF Range

LEMMA TailIt ==
  ASSUME NEW S, NEW q \in Seq(S), q # <<>>
  PROVE  /\ Head(q) \in S /\ Tail(q) \in Seq(S) /\ 1 \in DOMAIN q /\ Head(q) = q[1]
         /\ \A k \in DOMAIN Tail(q) : k + 1 \in DOMAIN q /\ k + 1 # 1 /\ Tail(q)[k] = q[k + 1]
         /\ Range(q) = {Head(q)} \cup Range(Tail(q))
<1>1. /\ Head(q) \in S /\ Tail(q) \in Seq(S) /\ 1 \in DOMAIN q /\ Head(q) = q[1]
      /\ \A k \in DOMAIN Tail(q) : k + 1 \in DOMAIN q /\ k + 1 # 1 /\ Tail(q)[k] = q[k + 1]
  OBVIOUS
<1>2. \A k \in DOMAIN q : k = 1 \/ (k - 1 \in DOMAIN Tail(q) /\ q[k] = Tail(q)[k - 1])
  OBVIOUS
<1>3. Range(q) \subseteq {Head(q)} \cup Range(Tail(q))
  <2>1. ASSUME NEW k \in DOMAIN q PROVE q[k] \in {Head(q)} \cup Range(Tail(q))
    BY <1>1, <1>2 DEF Range
  <2>. QED
    BY <2>1 DEF Range
<1>4. {Head(q)} \cup Range(Tail(q)) \subseteq Range(q)
  BY <1>1 DEF Range
<1>. QED
  BY <1>1, <1>3, <1>4

LEMMA RangeIn ==
  ASSUME NEW S, NEW q \in Seq(S)
  PROVE  Range(q) \subseteq S
  BY DEF Range

----------------------------------------------------------------------------
(* What the server sends. *)

LEMMA AfterIt ==
  ASSUME TypeOK, NEW D \in SUBSET Clients, NEW out \in [D -> ClientMessages]
  PROVE  /\ After(out) \in [Clients -> Seq(ClientMessages)]
         /\ \A c \in Clients :
              /\ Gone(c) \/ c \notin D => After(out)[c] = toClient[c]
              /\ Range(After(out)[c]) \subseteq
                   Range(toClient[c]) \cup (IF c \in D THEN {out[c]} ELSE {})
<1>1. toClient \in [Clients -> Seq(ClientMessages)] /\ DOMAIN out = D
  BY DEF TypeOK
<1>2. ASSUME NEW c \in Clients, c \in D
      PROVE  /\ Append(toClient[c], out[c]) \in Seq(ClientMessages)
             /\ Range(Append(toClient[c], out[c])) = Range(toClient[c]) \cup {out[c]}
  BY <1>1, <1>2, AppendIt
<1>. QED
  BY <1>1, <1>2 DEF After

LEMMA AfterNothing ==
  ASSUME TypeOK
  PROVE  After(<<>>) = toClient
<1>1. DOMAIN <<>> = {}
  OBVIOUS
<1>. QED
  BY <1>1 DEF After, TypeOK

LEMMA TakenIn == TypeOK => Taken(clients) \in SUBSET Slots
  BY DEF TypeOK, Taken

LEMMA EntryType ==
  ASSUME TypeOK, NEW i \in Taken(clients)
  PROVE  i \in Slots /\ clients[i] \in Entries(Clients) /\ clients[i] # Null
  BY DEF TypeOK, Taken

LEMMA FdsIn == ASSUME TypeOK, NEW S \in SUBSET Taken(clients) PROVE Fds(S) \in SUBSET Clients
  BY EntryType DEF Fds, Entries

LEMMA PlayersIn ==
  ASSUME TypeOK, NEW i \in Players
  PROVE  i \in Taken(clients) /\ Name[clients[i].fd] = Name[msg.by]
  BY DEF Players, Lowest, find_by_name

LEMMA RemovedType ==
  ASSUME TypeOK, NEW S
  PROVE  remove_clients(S) \in [Slots -> Entries(Clients) \cup {Null}]
  BY DEF TypeOK, remove_clients

LEMMA TakenFinite ==
  ASSUME TypeOK
  PROVE  IsFiniteSet(Taken(clients)) /\ no_connected_clients \in 0 .. MAX_NO_CLIENTS
<1>1. IsFiniteSet(Slots) /\ Cardinality(Slots) = MAX_NO_CLIENTS
  BY GameAssumption, FS_Interval DEF ServerAssumption, Slots
<1>. QED
  BY <1>1, TakenIn, FS_Subset, FS_CardinalityType, GameAssumption
     DEF ServerAssumption, no_connected_clients

----------------------------------------------------------------------------
(* The steps that several actions have in common. *)

LEMMA CrashIt ==
  ASSUME TypeOK, Crash
  PROVE  /\ clients' \in [Slots -> Entries(Clients) \cup {Null}] /\ Taken(clients') = {}
         /\ srv' = "crashed" /\ msg' = Null /\ poll' = NoPoll
         /\ UNCHANGED <<rounds, over, toClient>>
  BY DEF Crash, At, Taken

LEMMA FinishIt ==
  ASSUME TypeOK, NEW t \in [Slots -> Entries(Clients) \cup {Null}], NEW D \in SUBSET Clients,
         NEW out \in [D -> ClientMessages], Finish(t, out)
  PROVE  /\ toClient' \in [Clients -> Seq(ClientMessages)]
         /\ msg' = Null /\ poll' \in {poll, NoPoll} /\ UNCHANGED <<rounds, over>>
         /\ \/ clients' = t /\ toClient' = After(out) /\ srv' = "count" /\ poll' = poll
            \/ Crash
<1>1. CASE Crash
  BY <1>1, CrashIt DEF TypeOK
<1>2. CASE /\ clients' = t /\ Deliver(out) /\ At("count") /\ msg' = Null
           /\ UNCHANGED <<poll, rounds, over>>
  BY <1>2, AfterIt DEF At, Deliver
<1>. QED
  BY <1>1, <1>2 DEF Finish

LEMMA ReceiveIt ==
  ASSUME TypeOK, NEW c \in Clients, toServer[c] # <<>>, Receive(c)
  PROVE  /\ toServer' \in [Clients -> Seq(ServerMessages)]
         /\ msg' = [m |-> Head(toServer[c]), by |-> c] /\ Head(toServer[c]) \in ServerMessages
         /\ srv' = "handle" /\ poll' = NoPoll
         /\ UNCHANGED <<clients, rounds, over, toClient, conn, lost>>
         /\ \A d \in Clients \ {c} : toServer'[d] = toServer[d]
         /\ toServer'[c] = Tail(toServer[c])
<1>1. /\ Head(toServer[c]) \in ServerMessages /\ Tail(toServer[c]) \in Seq(ServerMessages)
      /\ toServer \in [Clients -> Seq(ServerMessages)]
  BY TailIt DEF TypeOK
<1>. QED
  BY <1>1 DEF Receive, At

LEMMA SendsLast ==
  ASSUME TypeOK, NEW c \in Clients, NEW m \in ServerMessages
  PROVE  /\ Range(Append(toServer[c], m)) = Range(toServer[c]) \cup {m}
         /\ \A k \in DOMAIN Append(toServer[c], m) :
              \/ k \in DOMAIN toServer[c] /\ Append(toServer[c], m)[k] = toServer[c][k]
              \/ Append(toServer[c], m)[k] = m
<1>1. toServer[c] \in Seq(ServerMessages)
  BY DEF TypeOK
<1>. QED
  BY <1>1, AppendIt

LEMMA SentIt ==
  ASSUME TypeOK, NEW c \in Clients, NEW m \in ServerMessages, Sent(c, m)
  PROVE  /\ toServer' \in [Clients -> Seq(ServerMessages)]
         /\ \A d \in Clients \ {c} : toServer'[d] = toServer[d]
         /\ toServer'[c] = Append(toServer[c], m)
         /\ Range(toServer'[c]) = Range(toServer[c]) \cup {m}
<1>1. toServer \in [Clients -> Seq(ServerMessages)] /\ toServer[c] \in Seq(ServerMessages)
  BY DEF TypeOK
<1>2. /\ Append(toServer[c], m) \in Seq(ServerMessages)
      /\ Range(Append(toServer[c], m)) = Range(toServer[c]) \cup {m}
  BY <1>1, AppendIt
<1>. QED
  BY <1>1, <1>2 DEF Sent

LEMMA recvIt ==
  ASSUME TypeOK, NEW c \in Clients, NEW a, NEW s \in Status, recv(c, a, s)
  PROVE  /\ toClient' \in [Clients -> Seq(ClientMessages)]
         /\ \A d \in Clients \ {c} : toClient'[d] = toClient[d]
         /\ Range(toClient'[c]) \subseteq Range(toClient[c])
         /\ \E m \in Range(toClient[c]) \cap ClientMessages :
              m.action = a /\ args' = [args EXCEPT ![c] = m.args]
         /\ args' \in [Clients -> Arguments]
         /\ status' \in [Clients -> Status]
         /\ toClient[c] # <<>>
         /\ UNCHANGED <<moves, differ, conn, lost>>
<1>1. /\ toClient \in [Clients -> Seq(ClientMessages)] /\ toClient[c] # <<>>
      /\ Head(toClient[c]).action = a
      /\ args' = [args EXCEPT ![c] = Head(toClient[c]).args]
      /\ toClient' = [toClient EXCEPT ![c] = Tail(toClient[c])]
  BY DEF recv, TypeOK
<1>2. /\ Head(toClient[c]) \in ClientMessages /\ Tail(toClient[c]) \in Seq(ClientMessages)
      /\ Range(toClient[c]) = {Head(toClient[c])} \cup Range(Tail(toClient[c]))
  BY <1>1, TailIt
<1>3. args' \in [Clients -> Arguments]
  BY <1>1, <1>2 DEF TypeOK, Arguments
<1>4. Head(toClient[c]) \in Range(toClient[c]) \cap ClientMessages
  BY <1>2
<1>5. /\ toClient' \in [Clients -> Seq(ClientMessages)]
      /\ \A d \in Clients \ {c} : toClient'[d] = toClient[d]
      /\ toClient'[c] = Tail(toClient[c])
  BY <1>1, <1>2
<1>6. status' \in [Clients -> Status] /\ UNCHANGED <<moves, differ, conn, lost>>
  BY DEF recv, TypeOK
<1>. QED
  BY <1>1, <1>2, <1>3, <1>4, <1>5, <1>6

LEMMA EndsIt ==
  ASSUME TypeOK, NEW c \in Clients, NEW how \in {"closed", "killed"}, Ends(c, how)
  PROVE  /\ conn' \in [Clients -> {"none", "open", "closed", "killed"}]
         /\ toClient' \in [Clients -> Seq(ClientMessages)]
         /\ main' \in [Clients -> MainAt] /\ args' \in [Clients -> Arguments]
         /\ status' \in [Clients -> Status] /\ game' \in [Clients -> [at : GameAt, next : Status]]
         /\ moves' \in [Clients -> 0 .. MaxMoves]
         /\ UNCHANGED <<differ, toServer, lost>>
<1>1. <<>> \in Seq(ClientMessages) /\ "recv" \in MainAt
  BY DEF MainAt
<1>2. " " \in Arguments
  <2>1. [action |-> "ping", args |-> " "] \in ClientMessages
    BY DEF ClientMessages
  <2>2. [action |-> "ping", args |-> " "].args = " "
    OBVIOUS
  <2>. QED
    BY <2>1, <2>2, Zenon DEF Arguments
<1>3. "GAME_NOT_STARTED" \in Status /\ NoThread \in [at : GameAt, next : Status]
  BY DEF Status, NoThread, GameAt
<1>4. 0 \in 0 .. MaxMoves
  BY GameAssumption DEF ClientAssumption
<1>. QED
  BY <1>1, <1>2, <1>3, <1>4 DEF Ends, TypeOK

----------------------------------------------------------------------------
(* Clients leave the table: those in the slots S are removed, and the clients in D, who *)
(* are in the table, get the messages out.                                              *)

Without(S) ==
    /\ Taken(clients') = Taken(clients) \ S
    /\ \A i \in Taken(clients') : /\ clients'[i].fd = clients[i].fd
                                  /\ clients'[i].in_game = clients[i].in_game
                                 /\ clients'[i].opponent = clients[i].opponent

\* The message in the hand is done with, unless it stays there.
HandDone ==
    \/ msg' = msg
    \/ msg' = Null /\ Taken(clients') = {}
    \/ /\ msg' = Null /\ ~Greets(msg.m)
       /\ Leaves(msg.m) => \A i \in Taken(clients') : clients'[i].fd # msg.by

Removal(S, D, out) ==
    /\ D \in SUBSET Fds(Taken(clients)) /\ out \in [D -> ClientMessages]
    /\ \A c \in D : Dismisses(out[c]) => \E i \in Taken(clients) \cap S : clients[i].fd = c
    /\ Without(S) /\ HandDone
    /\ toClient' \in {toClient, After(out)}
    /\ UNCHANGED <<toServer, conn, lost, main, args, game>>

LEMMA RemovedTaken ==
  ASSUME TypeOK, NEW S
  PROVE  /\ Taken(remove_clients(S)) = Taken(clients) \ S
         /\ \A i \in Taken(clients) \ S : remove_clients(S)[i] = clients[i]
  BY DEF TypeOK, Taken, remove_clients

LEMMA PingedTaken ==
  ASSUME TypeOK, NEW S
  PROVE  LET t == Pinged(remove_clients(S)) IN
         /\ t \in [Slots -> Entries(Clients) \cup {Null}]
         /\ Taken(t) = Taken(clients) \ S
         /\ \A i \in Taken(clients) \ S :
              t[i].fd = clients[i].fd /\ t[i].in_game = clients[i].in_game
              /\ t[i].opponent = clients[i].opponent
<1>1. remove_clients(S) \in [Slots -> Entries(Clients) \cup {Null}]
  BY RemovedType
<1>2. ASSUME NEW r \in Entries(Clients)
      PROVE  /\ [r EXCEPT !.online = FALSE] \in Entries(Clients)
             /\ [r EXCEPT !.online = FALSE].fd = r.fd
             /\ [r EXCEPT !.online = FALSE].in_game = r.in_game
             /\ [r EXCEPT !.online = FALSE].opponent = r.opponent
  BY DEF Entries
<1>3. Null \notin Entries(Clients)
  BY GameAssumption DEF ServerAssumption
<1>4. Pinged(remove_clients(S)) \in [Slots -> Entries(Clients) \cup {Null}]
  BY <1>1, <1>2 DEF Pinged
<1>5. Taken(Pinged(remove_clients(S))) = Taken(remove_clients(S))
  BY <1>1, <1>2, <1>3, <1>4 DEF Pinged, Taken
<1>6. ASSUME NEW i \in Taken(clients) \ S
      PROVE  /\ Pinged(remove_clients(S))[i].fd = clients[i].fd
             /\ Pinged(remove_clients(S))[i].in_game = clients[i].in_game
             /\ Pinged(remove_clients(S))[i].opponent = clients[i].opponent
  <2>1. i \in Slots /\ clients[i] \in Entries(Clients) /\ clients[i] # Null
    BY <1>6, EntryType
  <2>2. Pinged(remove_clients(S))[i] = [clients[i] EXCEPT !.online = FALSE]
    BY <2>1, <1>6, RemovedTaken DEF Pinged
  <2>. QED
    BY <2>1, <2>2, <1>2
<1>. QED
  BY <1>4, <1>5, <1>6, RemovedTaken

\* Two slots never have the same client.
LEMMA OneSlot ==
  ASSUME NamesDiffer, NEW i \in Taken(clients), NEW j \in Taken(clients),
         clients[i].fd = clients[j].fd
  PROVE  i = j
  BY DEF NamesDiffer

LEMMA RemovalKeeps ==
  ASSUME IInv, NEW S, NEW D, NEW out, Removal(S, D, out), NEW c \in Clients
  PROVE  ClientInv(c)'
<1>1. ClientInv(c) /\ NamesDiffer /\ TypeOK
  BY DEF IInv
<1>2. Hand(c)' \subseteq Hand(c) /\ (msg' = msg => Hand(c)' = Hand(c))
  BY DEF Removal, HandDone, Hand
<1>3. InTable(c)' => InTable(c)
  BY DEF Removal, Without, InTable
<1>4. /\ conn'[c] = conn[c] /\ toServer'[c] = toServer[c] /\ lost' = lost
      /\ main'[c] = main[c] /\ args'[c] = args[c] /\ game'[c] = game[c]
  BY DEF Removal
<1>5. Ungreeted(c)' => Ungreeted(c)
  BY <1>2, <1>4 DEF Ungreeted, Greets
<1>6. /\ D \in SUBSET Clients /\ out \in [D -> ClientMessages]
      /\ c \in D => InTable(c)
  BY <1>1, FdsIn DEF Removal, Fds, InTable
<1>7. /\ ~InTable(c) => toClient'[c] = toClient[c]
      /\ Range(toClient'[c]) \subseteq Range(toClient[c]) \cup (IF c \in D THEN {out[c]} ELSE {})
  <2>1. \/ toClient' = toClient
        \/ toClient' = After(out)
    BY DEF Removal
  <2>2. /\ c \notin D => After(out)[c] = toClient[c]
        /\ Range(After(out)[c]) \subseteq Range(toClient[c]) \cup (IF c \in D THEN {out[c]} ELSE {})
    BY <1>1, <1>6, AfterIt
  <2>3. toClient' = toClient => toClient'[c] = toClient[c]
    OBVIOUS
  <2>. QED
    BY <2>1, <2>2, <2>3, <1>6
<1>8. GreetsFirst(c)'
  BY <1>1, <1>2, <1>4 DEF ClientInv, GreetsFirst, Greets
<1>9. Unknown(c)'
  BY <1>1, <1>2, <1>3, <1>4, <1>5, <1>7 DEF ClientInv, Unknown
<1>10. DismissedOut(c)'
  <2>1. SUFFICES ASSUME Dismissed(c)', InTable(c)' PROVE FALSE
    BY DEF DismissedOut
  <2>2. ~Dismissed(c)
    BY <1>1, <1>3, <2>1 DEF ClientInv, DismissedOut
  <2>3. c \in D /\ Dismisses(out[c])
    BY <2>1, <2>2, <1>4, <1>7 DEF Dismissed, Dismisses
  <2>4. PICK i \in Taken(clients) \cap S : clients[i].fd = c
    BY <2>3 DEF Removal
  <2>5. PICK j \in Taken(clients) \ S : clients[j].fd = c
    BY <2>1 DEF Removal, Without, InTable
  <2>. QED
    BY <2>4, <2>5, <1>1, OneSlot
<1>11. SaysSo(c)'
  <2>1. SUFFICES ASSUME lost = 0, Leaving(c)
                 PROVE  /\ InTable(c)' => (\E m \in Range(toServer[c]) \cup Hand(c)' : Leaves(m))
                        /\ Ungreeted(c)' => \E m \in Range(toServer[c]) : Leaves(m)
    BY <1>4 DEF SaysSo, Leaving, Leaves
  <2>2. Ungreeted(c)' => \E m \in Range(toServer[c]) : Leaves(m)
    BY <2>1, <1>1, <1>5 DEF ClientInv, SaysSo
  <2>3. ASSUME InTable(c)' PROVE \E m \in Range(toServer[c]) \cup Hand(c)' : Leaves(m)
    <3>1. PICK m \in Range(toServer[c]) \cup Hand(c) : Leaves(m)
      BY <2>1, <2>3, <1>1, <1>3 DEF ClientInv, SaysSo
    <3>2. CASE msg' = msg
      BY <3>1, <3>2, <1>2
    <3>3. CASE m \in Range(toServer[c])
      BY <3>1, <3>3
    <3>4. CASE msg' # msg /\ m \notin Range(toServer[c])
      <4>1. m = msg.m /\ msg.by = c
        BY <3>1, <3>4 DEF Hand
      <4>. QED
        BY <3>1, <3>4, <4>1, <2>3 DEF Removal, HandDone, InTable
    <3>. QED
      BY <3>2, <3>3, <3>4
  <2>. QED
    BY <2>2, <2>3
<1>. QED
  BY <1>8, <1>9, <1>10, <1>11 DEF ClientInv

LEMMA RemovalTable ==
  ASSUME IInv, NEW S, NEW D, NEW out, Removal(S, D, out)
  PROVE  NamesDiffer' /\ OneWaits'
  BY DEF IInv, Removal, Without, NamesDiffer, OneWaits

----------------------------------------------------------------------------
(* The other things that can happen to a client. *)

\* Nothing, while the others or the server take a step, but that somebody in the table
\* gets a message which does not dismiss him.
LEMMA UntouchedKeeps ==
  ASSUME NEW c \in Clients, ClientInv(c),
         Hand(c)' = Hand(c), InTable(c)' <=> InTable(c),
         lost' = lost, toServer'[c] = toServer[c],
         conn'[c] = conn[c], main'[c] = main[c], args'[c] = args[c], game'[c] = game[c],
         \/ toClient'[c] = toClient[c]
         \/ /\ InTable(c)
            /\ \A m \in Range(toClient'[c]) : m \in Range(toClient[c]) \/ ~Dismisses(m)
  PROVE  ClientInv(c)'
<1>1. (Ungreeted(c)' <=> Ungreeted(c)) /\ (Dismissed(c)' => Dismissed(c))
      /\ (Leaving(c)' <=> Leaving(c))
  BY DEF Ungreeted, Dismissed, Leaving, Greets, Dismisses
<1>2. Unknown(c)'
  BY <1>1 DEF ClientInv, Unknown
<1>. QED
  BY <1>1, <1>2 DEF ClientInv, GreetsFirst, DismissedOut, SaysSo, Greets, Leaves

LEMMA ReceiveKeeps ==
  ASSUME IInv, msg = Null, NEW b \in Clients, toServer[b] # <<>>, Receive(b),
         UNCHANGED clientVars, NEW c \in Clients
  PROVE  ClientInv(c)'
<1>1. ClientInv(c) /\ TypeOK
  BY DEF IInv
<1>2. /\ msg' = [m |-> Head(toServer[b]), by |-> b] /\ msg' # Null
      /\ UNCHANGED <<clients, toClient, conn, lost, main, args, game>>
      /\ \A d \in Clients \ {b} : toServer'[d] = toServer[d]
      /\ toServer'[b] = Tail(toServer[b])
  <2>1. Head(toServer[b]) \in ServerMessages /\ msg' = [m |-> Head(toServer[b]), by |-> b]
    BY <1>1, ReceiveIt
  <2>2. msg' # Null
    BY <2>1, GameAssumption DEF ServerAssumption
  <2>. QED
    BY <1>1, <2>1, <2>2, ReceiveIt DEF clientVars
<1>3. Hand(c) = {} /\ (InTable(c)' <=> InTable(c))
  BY <1>2 DEF Hand, InTable
<1>4. CASE c # b
  <2>1. Hand(c)' = {}
    BY <1>2, <1>4 DEF Hand
  <2>2. (Ungreeted(c)' <=> Ungreeted(c)) /\ (Dismissed(c)' <=> Dismissed(c))
        /\ (Leaving(c)' <=> Leaving(c))
    BY <1>2, <1>3, <1>4, <2>1 DEF Ungreeted, Dismissed, Leaving, Greets, Dismisses
  <2>. QED
    BY <1>1, <1>2, <1>3, <1>4, <2>1, <2>2
       DEF ClientInv, GreetsFirst, Unknown, DismissedOut, SaysSo, Greets, Leaves
<1>5. CASE c = b
  <2>1. Hand(c)' = {Head(toServer[c])}
    BY <1>2, <1>5 DEF Hand
  <2>2. /\ 1 \in DOMAIN toServer[c] /\ Head(toServer[c]) = toServer[c][1]
        /\ \A k \in DOMAIN Tail(toServer[c]) : /\ k + 1 \in DOMAIN toServer[c] /\ k + 1 # 1
                                               /\ Tail(toServer[c])[k] = toServer[c][k + 1]
        /\ Range(toServer[c]) = {Head(toServer[c])} \cup Range(Tail(toServer[c]))
    BY <1>1, <1>5, TailIt DEF TypeOK
  <2>3. \A k \in DOMAIN toServer'[c] : ~Greets(toServer'[c][k])
    <3>1. toServer'[c] = Tail(toServer[c])
      BY <1>2, <1>5
    <3>2. \A k \in DOMAIN toServer[c] : Greets(toServer[c][k]) => k = 1
      BY <1>1 DEF ClientInv, GreetsFirst
    <3>. QED
      BY <3>1, <3>2, <2>2
  <2>4. \A m \in Range(toServer'[c]) : ~Greets(m)
    BY <2>3 DEF Range
  <2>5. Range(toServer'[c]) \cup Hand(c)' = Range(toServer[c])
    BY <1>2, <1>5, <2>1, <2>2
  <2>6. (Ungreeted(c)' <=> Ungreeted(c)) /\ (Dismissed(c)' <=> Dismissed(c))
        /\ (Leaving(c)' <=> Leaving(c))
    BY <1>2, <1>3, <2>5 DEF Ungreeted, Dismissed, Leaving, Greets, Dismisses
  <2>7. GreetsFirst(c)'
    BY <2>3 DEF GreetsFirst, Greets
  <2>8. Unknown(c)' /\ DismissedOut(c)'
    BY <1>1, <1>2, <1>3, <1>5, <2>6 DEF ClientInv, Unknown, DismissedOut
  <2>9. ASSUME Ungreeted(c), NEW m \in Range(toServer[c]), Leaves(m)
        PROVE  m \in Range(toServer'[c])
    <3>1. Greets(Head(toServer[c]))
      BY <2>1, <2>4, <2>5, <2>6, <2>9 DEF Ungreeted, Greets
    <3>2. m # Head(toServer[c])
      BY <3>1, <2>9 DEF Leaves, Greets
    <3>. QED
      BY <3>2, <2>2, <1>2, <1>5
  <2>10. SaysSo(c)'
    BY <1>1, <1>2, <1>3, <2>5, <2>6, <2>9 DEF ClientInv, SaysSo, Leaves
  <2>. QED
    BY <2>7, <2>8, <2>10 DEF ClientInv
<1>. QED
  BY <1>4, <1>5

\* A datagram is lost.
LEMMA LoseKeeps ==
  ASSUME IInv, Lose, UNCHANGED <<serverVars, clientVars>>, NEW c \in Clients
  PROVE  ClientInv(c)'
<1>1. ClientInv(c) /\ TypeOK
  BY DEF IInv
<1>2. /\ UNCHANGED <<clients, msg, conn, main, args, game>> /\ lost' # 0
      /\ lost' \in 0 .. MaxLost
  BY <1>1, GameAssumption DEF Lose, serverVars, clientVars, TypeOK, NetAssumption
<1>3. Hand(c)' = Hand(c) /\ (InTable(c)' <=> InTable(c)) /\ (Leaving(c)' <=> Leaving(c))
  BY <1>2 DEF Hand, InTable, Leaving
<1>4. \/ toServer'[c] = toServer[c]
      \/ toServer[c] # <<>> /\ toServer'[c] = Tail(toServer[c])
  BY <1>1 DEF Lose, TypeOK
<1>5. \/ toClient'[c] = toClient[c]
      \/ toClient[c] # <<>> /\ toClient'[c] = Tail(toClient[c])
  BY <1>1 DEF Lose, TypeOK
<1>6. /\ Range(toClient'[c]) \subseteq Range(toClient[c])
      /\ toClient[c] = <<>> => toClient'[c] = <<>>
  <2>1. toClient[c] \in Seq(ClientMessages)
    BY <1>1 DEF TypeOK
  <2>2. toClient[c] # <<>> => Range(Tail(toClient[c])) \subseteq Range(toClient[c])
    BY <2>1, TailIt
  <2>. QED
    BY <1>5, <2>2
<1>7. /\ Range(toServer'[c]) \subseteq Range(toServer[c])
      /\ toServer[c] = <<>> => toServer'[c] = <<>>
  <2>1. toServer[c] \in Seq(ServerMessages)
    BY <1>1 DEF TypeOK
  <2>2. toServer[c] # <<>> => Range(Tail(toServer[c])) \subseteq Range(toServer[c])
    BY <2>1, TailIt
  <2>. QED
    BY <1>4, <2>2
<1>8. GreetsFirst(c)'
  <2>1. CASE toServer'[c] = toServer[c]
    BY <1>1, <1>3, <2>1 DEF ClientInv, GreetsFirst, Greets
  <2>2. CASE toServer[c] # <<>> /\ toServer'[c] = Tail(toServer[c])
    <3>1. \A k \in DOMAIN toServer'[c] : /\ k + 1 \in DOMAIN toServer[c] /\ k + 1 # 1
                                         /\ toServer'[c][k] = toServer[c][k + 1]
      BY <1>1, <2>2, TailIt DEF TypeOK
    <3>. QED
      BY <3>1, <1>1 DEF ClientInv, GreetsFirst, Greets
  <2>. QED
    BY <2>1, <2>2, <1>4
<1>9. Ungreeted(c)' => Ungreeted(c)
  BY <1>3, <1>7 DEF Ungreeted, Greets
<1>10. Dismissed(c)' => Dismissed(c)
  BY <1>2, <1>6 DEF Dismissed, Dismisses
<1>. QED
  BY <1>1, <1>2, <1>3, <1>6, <1>7, <1>8, <1>9, <1>10
     DEF ClientInv, Unknown, DismissedOut, SaysSo
\* A client that is connected does something, and stays so: what it sends comes after its
\* name, what it receives only makes it leave.
LEMMA ClientKeeps ==
  ASSUME IInv, NEW c \in Clients, UNCHANGED <<clients, msg, lost>>,
         conn[c] # "none", conn'[c] = conn[c],
         \/ toServer'[c] = toServer[c]
         \/ \E m \in ServerMessages : ~Greets(m) /\ toServer'[c] = Append(toServer[c], m),
         Ungreeted(c) => /\ toClient'[c] = <<>> /\ args'[c] = " "
                         /\ main'[c] # "told" /\ game'[c].at = "none",
         Dismissed(c)' => Dismissed(c),
         Leaving(c)' => Leaving(c) \/ \E m \in Range(toServer'[c]) : Leaves(m)
  PROVE  ClientInv(c)'
<1>1. ClientInv(c) /\ TypeOK
  BY DEF IInv
<1>2. Hand(c)' = Hand(c) /\ (InTable(c)' <=> InTable(c))
  BY DEF Hand, InTable
<1>3. /\ Range(toServer[c]) \subseteq Range(toServer'[c])
      /\ \A m \in Range(toServer'[c]) : m \in Range(toServer[c]) \/ ~Greets(m)
      /\ \A k \in DOMAIN toServer'[c] :
           Greets(toServer'[c][k]) => /\ k \in DOMAIN toServer[c]
                                      /\ toServer'[c][k] = toServer[c][k]
  <2>1. CASE toServer'[c] = toServer[c]
    BY <2>1
  <2>2. ASSUME NEW m \in ServerMessages, ~Greets(m), toServer'[c] = Append(toServer[c], m)
        PROVE  /\ Range(toServer[c]) \subseteq Range(toServer'[c])
               /\ \A x \in Range(toServer'[c]) : x \in Range(toServer[c]) \/ ~Greets(x)
               /\ \A k \in DOMAIN toServer'[c] :
                    Greets(toServer'[c][k]) => /\ k \in DOMAIN toServer[c]
                                               /\ toServer'[c][k] = toServer[c][k]
    <3>1. /\ Range(Append(toServer[c], m)) = Range(toServer[c]) \cup {m}
          /\ \A k \in DOMAIN Append(toServer[c], m) :
               \/ k \in DOMAIN toServer[c] /\ Append(toServer[c], m)[k] = toServer[c][k]
               \/ Append(toServer[c], m)[k] = m
      BY <1>1, <2>2, SendsLast
    <3>. QED
      BY <2>2, <3>1
  <2>. QED
    BY <2>1, <2>2
<1>4. Ungreeted(c)' <=> Ungreeted(c)
  BY <1>2, <1>3 DEF Ungreeted, Greets
<1>5. GreetsFirst(c)'
  BY <1>1, <1>2, <1>3 DEF ClientInv, GreetsFirst, Greets
<1>6. Unknown(c)'
  BY <1>1, <1>2, <1>4 DEF ClientInv, Unknown
<1>7. DismissedOut(c)'
  BY <1>1, <1>2 DEF ClientInv, DismissedOut
<1>8. SaysSo(c)'
  <2>1. SUFFICES ASSUME lost = 0, Leaving(c)'
                 PROVE  /\ InTable(c) =>
                             \E m \in Range(toServer'[c]) \cup Hand(c) : Leaves(m)
                        /\ Ungreeted(c) => \E m \in Range(toServer'[c]) : Leaves(m)
    BY <1>2, <1>4 DEF SaysSo, Leaves
  <2>2. CASE \E m \in Range(toServer'[c]) : Leaves(m)
    BY <2>2
  <2>3. CASE Leaving(c)
    BY <2>1, <2>3, <1>1, <1>3 DEF ClientInv, SaysSo
  <2>. QED
    BY <2>1, <2>2, <2>3
<1>. QED
  BY <1>5, <1>6, <1>7, <1>8 DEF ClientInv

\* Connecting, a client sends its name and nothing else.
LEMMA ConnectKeeps ==
  ASSUME IInv, NEW c \in Clients, connect(c), UNCHANGED serverVars
  PROVE  ClientInv(c)'
<1>1. ClientInv(c) /\ TypeOK
  BY DEF IInv
<1>2. /\ UNCHANGED <<clients, msg, lost, toClient, args, game>>
      /\ conn[c] = "none" /\ conn'[c] = "open" /\ main'[c] \in {"recv", "connecting"}
      /\ toServer'[c] = Append(toServer[c], Msg("initialization", " "))
  BY <1>1 DEF connect, Opens, Sent, serverVars, TypeOK
<1>3. toServer[c] = <<>> /\ Hand(c) = {} /\ main[c] = "recv" /\ ~InTable(c)
      /\ toClient[c] = <<>> /\ args[c] = " " /\ game[c].at = "none"
  BY <1>1, <1>2 DEF ClientInv, Unknown
<1>4. \A k \in DOMAIN toServer'[c] : k = 1
  <2>1. \A k \in DOMAIN Append(<<>>, Msg("initialization", " ")) : k = 1
    BY Msg("initialization", " ") \in ServerMessages, AppendIt DEF Msg, ServerMessages
  <2>. QED
    BY <2>1, <1>2, <1>3
<1>5. Hand(c)' = {} /\ ~InTable(c)'
  BY <1>2, <1>3 DEF Hand, InTable
<1>6. GreetsFirst(c)'
  BY <1>4, <1>5 DEF GreetsFirst, Greets
<1>7. Unknown(c)' /\ ~Dismissed(c)' /\ ~Leaving(c)'
  BY <1>2, <1>3, <1>5, RangeEmpty DEF Unknown, Dismissed, Leaving, Refused
<1>. QED
  BY <1>6, <1>7 DEF ClientInv, DismissedOut, SaysSo

\* A client's process ends: it was killed, has said that it leaves, or is not in the table.
LEMMA EndsKeeps ==
  ASSUME IInv, NEW c \in Clients, NEW how \in {"closed", "killed"}, Ends(c, how),
         UNCHANGED serverVars, conn[c] # "none",
         how = "killed" \/ Leaving(c) \/ Dismissed(c)
  PROVE  ClientInv(c)'
<1>1. ClientInv(c) /\ TypeOK
  BY DEF IInv
<1>2. /\ UNCHANGED <<clients, msg, lost, toServer>>
      /\ conn'[c] = how /\ toClient'[c] = <<>> /\ main'[c] = "recv" /\ args'[c] = " "
      /\ game'[c].at = "none"
  BY <1>1 DEF Ends, NoThread, serverVars, TypeOK
<1>3. /\ Hand(c)' = Hand(c) /\ (InTable(c)' <=> InTable(c))
      /\ (Ungreeted(c)' <=> Ungreeted(c))
  BY <1>2 DEF Hand, InTable, Ungreeted, Greets
<1>4. GreetsFirst(c)'
  BY <1>1, <1>2, <1>3 DEF ClientInv, GreetsFirst, Greets
<1>5. Unknown(c)'
  BY <1>1, <1>2, <1>3 DEF ClientInv, Unknown
<1>6. ~Dismissed(c)'
  BY <1>2, RangeEmpty DEF Dismissed, Refused
<1>7. Dismissed(c) => ~InTable(c) /\ ~Ungreeted(c)
  BY <1>1, RangeEmpty DEF ClientInv, DismissedOut, Unknown, Dismissed, Refused
<1>8. SaysSo(c)'
  <2>1. CASE how = "killed"
    BY <1>2, <2>1 DEF SaysSo, Leaving
  <2>2. CASE Leaving(c) \/ Dismissed(c)
    BY <1>1, <1>2, <1>3, <1>7, <2>2 DEF ClientInv, SaysSo, Leaves
  <2>. QED
    BY <2>1, <2>2
<1>. QED
  BY <1>4, <1>5, <1>6, <1>8 DEF ClientInv, DismissedOut

\* SIGINT has a handler from now on.
LEMMA InstallsKeeps ==
  ASSUME IInv, NEW c \in Clients, InstallsHandler(c), UNCHANGED serverVars
  PROVE  ClientInv(c)'
<1>1. ClientInv(c) /\ TypeOK /\ UNCHANGED <<clients, msg>>
  BY DEF IInv, serverVars
<1>2. /\ main[c] = "connecting" /\ main'[c] = "recv"
      /\ UNCHANGED <<toServer, toClient, conn, lost, args, game>>
  BY <1>1 DEF InstallsHandler, net, TypeOK
<1>3. conn[c] # "none"
  BY <1>1, <1>2 DEF ClientInv, Unknown
<1>4. Ungreeted(c) => toClient[c] = <<>> /\ args[c] = " " /\ game[c].at = "none"
  BY <1>1 DEF ClientInv, Unknown
<1>5. (Dismissed(c)' => Dismissed(c)) /\ (Leaving(c)' => Leaving(c))
  BY <1>2 DEF Dismissed, Dismisses, Leaving
<1>. QED
  BY <1>1, <1>2, <1>3, <1>4, <1>5, ClientKeeps

----------------------------------------------------------------------------
(* The steps of a client. *)

\* What the game thread does to its own variable.
LEMMA GameIt ==
  ASSUME TypeOK, NEW c \in Clients
  PROVE  /\ \A l \in GameAt : GameTo(c, l) =>
              /\ game' \in [Clients -> [at : GameAt, next : Status]]
              /\ game'[c].at = l /\ \A d \in Clients \ {c} : game'[d] = game[d]
         /\ \A l \in GameAt, s \in Status : GameWrites(c, l, s) =>
              /\ game' \in [Clients -> [at : GameAt, next : Status]]
              /\ game'[c].at = l /\ \A d \in Clients \ {c} : game'[d] = game[d]
<1>1. game \in [Clients -> [at : GameAt, next : Status]]
  BY DEF TypeOK
<1>2. ASSUME NEW l \in GameAt, GameTo(c, l)
      PROVE  /\ game' \in [Clients -> [at : GameAt, next : Status]]
             /\ game'[c].at = l /\ \A d \in Clients \ {c} : game'[d] = game[d]
  BY <1>1, <1>2 DEF GameTo
<1>3. ASSUME NEW l \in GameAt, NEW s \in Status, GameWrites(c, l, s)
      PROVE  /\ game' \in [Clients -> [at : GameAt, next : Status]]
             /\ game'[c].at = l /\ \A d \in Clients \ {c} : game'[d] = game[d]
  BY <1>1, <1>3 DEF GameWrites
<1>. QED
  BY <1>2, <1>3

LEMMA MessageIt ==
  /\ Msg("initialization", " ") \in ServerMessages /\ Msg("ping", " ") \in ServerMessages
  /\ Msg("quit", " ") \in ServerMessages /\ Msg("game_over", " ") \in ServerMessages
  /\ \A r \in {"goes on", "ends"} : Msg("move", r) \in ServerMessages
  /\ \A a, x : Msg(a, x).action = a /\ Msg(a, x).args = x
  BY DEF Msg, ServerMessages

\* A step of a client keeps the types, and leaves everything of the other clients alone.
ClientTypeOK ==
    /\ toServer \in [Clients -> Seq(ServerMessages)]
    /\ toClient \in [Clients -> Seq(ClientMessages)]
    /\ conn \in [Clients -> {"none", "open", "closed", "killed"}]
    /\ main \in [Clients -> MainAt] /\ args \in [Clients -> Arguments]
    /\ status \in [Clients -> Status]
    /\ game \in [Clients -> [at : GameAt, next : Status]]
    /\ moves \in [Clients -> 0 .. MaxMoves]
    /\ differ \in BOOLEAN

Alone(c) ==
    /\ ClientTypeOK' /\ lost' = lost
    /\ \A d \in Clients \ {c} :
         /\ toServer'[d] = toServer[d] /\ toClient'[d] = toClient[d] /\ conn'[d] = conn[d]
         /\ main'[d] = main[d] /\ args'[d] = args[d] /\ game'[d] = game[d]

LEMMA ConnectAlone ==
  ASSUME TypeOK, NEW c \in Clients, connect(c)
  PROVE  Alone(c)
<1>1. conn' \in [Clients -> {"none", "open", "closed", "killed"}] /\ \A d \in Clients \ {c} : conn'[d] = conn[d]
  BY DEF TypeOK, connect, Opens
<1>2. /\ toServer' \in [Clients -> Seq(ServerMessages)]
      /\ \A d \in Clients \ {c} : toServer'[d] = toServer[d]
  BY SentIt, MessageIt DEF connect
<1>3. main' \in [Clients -> MainAt] /\ \A d \in Clients \ {c} : main'[d] = main[d]
  BY DEF connect, TypeOK, MainAt
<1>. QED
  BY <1>1, <1>2, <1>3 DEF connect, Alone, ClientTypeOK, TypeOK

LEMMA InstallsAlone ==
  ASSUME TypeOK, NEW c \in Clients, InstallsHandler(c)
  PROVE  Alone(c)
<1>1. main' \in [Clients -> MainAt] /\ \A d \in Clients \ {c} : main'[d] = main[d]
  BY DEF InstallsHandler, TypeOK, MainAt
<1>. QED
  BY <1>1 DEF InstallsHandler, net, Alone, ClientTypeOK, TypeOK

LEMMA RecvAlone ==
  ASSUME TypeOK, NEW c \in Clients,
         GameStarts(c) \/ OpponentMoved(c) \/ Told(c) \/ ping_reply(c)
  PROVE  Alone(c)
<1>1. status[c] \in Status /\ {"GAME_NOT_STARTED", "OPPONENTS_TURN_FINISHED", "GAME_OVER"} \subseteq Status
  BY DEF TypeOK, Status
<1>2. PICK a \in {"initialization", "opponent_move", "quit", "ping"}, s \in Status :
       recv(c, a, s)
  BY <1>1 DEF GameStarts, OpponentMoved, Told, ping_reply
<1>3. /\ toClient' \in [Clients -> Seq(ClientMessages)]
      /\ \A d \in Clients \ {c} : toClient'[d] = toClient[d] /\ args'[d] = args[d]
      /\ args' \in [Clients -> Arguments] /\ status' \in [Clients -> Status]
      /\ UNCHANGED <<moves, differ, conn, lost>>
  <2>1. args \in [Clients -> Arguments]
    BY DEF TypeOK
  <2>. QED
    BY <1>2, <2>1, recvIt
<1>4. CASE GameStarts(c)
  <2>1. /\ game' \in [Clients -> [at : GameAt, next : Status]]
        /\ \A d \in Clients \ {c} : game'[d] = game[d]
    <3>1. GameTo(c, "top") \/ UNCHANGED game
      BY <1>4 DEF GameStarts
    <3>2. "top" \in GameAt
      BY DEF GameAt
    <3>. QED
      BY <3>1, <3>2, GameIt DEF TypeOK
  <2>. QED
    BY <1>3, <1>4, <2>1 DEF GameStarts, Alone, ClientTypeOK, TypeOK
<1>5. CASE OpponentMoved(c)
  BY <1>3, <1>5 DEF OpponentMoved, Alone, ClientTypeOK, TypeOK
<1>6. CASE Told(c)
  <2>1. main' \in [Clients -> MainAt] /\ \A d \in Clients \ {c} : main'[d] = main[d]
    BY <1>6 DEF Told, TypeOK, MainAt
  <2>. QED
    BY <1>3, <1>6, <2>1 DEF Told, Alone, ClientTypeOK, TypeOK
<1>7. CASE ping_reply(c)
  <2>1. /\ toServer' \in [Clients -> Seq(ServerMessages)]
        /\ \A d \in Clients \ {c} : toServer'[d] = toServer[d]
    BY <1>7, SentIt, MessageIt DEF ping_reply
  <2>. QED
    BY <1>3, <1>7, <2>1 DEF ping_reply, Alone, ClientTypeOK, TypeOK
<1>. QED
  BY <1>4, <1>5, <1>6, <1>7

LEMMA EndsAlone ==
  ASSUME TypeOK, NEW c \in Clients, NEW how \in {"closed", "killed"}, Ends(c, how)
  PROVE  Alone(c)
<1>1. \A d \in Clients \ {c} :
        /\ toClient'[d] = toClient[d] /\ conn'[d] = conn[d]
        /\ main'[d] = main[d] /\ args'[d] = args[d] /\ game'[d] = game[d]
  BY DEF TypeOK, Ends
<1>2. UNCHANGED <<toServer, lost, differ>>
  BY DEF Ends
<1>3. ClientTypeOK'
  BY <1>2, EndsIt DEF ClientTypeOK, TypeOK
<1>. QED
  BY <1>1, <1>2, <1>3 DEF Alone

LEMMA SendAlone ==
  ASSUME TypeOK, NEW c \in Clients, MyTurn(c) \/ quit_game(c) \/ game_over_sent(c)
  PROVE  Alone(c)
<1>1. /\ toServer' \in [Clients -> Seq(ServerMessages)]
      /\ \A d \in Clients \ {c} : toServer'[d] = toServer[d]
  BY SentIt, MessageIt DEF MyTurn, quit_game, game_over_sent
<1>2. CASE MyTurn(c)
  <2>1. moves' \in [Clients -> 0 .. MaxMoves]
    <3>1. moves \in [Clients -> 0 .. MaxMoves] /\ MaxMoves \in Nat
      BY GameAssumption DEF TypeOK, ClientAssumption
    <3>2. moves[c] < MaxMoves /\ moves' = [moves EXCEPT ![c] = @ + 1]
      BY <1>2 DEF MyTurn
    <3>3. moves[c] + 1 \in 0 .. MaxMoves
      BY <3>1, <3>2
    <3>. QED
      BY <3>1, <3>2, <3>3
  <2>2. /\ game' \in [Clients -> [at : GameAt, next : Status]]
        /\ \A d \in Clients \ {c} : game'[d] = game[d]
    <3>1. {"GAME_OVER", "OPPONENTS_TURN"} \subseteq Status /\ "moved" \in GameAt
      BY DEF Status, GameAt
    <3>2. PICK s \in Status : GameWrites(c, "moved", s)
      BY <1>2, <3>1 DEF MyTurn
    <3>. QED
      BY <3>1, <3>2, GameIt
  <2>. QED
    BY <1>1, <1>2, <2>1, <2>2 DEF MyTurn, Alone, ClientTypeOK, TypeOK
<1>3. CASE quit_game(c)
  <2>1. main' \in [Clients -> MainAt] /\ \A d \in Clients \ {c} : main'[d] = main[d]
    BY <1>3 DEF quit_game, TypeOK, MainAt
  <2>. QED
    BY <1>1, <1>3, <2>1 DEF quit_game, Alone, ClientTypeOK, TypeOK
<1>4. CASE game_over_sent(c)
  <2>1. /\ game' \in [Clients -> [at : GameAt, next : Status]]
        /\ \A d \in Clients \ {c} : game'[d] = game[d]
    BY <1>4, GameIt, "over" \in GameAt DEF game_over_sent, GameAt
  <2>. QED
    BY <1>1, <1>4, <2>1 DEF game_over_sent, Alone, ClientTypeOK, TypeOK
<1>. QED
  BY <1>2, <1>3, <1>4

\* The steps of the game thread that neither send anything nor end it.
Thinks(c) ==
    /\ conn[c] = "open" /\ game[c].at # "none"
    /\ ClientTypeOK' /\ UNCHANGED <<main, args, net>>
    /\ game'[c].at \notin {"none", "over"}
    /\ \A d \in Clients \ {c} : game'[d] = game[d]

LEMMA ThinksIt ==
  ASSUME TypeOK, NEW c \in Clients,
         \/ NotStarted(c) \/ Waits(c) \/ TurnFinished(c) \/ WritesStatus(c)
  PROVE  \/ Thinks(c)
         \/ /\ Exits(c) /\ conn[c] = "open"
            /\ \E a \in Refused : Argument(c, a)
<1>1. ASSUME NEW l \in GameAt, NEW s \in Status, GameTo(c, l) \/ GameWrites(c, l, s),
             l \notin {"none", "over"}, conn[c] = "open", game[c].at # "none",
             UNCHANGED <<main, args, status, moves, net>>, differ' \in BOOLEAN
      PROVE  Thinks(c)
  <2>1. /\ game' \in [Clients -> [at : GameAt, next : Status]]
        /\ game'[c].at = l /\ \A d \in Clients \ {c} : game'[d] = game[d]
    BY <1>1, GameIt
  <2>. QED
    BY <1>1, <2>1 DEF Thinks, ClientTypeOK, TypeOK, net
<1>2. \A s : Reads(c, s) => conn[c] = "open" /\ game[c].at # "none"
  BY DEF Reads
<1>3. /\ {"looking", "waiting", "write", "moved", "top"} \subseteq GameAt
      /\ {"GAME_NOT_STARTED", "LOOKING_FOR_OPPONENT", "MY_TURN", "OPPONENTS_TURN", "GAME_OVER"}
            \subseteq Status
      /\ \A a : Turn(a) \in Status
  BY DEF GameAt, Status, Turn
<1>4. differ \in BOOLEAN
  BY DEF TypeOK
<1>5. CASE NotStarted(c)
  <2>1. PICK a \in Arguments :
          /\ Argument(c, a)
          /\ \/ game[c].at = "top" /\ a \in Refused /\ Exits(c)
             \/ /\ game[c].at = "top" => a \notin Refused
                /\ GameWrites(c, "write", IF a = "no_enemy_found" /\ game[c].at = "top"
                                           THEN "LOOKING_FOR_OPPONENT" ELSE Turn(a))
                /\ UNCHANGED <<main, args, status, moves, differ, net>>
    BY <1>5 DEF NotStarted
  <2>2. conn[c] = "open" /\ game[c].at # "none"
    BY <1>5, <1>2 DEF NotStarted
  <2>3. CASE a \in Refused /\ Exits(c)
    BY <2>1, <2>2, <2>3
  <2>4. CASE ~(a \in Refused /\ Exits(c))
    <3>1. PICK s \in Status : GameWrites(c, "write", s)
      BY <2>1, <2>4, <1>3
    <3>2. UNCHANGED <<main, args, status, moves, differ, net>>
      BY <2>1, <2>4
    <3>. QED
      BY <1>1, <1>3, <1>4, <2>2, <3>1, <3>2
  <2>. QED
    BY <2>3, <2>4
<1>6. CASE Waits(c)
  <2>1. conn[c] = "open" /\ game[c].at # "none" /\ UNCHANGED <<main, args, status, moves, differ, net>>
    BY <1>6 DEF Waits
  <2>2. PICK l \in {"looking", "waiting"} : GameTo(c, l)
    BY <1>6 DEF Waits
  <2>. QED
    BY <1>1, <1>3, <1>4, <2>1, <2>2
<1>7. CASE TurnFinished(c)
  <2>1. /\ conn[c] = "open" /\ game[c].at # "none"
        /\ UNCHANGED <<main, args, status, moves, net>> /\ differ' \in BOOLEAN
    BY <1>7, <1>2, <1>4 DEF TurnFinished
  <2>2. PICK s \in Status : GameWrites(c, "moved", s)
    BY <1>7, <1>3 DEF TurnFinished
  <2>. QED
    BY <1>1, <1>3, <2>1, <2>2
<1>8. CASE WritesStatus(c)
  <2>1. /\ conn[c] = "open" /\ game[c].at # "none" /\ UNCHANGED <<main, args, moves, net>>
        /\ differ' \in BOOLEAN
    BY <1>8, <1>4 DEF WritesStatus
  <2>2. /\ game' \in [Clients -> [at : GameAt, next : Status]]
        /\ game'[c].at = "top" /\ \A d \in Clients \ {c} : game'[d] = game[d]
    BY <1>8, <1>3 DEF WritesStatus, TypeOK, NoThread
  <2>3. status' \in [Clients -> Status]
    <3>1. game[c].next \in Status /\ status \in [Clients -> Status]
      BY DEF TypeOK
    <3>. QED
      BY <1>8, <3>1 DEF WritesStatus
  <2>. QED
    BY <2>1, <2>2, <2>3 DEF Thinks, ClientTypeOK, TypeOK, net
<1>. QED
  BY <1>5, <1>6, <1>7, <1>8

LEMMA ThinksAlone ==
  ASSUME TypeOK, NEW c \in Clients,
         \/ NotStarted(c) \/ Waits(c) \/ TurnFinished(c) \/ WritesStatus(c)
  PROVE  Alone(c)
<1>1. CASE Thinks(c)
  BY <1>1 DEF Thinks, Alone, net
<1>2. CASE Exits(c)
  BY <1>2, EndsAlone DEF Exits
<1>. QED
  BY <1>1, <1>2, ThinksIt

LEMMA ClientAlone ==
  ASSUME TypeOK, NEW c \in Clients, ClientStep(c)
  PROVE  Alone(c)
<1>1. CASE close_connection(c) \/ Killed(c)
  BY <1>1, EndsAlone DEF close_connection, Exits, Killed
<1>. QED
  BY <1>1, ConnectAlone, InstallsAlone, RecvAlone, SendAlone, ThinksAlone
     DEF ClientStep, main_loop, play_game

LEMMA RecvKeeps ==
  ASSUME IInv, NEW c \in Clients, UNCHANGED serverVars,
         GameStarts(c) \/ OpponentMoved(c) \/ Told(c) \/ ping_reply(c)
  PROVE  ClientInv(c)'
<1>1. ClientInv(c) /\ TypeOK /\ UNCHANGED <<clients, msg>>
  BY DEF IInv, serverVars
<1>2. PICK a \in {"initialization", "opponent_move", "quit", "ping"}, s \in Status :
        recv(c, a, s) /\ (main'[c] = main[c] \/ a = "quit")
  <2>1. status[c] \in Status
        /\ {"GAME_NOT_STARTED", "OPPONENTS_TURN_FINISHED", "GAME_OVER"} \subseteq Status
    BY <1>1 DEF TypeOK, Status
  <2>. QED
    BY <2>1 DEF GameStarts, OpponentMoved, Told, ping_reply
<1>3. /\ conn[c] = "open" /\ conn' = conn /\ toClient[c] # <<>> /\ lost' = lost
      /\ Range(toClient'[c]) \subseteq Range(toClient[c])
      /\ \E m \in Range(toClient[c]) : m.action = a /\ args'[c] = m.args
  <2>1. args \in [Clients -> Arguments]
    BY <1>1 DEF TypeOK
  <2>2. PICK m \in Range(toClient[c]) : m.action = a /\ args' = [args EXCEPT ![c] = m.args]
    BY <1>1, <1>2, recvIt
  <2>3. args'[c] = m.args
    BY <2>1, <2>2
  <2>4. /\ conn[c] = "open" /\ conn' = conn /\ toClient[c] # <<>> /\ lost' = lost
        /\ Range(toClient'[c]) \subseteq Range(toClient[c])
    BY <1>1, <1>2, recvIt DEF recv
  <2>. QED
    BY <2>2, <2>3, <2>4
<1>4. ~Ungreeted(c)
  BY <1>1, <1>3 DEF ClientInv, Unknown
<1>5. Dismissed(c)' => Dismissed(c)
  <2>1. SUFFICES ASSUME Dismissed(c)' PROVE Dismissed(c)
    OBVIOUS
  <2>2. CASE main'[c] = "told" \/ args'[c] \in Refused
    BY <2>2, <1>2, <1>3 DEF Dismissed, Dismisses
  <2>3. CASE \E m \in Range(toClient'[c]) : Dismisses(m)
    BY <2>3, <1>3 DEF Dismissed
  <2>. QED
    BY <2>1, <2>2, <2>3 DEF Dismissed, Dismisses
<1>6. Leaving(c)' => Leaving(c)
  <2>1. main'[c] = "quitting" => main[c] = "quitting"
    BY <1>1 DEF GameStarts, OpponentMoved, Told, ping_reply, TypeOK, MainAt
  <2>2. game'[c].at = "over" => game[c].at = "over"
    <3>1. "top" \in GameAt
      BY DEF GameAt
    <3>2. GameTo(c, "top") => game'[c].at = "top"
      BY <3>1, <1>1, GameIt
    <3>3. GameTo(c, "top") \/ UNCHANGED game
      BY DEF GameStarts, OpponentMoved, Told, ping_reply
    <3>. QED
      BY <3>2, <3>3
  <2>. QED
    BY <2>1, <2>2, <1>3 DEF Leaving
<1>7. \/ toServer'[c] = toServer[c]
      \/ \E m \in ServerMessages : ~Greets(m) /\ toServer'[c] = Append(toServer[c], m)
  <2>1. CASE ping_reply(c)
    <3>1. toServer'[c] = Append(toServer[c], Msg("ping", " "))
      BY <1>1, <2>1, SentIt, MessageIt DEF ping_reply
    <3>2. ~Greets(Msg("ping", " "))
      BY DEF Greets, Msg
    <3>. QED
      BY <3>1, <3>2, MessageIt
  <2>. QED
    BY <2>1 DEF GameStarts, OpponentMoved, Told
<1>. QED
  BY <1>1, <1>3, <1>4, <1>5, <1>6, <1>7, ClientKeeps

LEMMA ThinksKeeps ==
  ASSUME IInv, NEW c \in Clients, UNCHANGED serverVars,
         \/ NotStarted(c) \/ Waits(c) \/ TurnFinished(c) \/ WritesStatus(c)
  PROVE  ClientInv(c)'
<1>1. ClientInv(c) /\ TypeOK /\ UNCHANGED <<clients, msg>>
  BY DEF IInv, serverVars
<1>2. CASE Thinks(c)
  <2>1. /\ UNCHANGED <<toServer, toClient, conn, lost, main, args>> /\ conn[c] = "open"
        /\ game[c].at # "none" /\ game'[c].at # "over"
    BY <1>2 DEF Thinks, net
  <2>2. ~Ungreeted(c)
    BY <1>1, <2>1 DEF ClientInv, Unknown
  <2>3. (Dismissed(c)' => Dismissed(c)) /\ (Leaving(c)' => Leaving(c))
    BY <2>1 DEF Dismissed, Dismisses, Leaving
  <2>. QED
    BY <1>1, <2>1, <2>2, <2>3, ClientKeeps
<1>3. ASSUME Exits(c), conn[c] = "open", NEW a \in Refused, Argument(c, a)
      PROVE  ClientInv(c)'
  <2>1. CASE a = args[c]
    BY <2>1, <1>3, EndsKeeps DEF Exits, Dismissed
  <2>2. CASE toClient[c] # <<>> /\ a = Head(toClient[c]).args
    <3>1. Head(toClient[c]) \in Range(toClient[c])
      BY <1>1, <2>2, TailIt DEF TypeOK
    <3>. QED
      BY <2>2, <3>1, <1>3, EndsKeeps DEF Exits, Dismissed, Dismisses
  <2>. QED
    BY <2>1, <2>2, <1>3 DEF Argument, Refused
<1>. QED
  BY <1>1, <1>2, <1>3, ThinksIt

LEMMA SendKeeps ==
  ASSUME IInv, NEW c \in Clients, UNCHANGED serverVars,
         MyTurn(c) \/ quit_game(c) \/ game_over_sent(c)
  PROVE  ClientInv(c)'
<1>1. ClientInv(c) /\ TypeOK /\ UNCHANGED <<clients, msg>>
  BY DEF IInv, serverVars
<1>2. /\ UNCHANGED <<toClient, conn, lost, args>> /\ conn[c] = "open"
      /\ main'[c] # "told" \/ main' = main
  BY <1>1 DEF MyTurn, Reads, quit_game, game_over_sent, TypeOK
<1>3. Dismissed(c)' => Dismissed(c)
  BY <1>2 DEF Dismissed, Dismisses
<1>4. Ungreeted(c) => game[c].at = "none" /\ toClient[c] = <<>> /\ args[c] = " " /\ main[c] # "told"
  BY <1>1 DEF ClientInv, Unknown
<1>5. CASE MyTurn(c)
  <2>1. PICK r \in {"goes on", "ends"} :
          Sent(c, Msg("move", r)) /\ \E s \in Status : GameWrites(c, "moved", s)
    BY <1>5 DEF MyTurn, Status
  <2>2. toServer'[c] = Append(toServer[c], Msg("move", r)) /\ ~Greets(Msg("move", r))
    BY <1>1, <2>1, SentIt, MessageIt DEF Greets
  <2>3. game'[c].at = "moved" /\ main' = main /\ game[c].at # "none"
    BY <1>1, <1>5, <2>1, GameIt, "moved" \in GameAt DEF GameAt, MyTurn, Reads
  <2>4. Leaving(c)' => Leaving(c)
    BY <1>2, <2>3 DEF Leaving
  <2>. QED
    BY <1>1, <1>2, <1>3, <1>4, <2>2, <2>3, <2>4, MessageIt, ClientKeeps
<1>6. CASE quit_game(c) \/ game_over_sent(c)
  <2>1. PICK m \in ServerMessages : Sent(c, m) /\ Leaves(m) /\ ~Greets(m)
    <3>1. \A a \in {"quit", "game_over"} :
            Msg(a, " ") \in ServerMessages /\ Leaves(Msg(a, " ")) /\ ~Greets(Msg(a, " "))
      BY DEF Leaves, Greets, Msg, ServerMessages
    <3>2. \E a \in {"quit", "game_over"} : Sent(c, Msg(a, " "))
      BY <1>6 DEF quit_game, game_over_sent
    <3>. QED
      BY <3>1, <3>2
  <2>2. toServer'[c] = Append(toServer[c], m) /\ m \in Range(toServer'[c])
    <3>1. toServer'[c] = Append(toServer[c], m) /\ Range(toServer'[c]) = Range(toServer[c]) \cup {m}
      BY <1>1, <2>1, SentIt
    <3>. QED
      BY <3>1
  <2>3. Ungreeted(c) => main'[c] # "told" /\ game'[c].at = "none"
    BY <1>1, <1>2, <1>4, <1>6 DEF quit_game, game_over_sent, Reads
  <2>. QED
    BY <1>1, <1>2, <1>3, <1>4, <2>1, <2>2, <2>3, ClientKeeps
<1>. QED
  BY <1>5, <1>6

LEMMA ClientStepKeeps ==
  ASSUME IInv, NEW c \in Clients, ClientStep(c), UNCHANGED serverVars, NEW d \in Clients
  PROVE  ClientInv(d)'
<1>1. ClientInv(d) /\ TypeOK /\ UNCHANGED <<clients, msg>>
  BY DEF IInv, serverVars
<1>2. CASE d # c
  <2>1. Alone(c)
    BY <1>1, ClientAlone
  <2>2. Hand(d)' = Hand(d) /\ (InTable(d)' <=> InTable(d))
    BY <1>1 DEF Hand, InTable
  <2>. QED
    BY <1>1, <1>2, <2>1, <2>2, UntouchedKeeps DEF Alone
<1>3. CASE close_connection(c)
  <2>1. Exits(c) /\ conn[c] = "open" /\ (Leaving(c) \/ Dismissed(c))
    BY <1>3 DEF close_connection, Leaving, Dismissed
  <2>2. ClientInv(c)'
    BY <2>1, EndsKeeps DEF Exits
  <2>. QED
    BY <1>2, <2>2
<1>4. CASE Killed(c)
  <2>1. conn[c] # "none"
    BY <1>4 DEF Killed, IInv, ClientInv, Unknown
  <2>2. ClientInv(c)'
    BY <1>4, <2>1, EndsKeeps DEF Killed
  <2>. QED
    BY <1>2, <2>2
<1>. QED
  BY <1>2, <1>3, <1>4, ConnectKeeps, InstallsKeeps, RecvKeeps, SendKeeps, ThinksKeeps
     DEF ClientStep, main_loop, play_game

----------------------------------------------------------------------------
(* A client's name arrives. *)

LEMMA MsgIn ==
  ASSUME TypeOK, msg # Null
  PROVE  msg.by \in Clients /\ msg.m \in ServerMessages
  BY DEF TypeOK

\* What the server knows of whoever has sent the name it handles.
LEMMA GreetedIt ==
  ASSUME IInv, msg # Null, Greets(msg.m)
  PROVE  LET b == msg.by IN
         /\ b \in Clients /\ ~InTable(b) /\ conn[b] # "none" /\ toClient[b] = <<>>
         /\ args[b] = " " /\ main[b] # "told"
         /\ \A m \in Range(toServer[b]) : ~Greets(m)
         /\ lost = 0 /\ Leaving(b) => \E m \in Range(toServer[b]) : Leaves(m)
<1>1. msg.by \in Clients /\ ClientInv(msg.by)
  BY MsgIn DEF IInv
<1>2. Hand(msg.by) = {msg.m}
  BY DEF Hand
<1>3. Ungreeted(msg.by)
  BY <1>2 DEF Ungreeted
<1>4. \A m \in Range(toServer[msg.by]) : ~Greets(m)
  BY <1>1, <1>2 DEF ClientInv, GreetsFirst, Range
<1>. QED
  BY <1>1, <1>2, <1>3, <1>4 DEF ClientInv, Unknown, SaysSo

\* Either it is refused, with the table as it was, or enters it at slot i.
LEMMA EnterKeeps ==
  ASSUME IInv, msg # Null, Greets(msg.m), msg' = Null,
         NEW D \in SUBSET Clients, NEW out \in [D -> ClientMessages], toClient' = After(out),
         UNCHANGED <<toServer, conn, lost, main, args, game>>,
         \/ clients' = clients /\ D = {msg.by}
         \/ /\ \A d \in Clients : InTable(d)' <=> InTable(d) \/ d = msg.by
            /\ \A d \in D : (InTable(d) \/ d = msg.by) /\ ~Dismisses(out[d]),
         NEW c \in Clients
  PROVE  ClientInv(c)'
<1>1. ClientInv(c) /\ TypeOK
  BY DEF IInv
<1>2. /\ Gone(c) \/ c \notin D => toClient'[c] = toClient[c]
      /\ Range(toClient'[c]) \subseteq Range(toClient[c]) \cup (IF c \in D THEN {out[c]} ELSE {})
  BY <1>1, AfterIt
<1>3. CASE c # msg.by
  <2>1. Hand(c)' = Hand(c) /\ (InTable(c)' <=> InTable(c))
    BY <1>3 DEF Hand, InTable
  <2>2. \/ toClient'[c] = toClient[c]
        \/ /\ InTable(c)
           /\ \A m \in Range(toClient'[c]) : m \in Range(toClient[c]) \/ ~Dismisses(m)
    BY <1>2, <1>3
  <2>. QED
    BY <1>1, <2>1, <2>2, UntouchedKeeps
<1>4. CASE c = msg.by
  <2>1. /\ ~InTable(c) /\ conn[c] # "none" /\ toClient[c] = <<>>
        /\ args[c] = " " /\ main[c] # "told"
        /\ \A m \in Range(toServer[c]) : ~Greets(m)
        /\ lost = 0 /\ Leaving(c) => \E m \in Range(toServer[c]) : Leaves(m)
    BY <1>4, GreetedIt
  <2>2. Hand(c)' = {}
    BY DEF Hand
  <2>3. ~Ungreeted(c)'
    BY <2>1, <2>2 DEF Ungreeted, Greets
  <2>4. GreetsFirst(c)'
    BY <1>1, <2>2 DEF ClientInv, GreetsFirst, Greets
  <2>5. Unknown(c)'
    BY <2>1, <2>3 DEF Unknown
  <2>6. DismissedOut(c)'
    <3>1. CASE clients' = clients
      BY <2>1, <3>1 DEF DismissedOut, InTable
    <3>2. CASE \A d \in D : ~Dismisses(out[d])
      <4>1. \A m \in Range(toClient'[c]) : ~Dismisses(m)
        BY <1>2, <2>1, <3>2, RangeEmpty
      <4>2. ~Dismissed(c)'
        BY <2>1, <4>1 DEF Dismissed, Dismisses, Refused
      <4>. QED
        BY <4>2 DEF DismissedOut
    <3>. QED
      BY <3>1, <3>2
  <2>7. SaysSo(c)'
    BY <2>1, <2>2, <2>3 DEF SaysSo, Leaving, Leaves
  <2>. QED
    BY <2>4, <2>5, <2>6, <2>7 DEF ClientInv
<1>. QED
  BY <1>3, <1>4

LEMMA EnteredIt ==
  ASSUME TypeOK, NEW i \in find_free_slot, NEW c \in Clients
  PROVE  LET t == Entered(i, c) IN
         /\ t \in [Slots -> Entries(Clients) \cup {Null}]
         /\ i \in Slots \ Taken(clients) /\ Taken(t) = Taken(clients) \cup {i}
         /\ t[i].fd = c /\ ~t[i].in_game /\ t[i].opponent = -1
         /\ \A j \in Taken(clients) : t[j] = clients[j]
<1>1. i \in Slots \ Taken(clients) /\ clients \in [Slots -> Entries(Clients) \cup {Null}]
  BY DEF find_free_slot, TypeOK
<1>2. /\ [fd |-> c, in_game |-> FALSE, opponent |-> -1, online |-> TRUE] \in Entries(Clients)
      /\ Null \notin Entries(Clients)
  BY GameAssumption DEF Entries, ServerAssumption
<1>3. /\ Entered(i, c) \in [Slots -> Entries(Clients) \cup {Null}]
      /\ Entered(i, c)[i] = [fd |-> c, in_game |-> FALSE, opponent |-> -1, online |-> TRUE]
      /\ \A j \in Slots \ {i} : Entered(i, c)[j] = clients[j]
  BY <1>1, <1>2 DEF Entered
<1>4. Taken(Entered(i, c)) = Taken(clients) \cup {i}
  BY <1>1, <1>2, <1>3 DEF Taken
<1>. QED
  BY <1>1, <1>3, <1>4, TakenIn

LEMMA PairIt ==
  ASSUME NEW t \in [Slots -> Entries(Clients) \cup {Null}],
         NEW i \in Taken(t), NEW o \in Taken(t) \ {i}
  PROVE  LET u == Pair(t, i, o) IN
         /\ u \in [Slots -> Entries(Clients) \cup {Null}] /\ Taken(u) = Taken(t)
         /\ \A j \in Taken(t) \ {i, o} : u[j] = t[j]
         /\ u[i].fd = t[i].fd /\ u[i].in_game /\ u[i].opponent = o
         /\ u[o].fd = t[o].fd /\ u[o].in_game /\ u[o].opponent = i
<1>1. /\ i \in Slots /\ o \in Slots /\ t[i] \in Entries(Clients) /\ t[o] \in Entries(Clients)
      /\ Taken(t) \subseteq Slots /\ i # o
  BY DEF Taken
<1>2. ASSUME NEW r \in Entries(Clients), NEW p \in Slots
      PROVE  LET e == [[r EXCEPT !.in_game = TRUE] EXCEPT !.opponent = p] IN
             /\ e \in Entries(Clients) /\ e.fd = r.fd /\ e.in_game /\ e.opponent = p
  BY DEF Entries
<1>3. /\ Pair(t, i, o)[i] = [[t[i] EXCEPT !.in_game = TRUE] EXCEPT !.opponent = o]
      /\ Pair(t, i, o)[o] = [[t[o] EXCEPT !.in_game = TRUE] EXCEPT !.opponent = i]
      /\ \A j \in Slots \ {i, o} : Pair(t, i, o)[j] = t[j]
      /\ DOMAIN Pair(t, i, o) = Slots
      /\ Pair(t, i, o) = [j \in Slots |-> Pair(t, i, o)[j]]
  BY <1>1 DEF Pair
<1>4. /\ Pair(t, i, o)[i] \in Entries(Clients) /\ Pair(t, i, o)[i].fd = t[i].fd
      /\ Pair(t, i, o)[i].in_game /\ Pair(t, i, o)[i].opponent = o
      /\ Pair(t, i, o)[o] \in Entries(Clients) /\ Pair(t, i, o)[o].fd = t[o].fd
      /\ Pair(t, i, o)[o].in_game /\ Pair(t, i, o)[o].opponent = i
  <2>1. /\ Pair(t, i, o)[i] \in Entries(Clients) /\ Pair(t, i, o)[i].fd = t[i].fd
        /\ Pair(t, i, o)[i].in_game /\ Pair(t, i, o)[i].opponent = o
    <3>1. t[i] \in Entries(Clients) /\ o \in Slots
      BY <1>1
    <3>2. LET e == [[t[i] EXCEPT !.in_game = TRUE] EXCEPT !.opponent = o] IN
          e \in Entries(Clients) /\ e.fd = t[i].fd /\ e.in_game /\ e.opponent = o
      BY <3>1, <1>2
    <3>. QED
      BY <3>2, <1>3, Zenon
  <2>2. /\ Pair(t, i, o)[o] \in Entries(Clients) /\ Pair(t, i, o)[o].fd = t[o].fd
        /\ Pair(t, i, o)[o].in_game /\ Pair(t, i, o)[o].opponent = i
    <3>1. t[o] \in Entries(Clients) /\ i \in Slots
      BY <1>1
    <3>2. LET e == [[t[o] EXCEPT !.in_game = TRUE] EXCEPT !.opponent = i] IN
          e \in Entries(Clients) /\ e.fd = t[o].fd /\ e.in_game /\ e.opponent = i
      BY <3>1, <1>2
    <3>. QED
      BY <3>2, <1>3, Zenon
  <2>. QED
    BY <2>1, <2>2
<1>5. Pair(t, i, o) \in [Slots -> Entries(Clients) \cup {Null}]
  BY <1>3, <1>4
<1>6. Taken(Pair(t, i, o)) = Taken(t)
  <2>1. Null \notin Entries(Clients)
    BY GameAssumption DEF ServerAssumption
  <2>. QED
    BY <1>1, <1>3, <1>4, <2>1 DEF Taken
<1>. QED
  BY <1>1, <1>3, <1>4, <1>5, <1>6

----------------------------------------------------------------------------
(* The steps of the server. *)

LEMMA TypeKept ==
  ASSUME TypeOK, UNCHANGED <<toServer, conn, lost, clientVars>>,
         clients' \in [Slots -> Entries(Clients) \cup {Null}],
         toClient' \in [Clients -> Seq(ClientMessages)],
         srv' \in {srv, "count", "exited", "crashed"}, poll' \in {poll, NoPoll},
         msg' \in {msg, Null}, rounds' \in 0 .. MaxPings, over' \in BOOLEAN
  PROVE  TypeOK'
<1>1. NoPoll \in [alloc : 0 .. MAX_NO_CLIENTS + 2, fds : Seq(Clients)]
  BY GameAssumption DEF NoPoll, ServerAssumption
<1>. QED
  BY <1>1 DEF TypeOK, clientVars

LEMMA SameTable ==
  ASSUME IInv, Running, UNCHANGED <<clients, over>>
  PROVE  NamesDiffer' /\ OneWaits' /\ PairsUntilGameOver'
<1>1. NamesDiffer /\ OneWaits /\ PairsUntilGameOver
  BY DEF IInv
<1>2. NamesDiffer' /\ OneWaits'
  BY <1>1 DEF NamesDiffer, OneWaits
<1>3. PairsUntilGameOver'
  BY <1>1 DEF PairsUntilGameOver
<1>. QED
  BY <1>2, <1>3

\* Clients leave: in the table are no more than before, and those who play have stayed
\* together, unless a game is over.
LEMMA RemovalStep ==
  ASSUME IInv, Running, NEW S, NEW D, NEW out, Removal(S, D, out),
         TypeOK', InHand', srv' \in {srv, "count", "exited", "crashed"}, srv' = srv => poll' = poll,
         over' \/ ~Running' \/
            (/\ ~over
             /\ \A i \in Taken(clients) \cap S, o \in Taken(clients) \ S : clients[i].opponent # o)
  PROVE  IInv'
<1>1. \A c \in Clients : ClientInv(c)'
  BY RemovalKeeps
<1>2. NamesDiffer' /\ OneWaits'
  BY RemovalTable
<1>3. Taken(clients') = Taken(clients) \ S
  BY DEF Removal, Without
<1>4. no_connected_clients' <= no_connected_clients
  <2>1. IsFiniteSet(Taken(clients))
    BY TakenFinite DEF IInv
  <2>. QED
    BY <2>1, <1>3, FS_Subset DEF no_connected_clients
<1>5. no_connected_clients \in Nat /\ no_connected_clients' \in Nat
  <2>1. IsFiniteSet(Taken(clients)) /\ Taken(clients') \subseteq Taken(clients)
    BY <1>3, TakenFinite DEF IInv
  <2>2. IsFiniteSet(Taken(clients'))
    BY <2>1, FS_Subset
  <2>. QED
    BY <2>1, <2>2, FS_CardinalityType DEF no_connected_clients
<1>6. PollInBounds' /\ Collected'
  <2>1. CASE srv' = srv /\ srv \in {"collect", "place", "poll"}
    <3>1. PollInBounds /\ Collected /\ poll' = poll
      BY <2>1 DEF IInv
    <3>2. poll.alloc \in Nat /\ Len(poll.fds) \in Nat
      BY GameAssumption DEF IInv, TypeOK, ServerAssumption
    <3>3. Len(poll.fds) <= poll.alloc /\ no_connected_clients + 2 <= poll.alloc
      BY <2>1, <3>1 DEF PollInBounds
    <3>4. no_connected_clients' + 2 <= poll.alloc
      BY <1>4, <1>5, <3>2, <3>3
    <3>5. PollInBounds'
      BY <3>1, <3>3, <3>4 DEF PollInBounds
    <3>6. srv = "place" => no_connected_clients' <= Len(poll.fds)
      BY <1>4, <1>5, <3>1, <3>2 DEF Collected
    <3>. QED
      BY <2>1, <3>1, <3>5, <3>6 DEF Collected
  <2>. QED
    BY <2>1 DEF PollInBounds, Collected
<1>7. PairsUntilGameOver'
  <2>1. SUFFICES ASSUME ~over', Running', NEW i \in Taken(clients'), clients'[i].opponent # -1
                 PROVE  /\ clients'[i].in_game
                        /\ clients'[i].opponent \in Taken(clients') \ {i}
                        /\ clients'[clients'[i].opponent].opponent = i
    BY DEF PairsUntilGameOver
  <2>2. /\ i \in Taken(clients) \ S /\ ~over
        /\ clients'[i].opponent = clients[i].opponent /\ clients'[i].in_game = clients[i].in_game
    BY <2>1, <1>3 DEF Removal, Without
  <2>3. LET o == clients[i].opponent IN
        clients[i].in_game /\ o \in Taken(clients) \ {i} /\ clients[o].opponent = i
    BY <2>1, <2>2 DEF IInv, PairsUntilGameOver
  <2>4. clients[i].opponent \notin S
    BY <2>1, <2>2, <2>3
  <2>. QED
    BY <1>3, <2>2, <2>3, <2>4 DEF Removal, Without
<1>. QED
  BY <1>1, <1>2, <1>6, <1>7 DEF IInv

\* The end of the server's process is the end of the table.
LEMMA CrashKeeps ==
  ASSUME IInv, Running, Crash, UNCHANGED <<toServer, conn, lost, clientVars>>
  PROVE  IInv'
<1>1. TypeOK
  BY DEF IInv
<1>2. /\ clients' \in [Slots -> Entries(Clients) \cup {Null}] /\ Taken(clients') = {}
      /\ srv' = "crashed" /\ msg' = Null /\ poll' = NoPoll
      /\ UNCHANGED <<rounds, over, toClient>>
  BY <1>1, CrashIt
<1>3. TypeOK'
  BY <1>1, <1>2, TypeKept DEF TypeOK
<1>4. InHand'
  BY <1>2 DEF InHand
<1>5. Removal(Slots, {}, [c \in {} |-> Msg("ping", " ")])
  <2>1. Taken(clients) \subseteq Slots
    BY <1>1, TakenIn
  <2>2. Without(Slots) /\ HandDone
    BY <1>2, <2>1 DEF Without, HandDone
  <2>3. [c \in {} |-> Msg("ping", " ")] \in [{} -> ClientMessages]
    OBVIOUS
  <2>. QED
    BY <1>2, <2>2, <2>3 DEF Removal, clientVars
<1>6. ~Running' /\ srv' # srv
  BY <1>2 DEF Running
<1>. QED
  BY <1>2, <1>3, <1>4, <1>5, <1>6, RemovalStep

\* A handler in which clients leave, or nobody does.
LEMMA HandlerKeeps ==
  ASSUME IInv, Running, srv = "handle", UNCHANGED <<toServer, conn, lost, clientVars>>,
         NEW S, NEW t \in [Slots -> Entries(Clients) \cup {Null}],
         NEW D \in SUBSET Fds(Taken(clients)), NEW out \in [D -> ClientMessages],
         Finish(t, out),
         \A c \in D : Dismisses(out[c]) => \E i \in Taken(clients) \cap S : clients[i].fd = c,
         Taken(t) = Taken(clients) \ S,
         \A i \in Taken(t) : /\ t[i].fd = clients[i].fd /\ t[i].in_game = clients[i].in_game
                             /\ t[i].opponent = clients[i].opponent,
         ~Greets(msg.m), Leaves(msg.m) => \A i \in Taken(t) : t[i].fd # msg.by,
         over \/ \A i \in Taken(clients) \cap S, o \in Taken(clients) \ S : clients[i].opponent # o
  PROVE  IInv'
<1>1. TypeOK
  BY DEF IInv
<1>2. D \in SUBSET Clients
  BY <1>1, FdsIn
<1>3. \/ /\ clients' = t /\ toClient' = After(out) /\ srv' = "count" /\ poll' = poll
         /\ toClient' \in [Clients -> Seq(ClientMessages)] /\ msg' = Null
         /\ UNCHANGED <<rounds, over>>
      \/ Crash
  BY <1>1, <1>2, FinishIt
<1>4. CASE /\ clients' = t /\ toClient' = After(out) /\ srv' = "count" /\ poll' = poll
           /\ toClient' \in [Clients -> Seq(ClientMessages)] /\ msg' = Null
           /\ UNCHANGED <<rounds, over>>
  <2>1. TypeOK'
    BY <1>1, <1>4, TypeKept DEF TypeOK
  <2>2. InHand'
    BY <1>4 DEF InHand
  <2>3. Without(S) /\ HandDone
    BY <1>4 DEF Without, HandDone
  <2>4. Removal(S, D, out)
    BY <1>4, <2>3 DEF Removal, clientVars
  <2>. QED
    BY <1>4, <2>1, <2>2, <2>4, RemovalStep
<1>. QED
  BY <1>3, <1>4, CrashKeeps

\* Whoever is removed with his opponent leaves nobody behind who plays with him.
LEMMA ClosedIt ==
  ASSUME PairsUntilGameOver, Running, ~over, TypeOK, NEW P \in SUBSET Taken(clients)
  PROVE  LET S == P \cup Opponents(P) IN
         \A i \in Taken(clients) \cap S, o \in Taken(clients) \ S : clients[i].opponent # o
<1>1. SUFFICES ASSUME NEW i \in P \cup Opponents(P), NEW o \in Taken(clients) \ (P \cup Opponents(P)),
                      clients[i].opponent = o
               PROVE  FALSE
  OBVIOUS
<1>2. i \notin P
  BY <1>1 DEF Opponents
<1>3. PICK p \in P : clients[p].opponent = i
  BY <1>1, <1>2 DEF Opponents
<1>4. i \in Taken(clients) /\ i # -1 /\ o # -1
  <2>1. -1 \notin Slots
    BY DEF Slots
  <2>. QED
    BY <1>1, <2>1, TakenIn DEF Opponents
<1>5. clients[i].opponent = p
  BY <1>3, <1>4 DEF PairsUntilGameOver
<1>. QED
  BY <1>1, <1>3, <1>5

LEMMA HandlerHas ==
  ASSUME IInv, srv = "handle"
  PROVE  msg # Null /\ msg.by \in Clients /\ msg.m \in ServerMessages /\ Running /\ TypeOK
  BY MsgIn DEF IInv, InHand, Running

LEMMA OpponentsIn ==
  ASSUME TypeOK, NEW P \in SUBSET Taken(clients)
  PROVE  /\ Opponents(P) \in SUBSET Taken(clients) /\ Opponents(P) \cap P = {}
         /\ Fds(Opponents(P)) \in SUBSET Fds(Taken(clients))
         /\ \A c \in Fds(Opponents(P)) : \E i \in Opponents(P) : clients[i].fd = c
  BY DEF Opponents, Fds

\* The player who sent the message is in no other slot.
LEMMA NobodyElse ==
  ASSUME IInv, NEW i \in Players, NEW j \in Taken(clients), j # i
  PROVE  clients[j].fd # msg.by
<1>1. i \in Taken(clients) /\ Name[clients[i].fd] = Name[msg.by]
  BY PlayersIn DEF IInv
<1>. QED
  BY <1>1 DEF IInv, NamesDiffer

LEMMA MoveKeeps ==
  ASSUME IInv, move, UNCHANGED clientVars
  PROVE  IInv'
<1>1. srv = "handle" /\ msg.m.action = "move" /\ UNCHANGED <<toServer, conn, lost>>
  BY DEF move, Handles
<1>2. msg # Null /\ msg.by \in Clients /\ msg.m \in ServerMessages /\ Running /\ TypeOK
  BY <1>1, HandlerHas
<1>3. PICK i \in Players :
        \/ Finish(clients, ToAll(Fds(Opponents({i})), Msg("opponent_move", msg.m.args)))
        \/ Crash
  BY DEF move
<1>4. CASE Crash
  BY <1>1, <1>2, <1>4, CrashKeeps
<1>5. CASE Finish(clients, ToAll(Fds(Opponents({i})), Msg("opponent_move", msg.m.args)))
  <2>. DEFINE S == {}
              D == Fds(Opponents({i}))
              out == ToAll(D, Msg("opponent_move", msg.m.args))
  <2>1. D \in SUBSET Fds(Taken(clients))
    <3>1. {i} \in SUBSET Taken(clients)
      BY <1>2, PlayersIn
    <3>. QED
      BY <1>2, <3>1, OpponentsIn
  <2>2. out \in [D -> ClientMessages]
    BY <1>2 DEF ToAll, Msg, ServerMessages, ClientMessages
  <2>3. \A c \in D : Dismisses(out[c]) => \E j \in Taken(clients) \cap S : clients[j].fd = c
    BY <1>2 DEF ToAll, Msg, Dismisses, Refused, ServerMessages
  <2>4. ~Greets(msg.m) /\ (Leaves(msg.m) => \A j \in Taken(clients) : clients[j].fd # msg.by)
    BY <1>1 DEF Greets, Leaves
  <2>5. clients \in [Slots -> Entries(Clients) \cup {Null}]
    BY <1>2 DEF TypeOK
  <2>6. /\ Taken(clients) = Taken(clients) \ S
        /\ \A j \in Taken(clients) \cap S, o \in Taken(clients) \ S : clients[j].opponent # o
    OBVIOUS
  <2>7. Finish(clients, out)
    BY <1>5
  <2>. HIDE DEF S, D, out
  <2>. QED
    BY <1>1, <1>2, <2>1, <2>2, <2>3, <2>4, <2>5, <2>6, <2>7, HandlerKeeps
<1>. QED
  BY <1>3, <1>4, <1>5

LEMMA QuitKeeps ==
  ASSUME IInv, quit, UNCHANGED clientVars
  PROVE  IInv'
<1>1. srv = "handle" /\ msg.m.action = "quit" /\ UNCHANGED <<toServer, conn, lost>>
  BY DEF quit, Handles
<1>2. msg # Null /\ msg.by \in Clients /\ msg.m \in ServerMessages /\ Running /\ TypeOK
  BY <1>1, HandlerHas
<1>3. PICK i \in Players :
        \/ Finish(remove_clients({i} \cup Opponents({i})),
                  ToAll(Fds(Opponents({i})), Msg("quit", " ")))
        \/ Crash
  BY DEF quit
<1>4. CASE Crash
  BY <1>1, <1>2, <1>4, CrashKeeps
<1>5. CASE Finish(remove_clients({i} \cup Opponents({i})),
                  ToAll(Fds(Opponents({i})), Msg("quit", " ")))
  <2>. DEFINE S == {i} \cup Opponents({i})
              t == remove_clients(S)
              D == Fds(Opponents({i}))
              out == ToAll(D, Msg("quit", " "))
  <2>1. /\ D \in SUBSET Fds(Taken(clients)) /\ i \in Taken(clients)
        /\ \A c \in D : Dismisses(out[c]) => \E j \in Taken(clients) \cap S : clients[j].fd = c
    <3>1. {i} \in SUBSET Taken(clients)
      BY <1>2, PlayersIn
    <3>2. /\ Opponents({i}) \in SUBSET Taken(clients) /\ D \in SUBSET Fds(Taken(clients))
          /\ \A c \in D : \E j \in Opponents({i}) : clients[j].fd = c
      BY <1>2, <3>1, OpponentsIn
    <3>. QED
      BY <3>1, <3>2
  <2>2. out \in [D -> ClientMessages]
    BY DEF ToAll, Msg, ClientMessages
  <2>3. /\ t \in [Slots -> Entries(Clients) \cup {Null}]
        /\ Taken(t) = Taken(clients) \ S
        /\ \A j \in Taken(t) : t[j] = clients[j]
        /\ \A j \in Taken(t) : /\ t[j].fd = clients[j].fd /\ t[j].in_game = clients[j].in_game
                               /\ t[j].opponent = clients[j].opponent
    BY <1>2, RemovedType, RemovedTaken
  <2>4. Leaves(msg.m) => \A j \in Taken(t) : t[j].fd # msg.by
    <3>1. \A j \in Taken(t) : t[j] = clients[j] /\ j \in Taken(clients) /\ j # i
      BY <2>3
    <3>. QED
      BY <3>1, NobodyElse
  <2>5. ~Greets(msg.m)
    BY <1>1 DEF Greets
  <2>6. over \/ \A j \in Taken(clients) \cap S, o \in Taken(clients) \ S : clients[j].opponent # o
    BY <1>2, <2>1, ClosedIt DEF IInv
  <2>7. Finish(t, out)
    BY <1>5
  <2>. HIDE DEF S, t, D, out
  <2>. QED
    BY <1>1, <1>2, <2>1, <2>2, <2>3, <2>4, <2>5, <2>6, <2>7, HandlerKeeps
<1>. QED
  BY <1>3, <1>4, <1>5

LEMMA GameOverKeeps ==
  ASSUME IInv, game_over, UNCHANGED clientVars
  PROVE  IInv'
<1>1. srv = "handle" /\ msg.m.action = "game_over" /\ UNCHANGED <<poll, rounds, net>>
      /\ over' = TRUE /\ srv' = "count" /\ msg' = Null
  BY DEF game_over, Handles, At
<1>2. msg # Null /\ msg.by \in Clients /\ msg.m \in ServerMessages /\ Running /\ TypeOK
  BY <1>1, HandlerHas
<1>3. PICK i \in Players : clients' = remove_clients({i})
  BY DEF game_over
<1>4. /\ clients' \in [Slots -> Entries(Clients) \cup {Null}]
      /\ Taken(clients') = Taken(clients) \ {i}
      /\ \A j \in Taken(clients') : clients'[j] = clients[j]
  BY <1>2, <1>3, RemovedType, RemovedTaken
<1>5. TypeOK'
  BY <1>1, <1>2, <1>4, TypeKept DEF TypeOK, net
<1>6. InHand'
  BY <1>1 DEF InHand
<1>7. HandDone
  <2>1. \A j \in Taken(clients') : clients'[j].fd # msg.by
    BY <1>4, NobodyElse
  <2>. QED
    BY <1>1, <2>1 DEF HandDone, Greets
<1>8. Removal({i}, {}, [c \in {} |-> Msg("ping", " ")])
  <2>1. [c \in {} |-> Msg("ping", " ")] \in [{} -> ClientMessages]
    OBVIOUS
  <2>. QED
    BY <1>1, <1>4, <1>7, <2>1 DEF Removal, Without, clientVars, net
<1>. QED
  BY <1>1, <1>2, <1>5, <1>6, <1>8, RemovalStep

LEMMA PingAnswerKeeps ==
  ASSUME IInv, ping_answer, UNCHANGED clientVars
  PROVE  IInv'
<1>1. srv = "handle" /\ msg.m.action = "ping" /\ UNCHANGED <<toServer, conn, lost>>
  BY DEF ping_answer, Handles
<1>2. msg # Null /\ msg.by \in Clients /\ msg.m \in ServerMessages /\ Running /\ TypeOK
  BY <1>1, HandlerHas
<1>3. PICK i \in Players : Finish([clients EXCEPT ![i].online = TRUE], <<>>)
  BY DEF ping_answer
<1>. DEFINE t == [clients EXCEPT ![i].online = TRUE]
<1>4. /\ t \in [Slots -> Entries(Clients) \cup {Null}] /\ Taken(t) = Taken(clients)
      /\ \A j \in Taken(t) : /\ t[j].fd = clients[j].fd /\ t[j].in_game = clients[j].in_game
                             /\ t[j].opponent = clients[j].opponent
  <2>1. /\ i \in Slots /\ clients[i] \in Entries(Clients)
        /\ clients \in [Slots -> Entries(Clients) \cup {Null}]
        /\ Null \notin Entries(Clients)
    BY <1>2, PlayersIn, EntryType, GameAssumption DEF ServerAssumption, TypeOK
  <2>2. LET e == [clients[i] EXCEPT !.online = TRUE] IN
        /\ e \in Entries(Clients) /\ e.fd = clients[i].fd /\ e.in_game = clients[i].in_game
        /\ e.opponent = clients[i].opponent
    BY <2>1 DEF Entries
  <2>3. /\ t[i] = [clients[i] EXCEPT !.online = TRUE]
        /\ \A j \in Slots \ {i} : t[j] = clients[j]
        /\ DOMAIN t = Slots /\ t = [j \in Slots |-> t[j]]
    BY <2>1
  <2>. HIDE DEF t
  <2>4. t \in [Slots -> Entries(Clients) \cup {Null}]
    BY <2>1, <2>2, <2>3
  <2>5. Taken(t) = Taken(clients)
    BY <2>1, <2>2, <2>3 DEF Taken
  <2>6. \A j \in Taken(t) : j \in Slots
    BY <2>4 DEF Taken
  <2>. QED
    BY <2>2, <2>3, <2>4, <2>5, <2>6
<1>5. /\ {} \in SUBSET Fds(Taken(clients)) /\ <<>> \in [{} -> ClientMessages]
      /\ ~Greets(msg.m) /\ ~Leaves(msg.m)
  BY <1>1 DEF Greets, Leaves
<1>6. Finish(t, <<>>)
  BY <1>3
<1>. HIDE DEF t
<1>. QED
  BY <1>1, <1>2, <1>4, <1>5, <1>6, HandlerKeeps

LEMMA UnknownSenderKeeps ==
  ASSUME IInv, UnknownSender, UNCHANGED clientVars
  PROVE  IInv'
<1>1. Running
  BY DEF UnknownSender, Running
<1>. QED
  BY <1>1, CrashKeeps DEF UnknownSender

----------------------------------------------------------------------------
(* A name is refused, or enters the table alone, or into a game. *)

Refusals == {"username_in_use", "no_free_slot"}

LEMMA RefuseKeeps ==
  ASSUME IInv, Handles("initialization"), NEW why \in Refusals, Refuse(msg.by, why),
         UNCHANGED <<toServer, conn, lost, clientVars>>
  PROVE  IInv'
<1>1. srv = "handle" /\ Greets(msg.m)
  BY DEF Handles, Greets
<1>2. msg # Null /\ msg.by \in Clients /\ Running /\ TypeOK
  BY <1>1, HandlerHas
<1>. DEFINE D == {msg.by}
            out == ToAll(D, Msg("initialization", why))
<1>3. D \in SUBSET Clients /\ out \in [D -> ClientMessages] /\ Finish(clients, out)
  BY <1>2 DEF ToAll, Msg, ClientMessages, Refusals, Refuse
<1>. HIDE DEF out
<1>4. clients \in [Slots -> Entries(Clients) \cup {Null}]
  BY <1>2 DEF TypeOK
<1>5. CASE Crash
  BY <1>2, <1>5, CrashKeeps
<1>6. CASE ~Crash
  <2>1. /\ clients' = clients /\ toClient' = After(out) /\ srv' = "count" /\ poll' = poll
        /\ toClient' \in [Clients -> Seq(ClientMessages)] /\ msg' = Null
        /\ UNCHANGED <<rounds, over>>
    BY <1>2, <1>3, <1>4, <1>6, FinishIt
  <2>2. TypeOK'
    BY <1>2, <1>4, <2>1, TypeKept DEF TypeOK
  <2>3. InHand' /\ PollInBounds' /\ Collected'
    BY <2>1 DEF InHand, PollInBounds, Collected
  <2>4. NamesDiffer' /\ OneWaits' /\ PairsUntilGameOver'
    BY <1>2, <2>1, SameTable
  <2>5. ASSUME NEW c \in Clients PROVE ClientInv(c)'
    BY <1>1, <1>2, <1>3, <2>1, EnterKeeps DEF clientVars
  <2>. QED
    BY <2>2, <2>3, <2>4, <2>5 DEF IInv
<1>. QED
  BY <1>5, <1>6

\* What both ways into the table have in common: slot i is taken, and t is the table after.
LEMMA EnterTable ==
  ASSUME IInv, Handles("initialization"), find_by_name(Name[msg.by]) = {},
         UNCHANGED <<toServer, conn, lost, clientVars>>,
         NEW i \in Slots \ Taken(clients), NEW t \in [Slots -> Entries(Clients) \cup {Null}],
         Taken(t) = Taken(clients) \cup {i}, t[i].fd = msg.by,
         \A j \in Taken(clients) : t[j].fd = clients[j].fd,
         \A j, k \in Taken(t) : ~t[j].in_game /\ ~t[k].in_game => j = k,
         ~over => \A j \in Taken(t) :
                    LET o == t[j].opponent IN
                    o # -1 => t[j].in_game /\ o \in Taken(t) \ {j} /\ t[o].opponent = j,
         NEW D \in SUBSET Fds(Taken(clients)) \cup {msg.by},
         NEW out \in [D -> ClientMessages], \A d \in D : ~Dismisses(out[d]), Finish(t, out)
  PROVE  IInv'
<1>1. srv = "handle" /\ Greets(msg.m)
  BY DEF Handles, Greets
<1>2. msg # Null /\ msg.by \in Clients /\ Running /\ TypeOK
  BY <1>1, HandlerHas
<1>3. D \in SUBSET Clients
  <2>1. Fds(Taken(clients)) \in SUBSET Clients
    BY <1>2, FdsIn
  <2>. QED
    BY <1>2, <2>1
<1>4. CASE Crash
  BY <1>2, <1>4, CrashKeeps
<1>5. CASE ~Crash
  <2>1. /\ clients' = t /\ toClient' = After(out) /\ srv' = "count" /\ poll' = poll
        /\ toClient' \in [Clients -> Seq(ClientMessages)] /\ msg' = Null
        /\ UNCHANGED <<rounds, over>>
    BY <1>2, <1>3, <1>5, FinishIt
  <2>2. TypeOK'
    BY <1>2, <2>1, TypeKept DEF TypeOK
  <2>3. InHand' /\ PollInBounds' /\ Collected'
    BY <2>1 DEF InHand, PollInBounds, Collected
  <2>4. NamesDiffer'
    <3>1. \A j \in Taken(clients) : Name[clients[j].fd] # Name[msg.by]
      BY DEF find_by_name
    <3>2. \A j, k \in Taken(t) : j # k => Name[t[j].fd] # Name[t[k].fd]
      BY <3>1 DEF IInv, NamesDiffer
    <3>. QED
      BY <2>1, <3>2 DEF NamesDiffer
  <2>5. OneWaits'
    BY <2>1 DEF OneWaits
  <2>6. PairsUntilGameOver'
    BY <2>1 DEF PairsUntilGameOver
  <2>7. \A d \in Clients : InTable(d)' <=> InTable(d) \/ d = msg.by
    <3>1. \A d \in Clients : (\E j \in Taken(t) : t[j].fd = d) <=>
                             (\E j \in Taken(clients) : clients[j].fd = d) \/ d = msg.by
      OBVIOUS
    <3>. QED
      BY <2>1, <3>1 DEF InTable
  <2>8. \A d \in D : (InTable(d) \/ d = msg.by) /\ ~Dismisses(out[d])
    BY DEF InTable, Fds
  <2>9. ASSUME NEW c \in Clients PROVE ClientInv(c)'
    BY <1>1, <1>2, <1>3, <2>1, <2>7, <2>8, EnterKeeps DEF clientVars
  <2>. QED
    BY <2>2, <2>3, <2>4, <2>5, <2>6, <2>9 DEF IInv
<1>. QED
  BY <1>4, <1>5

\* The one who comes waits, and nobody else does.
LEMMA WaitKeeps ==
  ASSUME IInv, Handles("initialization"), find_by_name(Name[msg.by]) = {},
         UNCHANGED <<toServer, conn, lost, clientVars>>,
         NEW i \in find_free_slot, find_opponent(Entered(i, msg.by), i) = {},
         Finish(Entered(i, msg.by), ToAll({msg.by}, Msg("initialization", "no_enemy_found")))
  PROVE  IInv'
<1>1. srv = "handle"
  BY DEF Handles
<1>2. msg # Null /\ msg.by \in Clients /\ Running /\ TypeOK
  BY <1>1, HandlerHas
<1>. DEFINE t == Entered(i, msg.by)
            out == ToAll({msg.by}, Msg("initialization", "no_enemy_found"))
<1>3. /\ t \in [Slots -> Entries(Clients) \cup {Null}]
      /\ i \in Slots \ Taken(clients) /\ Taken(t) = Taken(clients) \cup {i}
      /\ t[i].fd = msg.by /\ ~t[i].in_game /\ t[i].opponent = -1
      /\ \A j \in Taken(clients) : t[j] = clients[j]
  BY <1>2, EnteredIt
<1>4. {msg.by} \in SUBSET Fds(Taken(clients)) \cup {msg.by}
      /\ out \in [{msg.by} -> ClientMessages] /\ \A d \in {msg.by} : ~Dismisses(out[d])
  BY DEF ToAll, Msg, ClientMessages, Dismisses, Refused
<1>5. \A j \in Taken(t) \ {i} : t[j].in_game
  BY DEF find_opponent
<1>6. Finish(t, out)
  OBVIOUS
<1>. HIDE DEF t, out
<1>7. \A j, k \in Taken(t) : ~t[j].in_game /\ ~t[k].in_game => j = k
  BY <1>5
<1>8. ASSUME ~over, NEW j \in Taken(t), t[j].opponent # -1
      PROVE  /\ t[j].in_game /\ t[j].opponent \in Taken(t) \ {j}
             /\ t[t[j].opponent].opponent = j
  <2>1. j \in Taken(clients) /\ t[j] = clients[j]
    BY <1>3, <1>8
  <2>2. LET o == clients[j].opponent IN
        clients[j].in_game /\ o \in Taken(clients) \ {j} /\ clients[o].opponent = j
    BY <1>2, <1>8, <2>1 DEF IInv, PairsUntilGameOver
  <2>. QED
    BY <1>3, <2>1, <2>2
<1>. QED
  BY <1>3, <1>4, <1>6, <1>7, <1>8, EnterTable

\* The one who comes plays with whoever was waiting.
LEMMA PairKeeps ==
  ASSUME IInv, Handles("initialization"), find_by_name(Name[msg.by]) = {},
         UNCHANGED <<toServer, conn, lost, clientVars>>,
         NEW i \in find_free_slot, NEW o \in Lowest(find_opponent(Entered(i, msg.by), i)),
         NEW first,
         Finish(Pair(Entered(i, msg.by), i, o),
                [x \in {msg.by, Entered(i, msg.by)[o].fd} |->
                   Msg("initialization", IF x = first THEN "O" ELSE "X")])
  PROVE  IInv'
<1>1. srv = "handle"
  BY DEF Handles
<1>2. msg # Null /\ msg.by \in Clients /\ Running /\ TypeOK
  BY <1>1, HandlerHas
<1>. DEFINE t == Entered(i, msg.by)
            u == Pair(t, i, o)
            D == {msg.by, t[o].fd}
            out == [x \in D |-> Msg("initialization", IF x = first THEN "O" ELSE "X")]
<1>3. /\ t \in [Slots -> Entries(Clients) \cup {Null}]
      /\ i \in Slots \ Taken(clients) /\ Taken(t) = Taken(clients) \cup {i}
      /\ t[i].fd = msg.by /\ ~t[i].in_game /\ t[i].opponent = -1
      /\ \A j \in Taken(clients) : t[j] = clients[j]
  BY <1>2, EnteredIt
<1>4. o \in Taken(t) \ {i} /\ ~t[o].in_game
  BY DEF Lowest, find_opponent
<1>5. o \in Taken(clients) /\ t[o] = clients[o] /\ ~clients[o].in_game /\ i \in Taken(t) /\ o # i
  BY <1>3, <1>4
<1>6. Finish(u, out)
  OBVIOUS
<1>7. out \in [D -> ClientMessages] /\ \A d \in D : ~Dismisses(out[d])
  BY DEF Msg, ClientMessages, Dismisses, Refused
<1>. HIDE DEF t
<1>8. /\ u \in [Slots -> Entries(Clients) \cup {Null}] /\ Taken(u) = Taken(t)
      /\ \A j \in Taken(t) \ {i, o} : u[j] = t[j]
      /\ u[i].fd = t[i].fd /\ u[i].in_game /\ u[i].opponent = o
      /\ u[o].fd = t[o].fd /\ u[o].in_game /\ u[o].opponent = i
  BY <1>3, <1>5, PairIt
<1>9. D \in SUBSET Fds(Taken(clients)) \cup {msg.by}
  BY <1>5 DEF Fds
<1>. HIDE DEF u, D, out
<1>10. Taken(u) = Taken(clients) \cup {i} /\ u[i].fd = msg.by
       /\ \A j \in Taken(clients) : u[j].fd = clients[j].fd
  <2>1. ASSUME NEW j \in Taken(clients) PROVE u[j].fd = clients[j].fd
    <3>1. CASE j = o
      BY <3>1, <1>5, <1>8
    <3>2. CASE j # o
      BY <3>2, <1>3, <1>8
    <3>. QED
      BY <3>1, <3>2
  <2>. QED
    BY <2>1, <1>3, <1>8
<1>11. \A j \in Taken(u) : u[j].in_game
  <2>1. ASSUME NEW j \in Taken(u), j # i, j # o PROVE u[j].in_game
    <3>1. j \in Taken(clients) /\ u[j] = clients[j]
      BY <1>3, <1>8, <2>1
    <3>. QED
      BY <1>5, <2>1, <3>1 DEF IInv, OneWaits
  <2>. QED
    BY <2>1, <1>8
<1>12. ASSUME ~over, NEW j \in Taken(u), u[j].opponent # -1
       PROVE  /\ u[j].in_game /\ u[j].opponent \in Taken(u) \ {j}
              /\ u[u[j].opponent].opponent = j
  <2>1. CASE j = i \/ j = o
    BY <2>1, <1>3, <1>5, <1>8
  <2>2. CASE j # i /\ j # o
    <3>1. j \in Taken(clients) /\ u[j] = clients[j]
      BY <1>3, <1>8, <1>12, <2>2
    <3>2. LET p == clients[j].opponent IN
          clients[j].in_game /\ p \in Taken(clients) \ {j} /\ clients[p].opponent = j
      BY <1>2, <1>12, <3>1 DEF IInv, PairsUntilGameOver
    <3>3. clients[j].opponent # o
      <4>1. SUFFICES ASSUME clients[o].opponent = j PROVE FALSE
        BY <3>2
      <4>2. j # -1
        <5>1. -1 \notin Slots
          BY DEF Slots
        <5>. QED
          BY <5>1, <3>1, <1>2, TakenIn
      <4>. QED
        BY <4>1, <4>2, <1>2, <1>5, <1>12 DEF IInv, PairsUntilGameOver
    <3>4. u[clients[j].opponent] = clients[clients[j].opponent]
      BY <1>3, <1>8, <3>2, <3>3
    <3>. QED
      BY <3>1, <3>2, <3>4, <1>10
  <2>. QED
    BY <2>1, <2>2
<1>13. /\ t[i].fd = msg.by /\ i \in Slots \ Taken(clients) /\ u[i].fd = msg.by
       /\ \A j, k \in Taken(u) : ~u[j].in_game /\ ~u[k].in_game => j = k
       /\ ~over => \A j \in Taken(u) :
                     u[j].opponent # -1 =>
                       /\ u[j].in_game /\ u[j].opponent \in Taken(u) \ {j}
                       /\ u[u[j].opponent].opponent = j
  BY <1>3, <1>10, <1>11, <1>12
<1>. HIDE DEF t
<1>. QED
  BY <1>6, <1>7, <1>8, <1>9, <1>10, <1>13, EnterTable, SMTT(30)

LEMMA initializationKeeps ==
  ASSUME IInv, initialization, UNCHANGED clientVars
  PROVE  IInv'
<1>. DEFINE c == msg.by
<1>1. Handles("initialization") /\ UNCHANGED <<toServer, conn, lost, clientVars>>
  BY DEF initialization
<1>2. CASE Refuse(c, "username_in_use") \/ Refuse(c, "no_free_slot")
  BY <1>1, <1>2, RefuseKeeps DEF Refusals
<1>3. ASSUME find_by_name(Name[c]) = {}, NEW i \in find_free_slot,
             find_opponent(Entered(i, c), i) = {},
             Finish(Entered(i, c), ToAll({c}, Msg("initialization", "no_enemy_found")))
      PROVE  IInv'
  BY <1>1, <1>3, WaitKeeps
<1>4. ASSUME find_by_name(Name[c]) = {}, NEW i \in find_free_slot,
             NEW o \in Lowest(find_opponent(Entered(i, c), i)), NEW first,
             Finish(Pair(Entered(i, c), i, o),
                    [x \in {c, Entered(i, c)[o].fd} |->
                       Msg("initialization", IF x = first THEN "O" ELSE "X")])
      PROVE  IInv'
  BY <1>1, <1>4, PairKeeps
<1>5. Lowest(find_free_slot) \subseteq find_free_slot
  BY DEF Lowest
<1>6. CASE /\ find_by_name(Name[c]) = {}
           /\ \E i \in Lowest(find_free_slot) :
                LET t == Entered(i, c) IN
                \/ /\ find_opponent(t, i) = {}
                   /\ Finish(t, ToAll({c}, Msg("initialization", "no_enemy_found")))
                \/ \E o \in Lowest(find_opponent(t, i)) :
                     \E first \in {c, t[o].fd} :
                       Finish(Pair(t, i, o),
                              [x \in {c, t[o].fd} |->
                                 Msg("initialization", IF x = first THEN "O" ELSE "X")])
  <2>1. PICK i \in find_free_slot :
          \/ /\ find_opponent(Entered(i, c), i) = {}
             /\ Finish(Entered(i, c), ToAll({c}, Msg("initialization", "no_enemy_found")))
          \/ \E o \in Lowest(find_opponent(Entered(i, c), i)) :
               \E first \in {c, Entered(i, c)[o].fd} :
                 Finish(Pair(Entered(i, c), i, o),
                        [x \in {c, Entered(i, c)[o].fd} |->
                           Msg("initialization", IF x = first THEN "O" ELSE "X")])
    BY <1>5, <1>6
  <2>2. find_by_name(Name[c]) = {}
    BY <1>6
  <2>. HIDE DEF c
  <2>3. CASE /\ find_opponent(Entered(i, c), i) = {}
             /\ Finish(Entered(i, c), ToAll({c}, Msg("initialization", "no_enemy_found")))
    BY <1>3, <2>2, <2>3
  <2>4. CASE \E o \in Lowest(find_opponent(Entered(i, c), i)) :
               \E first \in {c, Entered(i, c)[o].fd} :
                 Finish(Pair(Entered(i, c), i, o),
                        [x \in {c, Entered(i, c)[o].fd} |->
                           Msg("initialization", IF x = first THEN "O" ELSE "X")])
    <3>1. PICK o \in Lowest(find_opponent(Entered(i, c), i)) :
            \E first \in {c, Entered(i, c)[o].fd} :
              Finish(Pair(Entered(i, c), i, o),
                     [x \in {c, Entered(i, c)[o].fd} |->
                        Msg("initialization", IF x = first THEN "O" ELSE "X")])
      BY <2>4
    <3>2. PICK first \in {c, Entered(i, c)[o].fd} :
            Finish(Pair(Entered(i, c), i, o),
                   [x \in {c, Entered(i, c)[o].fd} |->
                      Msg("initialization", IF x = first THEN "O" ELSE "X")])
      BY <3>1
    <3>. QED
      BY <1>4, <2>2, <3>2
  <2>. QED
    BY <2>1, <2>3, <2>4
<1>. QED
  BY <1>2, <1>6 DEF initialization

----------------------------------------------------------------------------
(* get_client_descriptor, pings and SIGINT. *)

\* What only concerns the array that is polled.
LEMMA PollKeeps ==
  ASSUME IInv, Running, UNCHANGED <<clients, msg, rounds, over, net, clientVars>>,
         poll' \in [alloc : 0 .. MAX_NO_CLIENTS + 2, fds : Seq(Clients)],
         srv # "handle", srv' \in {"count", "collect", "place", "poll"},
         PollInBounds', Collected'
  PROVE  IInv'
<1>1. TypeOK'
  BY DEF IInv, TypeOK, net, clientVars
<1>2. InHand'
  BY DEF IInv, InHand
<1>3. NamesDiffer' /\ OneWaits' /\ PairsUntilGameOver'
  BY SameTable
<1>4. ASSUME NEW c \in Clients PROVE ClientInv(c)'
  <2>1. Hand(c)' = Hand(c) /\ (InTable(c)' <=> InTable(c)) /\ ClientInv(c)
    BY DEF Hand, InTable, IInv
  <2>. QED
    BY <2>1, UntouchedKeeps DEF net, clientVars
<1>. QED
  BY <1>1, <1>2, <1>3, <1>4 DEF IInv

LEMMA CountFdsKeeps ==
  ASSUME IInv, CountFds, UNCHANGED clientVars
  PROVE  IInv'
<1>1. /\ srv = "count" /\ srv' = "collect" /\ UNCHANGED <<clients, msg, rounds, over, net>>
      /\ poll' = [alloc |-> no_connected_clients + 2, fds |-> <<>>]
  BY DEF CountFds, At
<1>2. no_connected_clients \in 0 .. MAX_NO_CLIENTS /\ MAX_NO_CLIENTS \in Nat
  BY TakenFinite, GameAssumption DEF IInv, ServerAssumption
<1>3. poll' \in [alloc : 0 .. MAX_NO_CLIENTS + 2, fds : Seq(Clients)]
  BY <1>1, <1>2
<1>4. no_connected_clients' = no_connected_clients
  BY <1>1 DEF no_connected_clients
<1>5. PollInBounds' /\ Collected'
  BY <1>1, <1>2, <1>4 DEF PollInBounds, Collected
<1>. QED
  BY <1>1, <1>3, <1>5, PollKeeps DEF Running

LEMMA CollectFdsKeeps ==
  ASSUME IInv, CollectFds, UNCHANGED clientVars
  PROVE  IInv'
<1>1. srv = "collect" /\ srv' = "place" /\ UNCHANGED <<clients, msg, rounds, over, net>>
  BY DEF CollectFds, At
<1>2. TypeOK /\ no_connected_clients \in 0 .. MAX_NO_CLIENTS /\ MAX_NO_CLIENTS \in Nat
  BY TakenFinite, GameAssumption DEF IInv, ServerAssumption
<1>3. PICK s \in [1 .. no_connected_clients -> Taken(clients)] :
        poll' = [poll EXCEPT !.fds = [k \in DOMAIN s |-> clients[s[k]].fd]]
  BY DEF CollectFds, InOrder, no_connected_clients
<1>. DEFINE q == [k \in DOMAIN s |-> clients[s[k]].fd]
<1>4. q \in Seq(Clients) /\ Len(q) = no_connected_clients
  <2>1. \A k \in DOMAIN s : clients[s[k]].fd \in Clients
    BY <1>2, <1>3, EntryType DEF Entries
  <2>2. DOMAIN s = 1 .. no_connected_clients
    BY <1>3
  <2>3. q \in [1 .. no_connected_clients -> Clients]
    BY <2>1, <2>2
  <2>. QED
    BY <1>2, <2>3
<1>5. poll' = [poll EXCEPT !.fds = q]
  BY <1>3
<1>. HIDE DEF q
<1>6. /\ poll' \in [alloc : 0 .. MAX_NO_CLIENTS + 2, fds : Seq(Clients)]
      /\ poll'.fds = q /\ poll'.alloc = poll.alloc /\ poll.alloc \in Nat
  <2>1. poll \in [alloc : 0 .. MAX_NO_CLIENTS + 2, fds : Seq(Clients)]
    BY <1>2 DEF TypeOK
  <2>. QED
    BY <2>1, <1>2, <1>4, <1>5
<1>7. no_connected_clients' = no_connected_clients
  BY <1>1 DEF no_connected_clients
<1>8. no_connected_clients + 2 <= poll.alloc
  BY <1>1 DEF IInv, PollInBounds
<1>9. PollInBounds' /\ Collected'
  BY <1>1, <1>2, <1>4, <1>6, <1>7, <1>8 DEF PollInBounds, Collected
<1>. QED
  BY <1>1, <1>6, <1>9, PollKeeps DEF Running

LEMMA PlaceSocketsKeeps ==
  ASSUME IInv, PlaceSockets, UNCHANGED clientVars
  PROVE  IInv'
<1>1. /\ srv = "place" /\ srv' = "poll" /\ UNCHANGED <<clients, msg, rounds, over, net>>
      /\ poll' = [poll EXCEPT !.fds = SubSeq(poll.fds, 1, no_connected_clients)]
  BY DEF PlaceSockets, At
<1>2. TypeOK /\ no_connected_clients \in 0 .. MAX_NO_CLIENTS /\ MAX_NO_CLIENTS \in Nat
  BY TakenFinite, GameAssumption DEF IInv, ServerAssumption
<1>3. /\ no_connected_clients <= Len(poll.fds) /\ Len(poll.fds) <= poll.alloc
      /\ no_connected_clients + 2 <= poll.alloc
  BY <1>1 DEF IInv, Collected, PollInBounds
<1>4. poll.fds \in Seq(Clients) /\ poll.alloc \in 0 .. MAX_NO_CLIENTS + 2
      /\ poll \in [alloc : 0 .. MAX_NO_CLIENTS + 2, fds : Seq(Clients)]
  BY <1>2 DEF TypeOK
<1>. DEFINE q == SubSeq(poll.fds, 1, no_connected_clients)
<1>5. q \in Seq(Clients) /\ Len(q) = no_connected_clients
  BY <1>2, <1>3, <1>4
<1>6. poll' = [poll EXCEPT !.fds = q]
  BY <1>1
<1>. HIDE DEF q
<1>7. /\ poll' \in [alloc : 0 .. MAX_NO_CLIENTS + 2, fds : Seq(Clients)]
      /\ poll'.fds = q /\ poll'.alloc = poll.alloc /\ poll.alloc \in Nat
  BY <1>2, <1>4, <1>5, <1>6
<1>8. no_connected_clients' = no_connected_clients
  BY <1>1 DEF no_connected_clients
<1>9. PollInBounds' /\ Collected'
  BY <1>1, <1>2, <1>3, <1>5, <1>7, <1>8 DEF PollInBounds, Collected
<1>. QED
  BY <1>1, <1>7, <1>9, PollKeeps DEF Running

LEMMA StaleBufferKeeps ==
  ASSUME IInv, srv # "handle", Running, StaleBuffer, UNCHANGED clientVars
  PROVE  IInv'
<1>1. CASE Crash
  BY <1>1, CrashKeeps DEF StaleBuffer
<1>2. CASE /\ srv' = "count" /\ poll' = NoPoll
           /\ UNCHANGED <<clients, msg, rounds, over, toClient, toServer, conn, lost>>
  <2>1. NoPoll \in [alloc : 0 .. MAX_NO_CLIENTS + 2, fds : Seq(Clients)]
    BY GameAssumption DEF NoPoll, ServerAssumption
  <2>2. PollInBounds' /\ Collected'
    BY <1>2 DEF PollInBounds, Collected
  <2>. QED
    BY <1>2, <2>1, <2>2, PollKeeps DEF net
<1>. QED
  BY <1>1, <1>2 DEF StaleBuffer, At

LEMMA ReceiptKeeps ==
  ASSUME IInv, srv # "handle", Running, UNCHANGED clientVars,
         NEW b \in Clients, toServer[b] # <<>>, Receive(b)
  PROVE  IInv'
<1>1. TypeOK /\ msg = Null
  BY DEF IInv, InHand
<1>2. /\ toServer' \in [Clients -> Seq(ServerMessages)]
      /\ msg' = [m |-> Head(toServer[b]), by |-> b] /\ Head(toServer[b]) \in ServerMessages
      /\ srv' = "handle" /\ poll' = NoPoll
      /\ UNCHANGED <<clients, rounds, over, toClient, conn, lost>>
  BY <1>1, ReceiveIt
<1>3. msg' \in [m : ServerMessages, by : Clients] /\ msg' # Null
  BY <1>2, GameAssumption DEF ServerAssumption
<1>4. NoPoll \in [alloc : 0 .. MAX_NO_CLIENTS + 2, fds : Seq(Clients)]
  BY GameAssumption DEF NoPoll, ServerAssumption
<1>5. TypeOK'
  BY <1>1, <1>2, <1>3, <1>4 DEF TypeOK, clientVars
<1>6. InHand' /\ PollInBounds' /\ Collected'
  BY <1>2, <1>3 DEF InHand, PollInBounds, Collected
<1>7. NamesDiffer' /\ OneWaits' /\ PairsUntilGameOver'
  BY <1>2, SameTable
<1>8. \A c \in Clients : ClientInv(c)'
  BY <1>1, ReceiveKeeps
<1>. QED
  BY <1>5, <1>6, <1>7, <1>8 DEF IInv

LEMMA get_client_descriptorKeeps ==
  ASSUME IInv, Running, get_client_descriptor, UNCHANGED clientVars
  PROVE  IInv'
<1>1. Connecting \subseteq {c \in Clients : toServer[c] # <<>>}
  BY DEF Connecting
<1>2. CASE Scan
  <2>1. \A k \in DOMAIN poll.fds : poll.fds[k] \in Clients
    BY DEF IInv, TypeOK
  <2>. QED
    BY <1>1, <1>2, <2>1, ReceiptKeeps DEF Scan
<1>3. CASE EndOfStream
  BY <1>3, StaleBufferKeeps DEF EndOfStream
<1>4. CASE ScanEndsEarly
  BY <1>4, ReceiptKeeps, StaleBufferKeeps DEF ScanEndsEarly
<1>5. CASE ReceiveFrom
  BY <1>5, ReceiptKeeps DEF ReceiveFrom
<1>. QED
  BY <1>2, <1>3, <1>4, <1>5, CountFdsKeeps, CollectFdsKeeps, PlaceSocketsKeeps
     DEF get_client_descriptor

LEMMA PingKeeps ==
  ASSUME IInv, Running, ping, UNCHANGED clientVars
  PROVE  IInv'
<1>1. TypeOK /\ rounds < MaxPings /\ UNCHANGED <<toServer, conn, lost>>
  BY DEF IInv, ping
<1>2. CASE Crash
  BY <1>1, <1>2, CrashKeeps
<1>3. CASE ~Crash
  <2>1. PICK P \in SUBSET Slots :
          /\ remove_offline_clients(P)
          /\ LET told == Opponents(P)
                 rest == Taken(clients) \ P
                 out  == [c \in Fds(rest) |-> IF c \in Fds(told) THEN Msg("quit", " ")
                                             ELSE Msg("ping", " ")]
             IN  /\ clients' = Pinged(remove_clients(P \cup told))
                 /\ Deliver(out)
                 /\ rounds' = rounds + 1
                 /\ UNCHANGED <<srv, poll, msg, over>>
    BY <1>3 DEF ping
  <2>. DEFINE S == P \cup Opponents(P)
              D == Fds(Taken(clients) \ P)
              out == [c \in D |-> IF c \in Fds(Opponents(P)) THEN Msg("quit", " ")
                                 ELSE Msg("ping", " ")]
  <2>2. P \in SUBSET Taken(clients)
    BY <2>1, <1>1 DEF remove_offline_clients, Offline, Taken, TypeOK
  <2>3. /\ clients' \in [Slots -> Entries(Clients) \cup {Null}]
        /\ Taken(clients') = Taken(clients) \ S
        /\ \A i \in Taken(clients) \ S :
             /\ clients'[i].fd = clients[i].fd /\ clients'[i].in_game = clients[i].in_game
             /\ clients'[i].opponent = clients[i].opponent
    <3>1. clients' = Pinged(remove_clients(S))
      BY <2>1
    <3>. HIDE DEF S
    <3>. QED
      BY <1>1, <3>1, PingedTaken
  <2>4. D \in SUBSET Fds(Taken(clients)) /\ D \in SUBSET Clients
    BY <1>1, FdsIn DEF Fds
  <2>5. out \in [D -> ClientMessages]
    BY DEF Msg, ClientMessages
  <2>6. \A c \in D : Dismisses(out[c]) => \E i \in Taken(clients) \cap S : clients[i].fd = c
    <3>1. \A c \in D : Dismisses(out[c]) => c \in Fds(Opponents(P))
      BY DEF Msg, Dismisses, Refused
    <3>2. \A c \in Fds(Opponents(P)) : \E i \in Opponents(P) : clients[i].fd = c
      BY DEF Fds
    <3>3. Opponents(P) \subseteq Taken(clients) \cap S
      BY DEF Opponents
    <3>. QED
      BY <3>1, <3>2, <3>3
  <2>7. toClient' = After(out) /\ rounds' = rounds + 1 /\ UNCHANGED <<srv, poll, msg, over>>
    BY <2>1 DEF Deliver
  <2>8. over \/ \A i \in Taken(clients) \cap S, o \in Taken(clients) \ S : clients[i].opponent # o
    BY <1>1, <2>2, ClosedIt DEF IInv
  <2>. HIDE DEF S, D, out
  <2>9. Removal(S, D, out)
    BY <1>1, <2>3, <2>4, <2>5, <2>6, <2>7 DEF Removal, Without, HandDone, clientVars
  <2>10. TypeOK'
    <3>1. toClient' \in [Clients -> Seq(ClientMessages)]
      BY <1>1, <2>4, <2>5, <2>7, AfterIt
    <3>2. rounds' \in 0 .. MaxPings
      <4>1. rounds \in 0 .. MaxPings /\ MaxPings \in Nat
        BY <1>1, GameAssumption DEF TypeOK, ServerAssumption
      <4>. QED
        BY <1>1, <2>7, <4>1
    <3>. QED
      BY <1>1, <2>3, <2>7, <3>1, <3>2, TypeKept DEF TypeOK
  <2>11. InHand'
    BY <2>7 DEF IInv, InHand
  <2>. QED
    BY <2>7, <2>8, <2>9, <2>10, <2>11, RemovalStep
<1>. QED
  BY <1>2, <1>3

LEMMA close_serverKeeps ==
  ASSUME IInv, Running, close_server, UNCHANGED clientVars
  PROVE  IInv'
<1>1. TypeOK /\ UNCHANGED <<toServer, conn, lost>>
  BY DEF IInv, close_server
<1>2. CASE Crash
  BY <1>1, <1>2, CrashKeeps
<1>3. CASE ~Crash
  <2>. DEFINE D == Fds(Taken(clients))
              out == ToAll(D, Msg("quit", " "))
  <2>1. /\ clients' = remove_clients(Slots) /\ toClient' = After(out)
        /\ srv' = "exited" /\ poll' = NoPoll /\ msg' = Null /\ UNCHANGED <<rounds, over>>
    BY <1>3 DEF close_server, Deliver, At
  <2>2. Taken(clients) \subseteq Slots /\ D \in SUBSET Clients
    BY <1>1, TakenIn, FdsIn
  <2>3. /\ clients' \in [Slots -> Entries(Clients) \cup {Null}]
        /\ Taken(clients') = {} /\ Taken(clients') = Taken(clients) \ Slots
    BY <1>1, <2>1, <2>2, RemovedType, RemovedTaken
  <2>4. out \in [D -> ClientMessages]
    BY DEF ToAll, Msg, ClientMessages
  <2>5. \A c \in D : \E i \in Taken(clients) \cap Slots : clients[i].fd = c
    BY <2>2 DEF Fds
  <2>. HIDE DEF D, out
  <2>6. Removal(Slots, D, out)
    <3>1. Without(Slots) /\ HandDone
      BY <2>1, <2>3 DEF Without, HandDone
    <3>2. D \in SUBSET Fds(Taken(clients))
      BY DEF D
    <3>. QED
      BY <1>1, <2>1, <2>4, <2>5, <3>1, <3>2 DEF Removal, clientVars
  <2>7. TypeOK'
    <3>1. toClient' \in [Clients -> Seq(ClientMessages)]
      BY <1>1, <2>1, <2>2, <2>4, AfterIt
    <3>. QED
      BY <1>1, <2>1, <2>3, <3>1, TypeKept DEF TypeOK
  <2>8. InHand' /\ ~Running' /\ srv' # srv
    BY <2>1 DEF InHand, Running
  <2>. QED
    BY <2>1, <2>6, <2>7, <2>8, RemovalStep
<1>. QED
  BY <1>2, <1>3

----------------------------------------------------------------------------
(* The theorems. *)

LEMMA LoseStep ==
  ASSUME IInv, Running, Lose, UNCHANGED <<serverVars, clientVars>>
  PROVE  IInv'
<1>1. TypeOK
  BY DEF IInv
<1>2. /\ toServer' \in [Clients -> Seq(ServerMessages)]
      /\ toClient' \in [Clients -> Seq(ClientMessages)]
      /\ lost' \in 0 .. MaxLost
  <2>1. lost' \in 0 .. MaxLost
    <3>1. lost \in 0 .. MaxLost /\ MaxLost \in Nat
      BY <1>1, GameAssumption DEF TypeOK, NetAssumption
    <3>. QED
      BY <3>1 DEF Lose
  <2>2. /\ toServer \in [Clients -> Seq(ServerMessages)]
        /\ toClient \in [Clients -> Seq(ClientMessages)]
    BY <1>1 DEF TypeOK
  <2>3. PICK c \in Clients :
          \/ /\ toServer[c] # <<>>
             /\ toServer' = [toServer EXCEPT ![c] = Tail(toServer[c])]
             /\ UNCHANGED toClient
          \/ /\ toClient[c] # <<>>
             /\ toClient' = [toClient EXCEPT ![c] = Tail(toClient[c])]
             /\ UNCHANGED toServer
    BY DEF Lose
  <2>4. /\ toServer[c] # <<>> => Tail(toServer[c]) \in Seq(ServerMessages)
        /\ toClient[c] # <<>> => Tail(toClient[c]) \in Seq(ClientMessages)
    BY <2>2, TailIt
  <2>. QED
    BY <2>1, <2>2, <2>3, <2>4
<1>3. conn' = conn /\ UNCHANGED <<clients, srv, poll, msg, rounds, over>>
  BY DEF Lose, serverVars
<1>4. TypeOK'
  BY <1>1, <1>2, <1>3 DEF TypeOK, clientVars
<1>5. InHand'
  BY <1>3 DEF IInv, InHand
<1>6. PollInBounds' /\ Collected'
  BY <1>3 DEF IInv, PollInBounds, Collected, no_connected_clients
<1>7. NamesDiffer' /\ OneWaits' /\ PairsUntilGameOver'
  BY <1>3, SameTable
<1>8. \A c \in Clients : ClientInv(c)'
  BY LoseKeeps
<1>. QED
  BY <1>4, <1>5, <1>6, <1>7, <1>8 DEF IInv

LEMMA ClientStepStep ==
  ASSUME IInv, Running, NEW c \in Clients, ClientStep(c), UNCHANGED serverVars
  PROVE  IInv'
<1>1. TypeOK /\ UNCHANGED <<clients, srv, poll, msg, rounds, over>>
  BY DEF IInv, serverVars
<1>2. Alone(c)
  BY <1>1, ClientAlone
<1>3. TypeOK'
  BY <1>1, <1>2 DEF Alone, ClientTypeOK, TypeOK
<1>4. InHand'
  BY <1>1 DEF IInv, InHand
<1>5. PollInBounds' /\ Collected'
  BY <1>1 DEF IInv, PollInBounds, Collected, no_connected_clients
<1>6. NamesDiffer' /\ OneWaits' /\ PairsUntilGameOver'
  BY <1>1, SameTable
<1>7. \A d \in Clients : ClientInv(d)'
  BY ClientStepKeeps
<1>. QED
  BY <1>3, <1>4, <1>5, <1>6, <1>7 DEF IInv

LEMMA InitIInv == Init => IInv
<1>. SUFFICES ASSUME Init PROVE IInv
  OBVIOUS
<1>0. /\ toServer = [c \in Clients |-> <<>>] /\ toClient = [c \in Clients |-> <<>>]
      /\ conn = [c \in Clients |-> "none"] /\ lost = 0
      /\ clients = [i \in Slots |-> Null] /\ srv = "count" /\ poll = NoPoll /\ msg = Null
      /\ rounds = 0 /\ over = FALSE
      /\ main = [c \in Clients |-> "recv"] /\ args = [c \in Clients |-> " "]
      /\ status = [c \in Clients |-> "GAME_NOT_STARTED"]
      /\ game = [c \in Clients |-> NoThread]
      /\ moves = [c \in Clients |-> 0] /\ differ = FALSE
  BY DEF Init, NetInit, ServerInit, ClientInit
<1>1. TypeOK
  <2>1. MaxLost \in Nat /\ MaxPings \in Nat /\ MAX_NO_CLIENTS \in Nat /\ MaxMoves \in Nat
    BY GameAssumption DEF NetAssumption, ServerAssumption, ClientAssumption
  <2>a. /\ <<>> \in Seq(ServerMessages) /\ <<>> \in Seq(ClientMessages) /\ <<>> \in Seq(Clients)
        /\ 0 \in 0 .. MaxLost /\ 0 \in 0 .. MaxPings /\ 0 \in 0 .. MaxMoves
        /\ 0 \in 0 .. MAX_NO_CLIENTS + 2
    BY <2>1
  <2>2. /\ toServer \in [Clients -> Seq(ServerMessages)]
        /\ toClient \in [Clients -> Seq(ClientMessages)]
        /\ conn \in [Clients -> {"none", "open", "closed", "killed"}] /\ lost \in 0 .. MaxLost
    BY <1>0, <2>a
  <2>3. /\ clients \in [Slots -> Entries(Clients) \cup {Null}] /\ srv = "count" /\ msg = Null
        /\ rounds \in 0 .. MaxPings /\ over \in BOOLEAN
    BY <1>0, <2>a
  <2>4. poll \in [alloc : 0 .. MAX_NO_CLIENTS + 2, fds : Seq(Clients)]
    BY <1>0, <2>a DEF NoPoll
  <2>5. " " \in Arguments
    <3>1. Msg("ping", " ") \in ClientMessages /\ Msg("ping", " ").args = " "
      BY DEF Msg, ClientMessages
    <3>. QED
      BY <3>1, Zenon DEF Arguments
  <2>6. "recv" \in MainAt /\ "GAME_NOT_STARTED" \in Status /\ NoThread \in [at : GameAt, next : Status]
    BY DEF MainAt, Status, GameAt, NoThread
  <2>7. /\ main \in [Clients -> MainAt] /\ args \in [Clients -> Arguments]
        /\ status \in [Clients -> Status] /\ game \in [Clients -> [at : GameAt, next : Status]]
        /\ moves \in [Clients -> 0 .. MaxMoves] /\ differ \in BOOLEAN
    BY <1>0, <2>5, <2>6, <2>a
  <2>. QED
    BY <2>2, <2>3, <2>4, <2>7 DEF TypeOK
<1>2. Taken(clients) = {}
  BY <1>0 DEF Taken
<1>3. InHand /\ Collected /\ PollInBounds
  BY <1>0 DEF InHand, Collected, PollInBounds
<1>4. NamesDiffer /\ OneWaits /\ PairsUntilGameOver
  BY <1>2 DEF NamesDiffer, OneWaits, PairsUntilGameOver
<1>5. ASSUME NEW c \in Clients PROVE ClientInv(c)
  <2>1. /\ toServer[c] = <<>> /\ toClient[c] = <<>> /\ conn[c] = "none" /\ main[c] = "recv"
        /\ args[c] = " " /\ game[c].at = "none" /\ Hand(c) = {} /\ ~InTable(c)
    BY <1>0, <1>2 DEF NoThread, Hand, InTable
  <2>2. ~Ungreeted(c) /\ ~Leaving(c)
    BY <2>1, RangeEmpty DEF Ungreeted, Leaving
  <2>3. GreetsFirst(c)
    <3>1. DOMAIN <<>> = {}
      OBVIOUS
    <3>2. DOMAIN toServer[c] = {}
      BY <2>1, <3>1, Zenon
    <3>. QED
      BY <3>2 DEF GreetsFirst
  <2>. QED
    BY <2>1, <2>2, <2>3 DEF ClientInv, Unknown, DismissedOut, SaysSo
<1>. QED
  BY <1>1, <1>3, <1>4, <1>5 DEF IInv

LEMMA NextIInv == IInv /\ [Next]_vars => IInv'
<1>. SUFFICES ASSUME IInv, [Next]_vars PROVE IInv'
  OBVIOUS
<1>1. CASE UNCHANGED vars
  <2>1. UNCHANGED <<net, serverVars, clientVars>>
    BY <1>1 DEF vars
  <2>2. UNCHANGED <<toServer, toClient, conn, lost, clients, srv, poll, msg, rounds, over,
                    main, args, status, game, moves, differ>>
    BY <2>1 DEF net, serverVars, clientVars
  <2>3. TypeOK'
    BY <2>2 DEF IInv, TypeOK
  <2>4. InHand' /\ Collected' /\ PollInBounds'
    BY <2>2 DEF IInv, InHand, Collected, PollInBounds, no_connected_clients
  <2>5. NamesDiffer' /\ OneWaits' /\ PairsUntilGameOver'
    BY <2>2 DEF IInv, NamesDiffer, OneWaits, PairsUntilGameOver, Running
  <2>6. ASSUME NEW c \in Clients PROVE ClientInv(c)'
    <3>1. Hand(c)' = Hand(c) /\ (InTable(c)' <=> InTable(c)) /\ ClientInv(c)
      BY <2>2 DEF Hand, InTable, IInv
    <3>. QED
      BY <2>2, <3>1, UntouchedKeeps
  <2>. QED
    BY <2>3, <2>4, <2>5, <2>6 DEF IInv
<1>2. CASE Running /\ ServerStep /\ UNCHANGED clientVars
  BY <1>2, get_client_descriptorKeeps, initializationKeeps, MoveKeeps, QuitKeeps,
     GameOverKeeps, PingAnswerKeeps, UnknownSenderKeeps, PingKeeps, close_serverKeeps
     DEF ServerStep, message_handler
<1>3. CASE Running /\ (\E c \in Clients : ClientStep(c)) /\ UNCHANGED serverVars
  BY <1>3, ClientStepStep
<1>4. CASE Running /\ Lose /\ UNCHANGED <<serverVars, clientVars>>
  BY <1>4, LoseStep
<1>. QED
  BY <1>1, <1>2, <1>3, <1>4 DEF Next

\* The invariants of Game, and what they rest on, hold whatever the clients, the size of
\* the table, the socket type and the interleaving are (server.c and client.c of cw10); a
\* client killed by SIGINT before it has its handler, as in zad2, is one of the clients.
THEOREM Inductive == Spec => []IInv
<1>. QED
  BY InitIInv, NextIInv, PTL DEF Spec

\* Every variable keeps its type: in particular a slot of the table has a client, with an
\* opponent that is a slot or -1, or nothing.
THEOREM TypeCorrect == Spec => []TypeOK
<1>1. IInv => TypeOK
  BY DEF IInv
<1>. QED
  BY <1>1, Inductive, PTL

\* At most one client in the table is in no game: add_client finds whoever waits, and
\* nobody who plays is ever left in it alone (server.c, find_opponent and remove_both_clients).
THEOREM NeverTwoWait == Spec => []OneWaiting
<1>1. IInv => OneWaiting
  <2>. SUFFICES ASSUME IInv PROVE OneWaiting
    OBVIOUS
  <2>. DEFINE W == {i \in Taken(clients) : ~clients[i].in_game}
  <2>1. \A i, j \in W : i = j
    BY DEF IInv, OneWaits
  <2>2. CASE W = {}
    BY <2>2, FS_EmptySet DEF OneWaiting
  <2>3. ASSUME NEW i \in W PROVE OneWaiting
    <3>1. W = {i}
      BY <2>1
    <3>2. Cardinality(W) = 1
      BY <3>1, FS_Singleton
    <3>. QED
      BY <3>2 DEF OneWaiting
  <2>. QED
    BY <2>2, <2>3
<1>. QED
  BY <1>1, Inductive, PTL

\* The array of descriptors is never written, polled or scanned past its end, though the
\* number of clients is read three times with pings in between (server.c,
\* get_client_descriptor).
THEOREM PollStaysInBounds == Spec => []PollInBounds
<1>1. IInv => PollInBounds
  BY DEF IInv
<1>. QED
  BY <1>1, Inductive, PTL

\* Until a game_over has been handled opponents name each other's slots, so every move
\* goes to the one who plays with whoever made it (server.c, add_client and move).
THEOREM OpponentsMatch == Spec => []PairsUntilGameOver
<1>1. IInv => PairsUntilGameOver
  BY DEF IInv
<1>. QED
  BY <1>1, Inductive, PTL

\* While nothing is lost, a client in the table that has exited by itself, and was not killed
\* before SIGINT had its handler, left a quit or a game_over that the server has yet to
\* deal with (client.c, quit and game_over).
THEOREM NobodyStays == Spec => []NoGhost
<1>1. IInv => NoGhost
  <2>. SUFFICES ASSUME IInv, lost = 0, NEW i \in Taken(clients), conn[clients[i].fd] = "closed"
                PROVE  \E m \in Range(toServer[clients[i].fd]) \cup Hand(clients[i].fd) : Leaves(m)
    BY DEF NoGhost
  <2>1. clients[i].fd \in Clients
    BY EntryType DEF IInv, Entries
  <2>2. ClientInv(clients[i].fd) /\ InTable(clients[i].fd) /\ Leaving(clients[i].fd)
    BY <2>1 DEF IInv, InTable, Leaving
  <2>. QED
    BY <2>2 DEF ClientInv, SaysSo
<1>. QED
  BY <1>1, Inductive, PTL
=============================================================================
