----------------------------- MODULE ChatProofs -----------------------------
(***************************************************************************)
(* Proofs about the two chats of cw06.  The steps they share and the parts *)
(* of the invariant they share are dealt with once.                        *)
(***************************************************************************)
EXTENDS ChatSysV, SequenceTheorems, WellFoundedInduction, TLAPS

CONSTANT CAPACITY

Posix == INSTANCE ChatPosix

----------------------------------------------------------------------------
(* Queues *)

\* What a queue is when message k has been taken out.
LEMMA RemoveAtFacts ==
  ASSUME NEW S, NEW q \in Seq(S), NEW k \in DOMAIN q
  PROVE  /\ RemoveAt(q, k) \in Seq(S)
         /\ Len(RemoveAt(q, k)) = Len(q) - 1
         /\ DOMAIN RemoveAt(q, k) = 1 .. Len(q) - 1
         /\ \A j \in DOMAIN RemoveAt(q, k) :
              RemoveAt(q, k)[j] = q[IF j < k THEN j ELSE j + 1]
<1> DEFINE n == Len(q)
           f == SubSeq(q, 1, k - 1)
           b == SubSeq(q, k + 1, n)
<1>1. n \in Nat /\ DOMAIN q = 1 .. n /\ k \in 1 .. n
  BY LenProperties
<1>2. \A i \in 1 .. n : q[i] \in S
  BY ElementOfSeq
<1>3. /\ f \in Seq(S) /\ Len(f) = k - 1
      /\ \A i \in 1 .. k - 1 : f[i] = q[i]
  <2>1. \A i \in 1 .. k - 1 : q[i] \in S
    BY <1>1, <1>2
  <2> HIDE DEF n
  <2>2. /\ f \in Seq(S) /\ Len(f) = IF 1 <= k - 1 THEN (k - 1) - 1 + 1 ELSE 0
        /\ \A i \in 1 .. (k - 1) - 1 + 1 : f[i] = q[1 + i - 1]
    BY <1>1, <2>1, SubSeqProperties
  <2> QED BY <1>1, <2>2
<1>4. /\ b \in Seq(S) /\ Len(b) = n - k
      /\ \A i \in 1 .. n - k : b[i] = q[k + i]
  <2>1. \A i \in k + 1 .. n : q[i] \in S
    BY <1>1, <1>2
  <2> HIDE DEF n
  <2>2. /\ b \in Seq(S) /\ Len(b) = IF k + 1 <= n THEN n - (k + 1) + 1 ELSE 0
        /\ \A i \in 1 .. n - (k + 1) + 1 : b[i] = q[(k + 1) + i - 1]
    BY <1>1, <2>1, SubSeqProperties
  <2> QED BY <1>1, <2>2
<1>5. RemoveAt(q, k) = f \o b
  BY DEF RemoveAt
<1> HIDE DEF n, f, b
<1>6. /\ f \o b \in Seq(S) /\ Len(f \o b) = Len(f) + Len(b)
      /\ \A i \in 1 .. Len(f) + Len(b) :
           (f \o b)[i] = IF i <= Len(f) THEN f[i] ELSE b[i - Len(f)]
  BY <1>3, <1>4, ConcatProperties
<1>7. DOMAIN (f \o b) = 1 .. n - 1 /\ Len(f \o b) = n - 1
  BY <1>1, <1>3, <1>4, <1>6, LenProperties
<1>8. \A j \in 1 .. n - 1 : (f \o b)[j] = q[IF j < k THEN j ELSE j + 1]
  <2> TAKE j \in 1 .. n - 1
  <2>1. CASE j < k
    BY <1>1, <1>3, <1>4, <1>6, <2>1
  <2>2. CASE ~(j < k)
    <3>1. j \in 1 .. Len(f) + Len(b) /\ ~(j <= Len(f)) /\ j - Len(f) \in 1 .. n - k
          /\ k + (j - Len(f)) = j + 1
      BY <1>1, <1>3, <1>4, <2>2
    <3> QED BY <1>4, <1>6, <2>2, <3>1
  <2> QED BY <2>1, <2>2
<1> QED BY <1>5, <1>6, <1>7, <1>8 DEF n

LEMMA MinOf ==
  ASSUME NEW T \in SUBSET Nat, T # {}
  PROVE  Min(T) \in T /\ \A y \in T : Min(T) <= y
<1>1. PICK x \in T : \A y \in T : ~(<<y, x>> \in OpToRel(<, Nat))
  BY NatLessThanWellFounded, WFMin
<1>2. ASSUME NEW y \in T PROVE x =< y
  <2>1. ~(<<y, x>> \in {ss \in Nat \X Nat : ss[1] < ss[2]})
    BY <1>1 DEF OpToRel
  <2>2. y \in Nat /\ x \in Nat
    OBVIOUS
  <2>3. ~(y < x)
    BY <2>1, <2>2
  <2> QED BY <2>2, <2>3
<1> QED BY <1>2 DEF Min

\* A queue with messages has one of the lowest type, and one of the highest.
LEMMA LowestIs ==
  ASSUME NEW q, NEW n \in Nat \ {0}, DOMAIN q = 1 .. n, \A i \in 1 .. n : q[i].type \in STOP .. INIT
  PROVE  Lowest(q) \in DOMAIN q /\ \A j \in DOMAIN q : q[Lowest(q)].type <= q[j].type
<1> DEFINE T == {q[i].type : i \in 1 .. n}
           L == {i \in DOMAIN q : \A j \in DOMAIN q : q[i].type <= q[j].type}
<1>1. T \in SUBSET Nat /\ T # {}
  BY DEF STOP, INIT
<1>2. Min(T) \in T /\ \A y \in T : Min(T) <= y
  BY <1>1, MinOf
<1>3. PICK i \in 1 .. n : q[i].type = Min(T)
  BY <1>2
<1>4. i \in L
  BY <1>2, <1>3
<1>5. L \in SUBSET Nat /\ L # {}
  <2>1. L \subseteq 1 .. n
    OBVIOUS
  <2>2. 1 .. n \subseteq Nat
    OBVIOUS
  <2> HIDE DEF L
  <2> QED BY <1>4, <2>1, <2>2
<1>6. Min(L) \in L
  BY <1>5, MinOf
<1> QED BY <1>6 DEF Lowest

LEMMA HighestIs ==
  ASSUME NEW q, NEW n \in Nat \ {0}, DOMAIN q = 1 .. n, \A i \in 1 .. n : q[i].type \in STOP .. INIT
  PROVE  Highest(q) \in DOMAIN q /\ \A j \in DOMAIN q : q[Highest(q)].type >= q[j].type
<1> DEFINE T == {INIT - q[i].type : i \in 1 .. n}
           L == {i \in DOMAIN q : \A j \in DOMAIN q : q[i].type >= q[j].type}
<1>1. T \in SUBSET Nat /\ T # {}
  BY DEF STOP, INIT
<1>2. Min(T) \in T /\ \A y \in T : Min(T) <= y
  BY <1>1, MinOf
<1>3. PICK i \in 1 .. n : INIT - q[i].type = Min(T)
  BY <1>2
<1>4. i \in L
  <2>1. \A j \in 1 .. n : INIT - q[i].type <= INIT - q[j].type
    BY <1>2, <1>3
  <2> QED BY <2>1 DEF STOP, INIT
<1>5. L \in SUBSET Nat /\ L # {}
  <2>1. L \subseteq 1 .. n
    OBVIOUS
  <2>2. 1 .. n \subseteq Nat
    OBVIOUS
  <2> HIDE DEF L
  <2> QED BY <1>4, <2>1, <2>2
<1>6. Min(L) \in L
  BY <1>5, MinOf
<1> QED BY <1>6 DEF Highest

----------------------------------------------------------------------------
(* The steps of both programs, seen from one client *)

RQ == Requests(Slots(MAX_NO_USERS))
LT == Letters(Slots(MAX_NO_USERS))
SV == [at : ServerLabels, msg : RQ \cup {Nobody}, i : 0 .. MAX_NO_USERS]

\* Of what c has sent before, nothing is new to the server.
Quiet(c) ==
    /\ Sent(c, STOP)' => Sent(c, STOP)
    /\ Sent(c, INIT)' => Sent(c, INIT)
    /\ \A k, l \in Asked(c, INIT)' : k = l
    /\ Handled(c, INIT)' => Asked(c, INIT)' = {}

\* The same of INIT alone.
QuietInit(c) ==
    /\ Sent(c, INIT)' => Sent(c, INIT)
    /\ \A k, l \in Asked(c, INIT)' : k = l
    /\ Handled(c, INIT)' => Asked(c, INIT)' = {}

\* No request is taken up.
Calm == \A c \in Clients : \A t \in {STOP, INIT} : Handled(c, t)' => Handled(c, t)

\* Nothing happens to c, but that signals of it may be lost.
Same(c) ==
    /\ pc'[c] = pc[c] /\ inbox'[c] = inbox[c]
    /\ c \in existing' <=> c \in existing
    /\ <<c, "USR1">> \in pending' => <<c, "USR1">> \in pending
    /\ c \in reading' => c \in reading

\* The server does not begin to list c.
NotAdded(c) == \A i \in DOMAIN clients' : clients'[i] = c => i \in DOMAIN clients /\ clients[i] = c

LEMMA CalmIsQuiet ==
  ASSUME NEW c \in Clients, NewInv(c), Calm, requests' = requests \/ requests' = <<>>
  PROVE  Quiet(c)
<1>1. /\ Handled(c, STOP)' => Handled(c, STOP)
      /\ Handled(c, INIT)' => Handled(c, INIT)
  BY DEF Calm
<1>2. \A t : Asked(c, t)' = Asked(c, t) \/ Asked(c, t)' = {}
  <2>1. CASE requests' = requests
    BY <2>1 DEF Asked
  <2>2. CASE requests' = <<>>
    BY <2>2 DEF Asked
  <2> QED BY <2>1, <2>2
<1>3. /\ \A k, l \in Asked(c, INIT) : k = l
      /\ Handled(c, INIT) => Asked(c, INIT) = {}
  BY DEF NewInv
<1>4. /\ Sent(c, STOP)' => Sent(c, STOP)
      /\ Sent(c, INIT)' => Sent(c, INIT)
  BY <1>1, <1>2 DEF Sent
<1> QED BY <1>1, <1>2, <1>3, <1>4 DEF Quiet

\* Submitting a request.
LEMMA AskedMore ==
  ASSUME TypeOK, NEW m \in RQ, Submit(m), NEW c \in Clients, NEW t
  PROVE  Asked(c, t)' = Asked(c, t) \cup
           (IF m.by = c /\ m.type = t THEN {Len(requests) + 1} ELSE {})
<1>1. requests \in Seq(RQ)
  BY DEF TypeOK, RQ
<1>2. /\ Len(requests) \in Nat /\ DOMAIN requests = 1 .. Len(requests)
      /\ requests' \in Seq(RQ) /\ Len(requests') = Len(requests) + 1
      /\ \A k \in 1 .. Len(requests) : requests'[k] = requests[k]
      /\ requests'[Len(requests) + 1] = m
  BY <1>1, LenProperties, AppendProperties DEF Submit
<1>3. DOMAIN requests' = 1 .. Len(requests) + 1
  BY <1>2, LenProperties
<1> QED BY <1>2, <1>3 DEF Asked

LEMMA OthersSubmit ==
  ASSUME TypeOK, NEW m \in RQ, Submit(m), server' = server, NEW c \in Clients, NewInv(c),
         m.by # c \/ m.type \notin {STOP, INIT}
  PROVE  Quiet(c)
<1> USE DEF STOP, INIT
<1>1. /\ Asked(c, STOP)' = Asked(c, STOP)
      /\ Asked(c, INIT)' = Asked(c, INIT)
  <2>1. ~(m.by = c /\ m.type = STOP) /\ ~(m.by = c /\ m.type = INIT)
    OBVIOUS
  <2>2. Asked(c, STOP)' = Asked(c, STOP) \cup
          (IF m.by = c /\ m.type = STOP THEN {Len(requests) + 1} ELSE {})
    BY AskedMore
  <2>3. Asked(c, INIT)' = Asked(c, INIT) \cup
          (IF m.by = c /\ m.type = INIT THEN {Len(requests) + 1} ELSE {})
    BY AskedMore
  <2> QED BY <2>1, <2>2, <2>3
<1>2. \A t : Handled(c, t)' = Handled(c, t)
  BY DEF Handled, Handles
<1> QED BY <1>1, <1>2 DEF Quiet, Sent, NewInv

LEMMA SubmitsOther ==
  ASSUME TypeOK, NEW m \in RQ, Submit(m), server' = server, NEW c \in Clients, NewInv(c),
         m.type # INIT
  PROVE  QuietInit(c)
<1> USE DEF INIT
<1>1. Asked(c, INIT)' = Asked(c, INIT) \cup
        (IF m.by = c /\ m.type = INIT THEN {Len(requests) + 1} ELSE {})
  BY AskedMore
<1>2. Asked(c, INIT)' = Asked(c, INIT)
  BY <1>1
<1>3. Handled(c, INIT)' = Handled(c, INIT)
  BY DEF Handled, Handles
<1> QED BY <1>2, <1>3 DEF QuietInit, Sent, NewInv

\* Taking a request: what was on its way is in the server's hands.
LEMMA TakeIsQuiet ==
  ASSUME TypeOK, server.at = "receive", NEW k \in DOMAIN requests, Take(k),
         NEW c \in Clients, NewInv(c)
  PROVE  Quiet(c)
<1>1. requests \in Seq(RQ)
  BY DEF TypeOK, RQ
<1>2. /\ DOMAIN requests = 1 .. Len(requests) /\ Len(requests) \in Nat
      /\ DOMAIN requests' = 1 .. Len(requests) - 1
      /\ \A j \in DOMAIN requests' : requests'[j] = requests[IF j < k THEN j ELSE j + 1]
  BY <1>1, RemoveAtFacts, LenProperties DEF Take
<1>3. \A t : Handled(c, t)' <=> k \in Asked(c, t)
  BY DEF Take, Handled, Handles, Asked
<1>4. \A t : \A j \in Asked(c, t)' :
        (IF j < k THEN j ELSE j + 1) \in Asked(c, t) \ {k} /\ j \in Int
  BY <1>2 DEF Asked
<1>5. \A t : Sent(c, t)' => Sent(c, t)
  <2> TAKE t
  <2>1. CASE Handled(c, t)'
    BY <1>3, <2>1 DEF Sent
  <2>2. CASE Asked(c, t)' # {}
    BY <1>4, <2>2 DEF Sent
  <2> QED BY <2>1, <2>2 DEF Sent
<1>6. \A j, l \in Asked(c, INIT) : j = l
  BY DEF NewInv
<1>7. \A j, l \in Asked(c, INIT)' : j = l
  <2> TAKE j, l \in Asked(c, INIT)'
  <2>1. /\ (IF j < k THEN j ELSE j + 1) = (IF l < k THEN l ELSE l + 1)
        /\ j \in Int /\ l \in Int /\ k \in Int
    BY <1>2, <1>4, <1>6
  <2> QED BY <2>1
<1>8. Handled(c, INIT)' => Asked(c, INIT)' = {}
  <2> SUFFICES ASSUME k \in Asked(c, INIT), NEW j \in Asked(c, INIT)' PROVE FALSE
    BY <1>3
  <2>1. (IF j < k THEN j ELSE j + 1) \in Asked(c, INIT) \ {k}
    BY <1>4
  <2> QED BY <1>6, <2>1
<1> QED BY <1>5, <1>7, <1>8 DEF Quiet

LEMMA SignalsNumber ==
  ASSUME NEW c
  PROVE  SignalsToCome(c) \in 0 .. 2 /\ Announced(c) \in 0 .. 1
BY DEF SignalsToCome, Announced

LEMMA SignalsLess ==
  ASSUME NEW c, <<c, "USR1">> \in pending' => <<c, "USR1">> \in pending,
         c \in reading' => c \in reading
  PROVE  SignalsToCome(c)' <= SignalsToCome(c)
BY DEF SignalsToCome

LEMMA SameNew ==
  ASSUME NEW c \in Clients, NewInv(c), Quiet(c), Same(c), NotAdded(c)
  PROVE  NewInv(c)'
<1>1. New(c)' => New(c)
  BY DEF New, Quiet, Same
<1>2. Registered(c)' => Registered(c)
  BY DEF Registered, NotAdded
<1>3. SignalsToCome(c) = 0 => SignalsToCome(c)' = 0
  BY SignalsNumber, SignalsLess DEF Same, SignalsToCome
<1> QED BY <1>1, <1>2, <1>3 DEF NewInv, Quiet, Same

----------------------------------------------------------------------------
(* The parts of the invariant that are not about one client *)

\* Nobody who has been told to stop forgets it.
Remembers ==
    \A c \in Clients :
      /\ Alive(c)' => Alive(c)
      /\ <<c, "INT">> \in pending \cup blocked =>
           <<c, "INT">> \in pending' \cup blocked' \/ ~Alive(c)'

LEMMA ToldKept ==
  ASSUME TypeOK, Told, Remembers, clients' = clients, server' = server
  PROVE  Told'
<1>1. \A i \in DOMAIN clients : clients[i] \in Clients \cup {Nobody}
  BY DEF TypeOK
<1>2. \A i \in DOMAIN clients : IsTold(clients[i]) => IsTold(clients[i])'
  BY <1>1 DEF IsTold, Remembers
<1> QED BY <1>2 DEF Told

LEMMA StopLastKept ==
  ASSUME StopLast, requests' = requests \/ requests' = <<>>,
         Handles(STOP)' => server' = server
  PROVE  StopLast'
<1>1. DOMAIN <<>> = {}
  OBVIOUS
<1> QED BY <1>1 DEF StopLast, Handles

\* After its STOP a client submits nothing else.
LEMMA StopLastSubmit ==
  ASSUME TypeOK, StopLast, NEW m \in RQ, Submit(m), server' = server,
         Busy, m.type = STOP \/ ~Sent(m.by, STOP)
  PROVE  StopLast'
<1>1. requests \in Seq(RQ)
  BY DEF TypeOK, RQ
<1>2. /\ Len(requests) \in Nat /\ DOMAIN requests = 1 .. Len(requests)
      /\ requests' \in Seq(RQ) /\ Len(requests') = Len(requests) + 1
      /\ \A k \in 1 .. Len(requests) : requests'[k] = requests[k]
      /\ requests'[Len(requests) + 1] = m
  BY <1>1, LenProperties, AppendProperties DEF Submit
<1>3. DOMAIN requests' = 1 .. Len(requests) + 1
  BY <1>2, LenProperties
<1>4. Handles(STOP)' = Handles(STOP)
  BY DEF Handles
<1>5. SUFFICES ASSUME Handles(STOP), NEW k \in DOMAIN requests', requests'[k].by = server.msg.by
               PROVE  requests'[k].type = STOP
  BY <1>4 DEF StopLast
<1>6. CASE k \in 1 .. Len(requests)
  BY <1>2, <1>5, <1>6 DEF StopLast
<1>7. CASE k = Len(requests) + 1
  BY <1>2, <1>5, <1>7 DEF Sent, Handled
<1> QED BY <1>2, <1>3, <1>6, <1>7

\* What a step of client c does to the server's queue: nothing, or a request of c that
\* does not follow its STOP, or the queue is removed.
Requested(c) ==
    \/ requests' = requests \/ requests' = <<>>
    \/ \E m \in RQ : Submit(m) /\ m.by = c /\ (m.type = STOP \/ ~Sent(c, STOP))

\* A step of client c, seen from everybody else.
LEMMA ClientMoves ==
  ASSUME TypeOK, Busy, Told, StopLast, NEW c \in Clients, Requested(c), Remembers,
         UNCHANGED <<clients, server>>
  PROVE  /\ Busy' /\ Told' /\ StopLast' /\ Calm
         /\ \A d \in Clients : NotAdded(d) /\ Announced(d)' = Announced(d)
         /\ \A d \in Clients : d # c /\ NewInv(d) => Quiet(d)
<1>1. Busy'
  BY DEF Busy
<1>2. Told'
  BY ToldKept
<1>3. StopLast'
  BY StopLastKept, StopLastSubmit DEF Requested
<1>4. Calm
  BY DEF Calm, Handled, Handles
<1>5. \A d \in Clients : NotAdded(d) /\ Announced(d)' = Announced(d)
  BY DEF NotAdded, Announced
<1>6. ASSUME NEW d \in Clients, d # c, NewInv(d) PROVE Quiet(d)
  BY <1>4, <1>6, CalmIsQuiet, OthersSubmit DEF Requested
<1> QED BY <1>1, <1>2, <1>3, <1>4, <1>5, <1>6

----------------------------------------------------------------------------
(* zad1 *)

LEMMA OrderSubmit ==
  ASSUME TypeOK, StopsInOrder, NEW m \in RQ, Submit(m), m.type = STOP \/ ~Sent(m.by, STOP)
  PROVE  StopsInOrder'
<1>1. requests \in Seq(RQ)
  BY DEF TypeOK, RQ
<1>2. /\ Len(requests) \in Nat /\ DOMAIN requests = 1 .. Len(requests)
      /\ requests' \in Seq(RQ) /\ Len(requests') = Len(requests) + 1
      /\ \A k \in 1 .. Len(requests) : requests'[k] = requests[k]
      /\ requests'[Len(requests) + 1] = m
  BY <1>1, LenProperties, AppendProperties DEF Submit
<1>3. DOMAIN requests' = 1 .. Len(requests) + 1
  BY <1>2, LenProperties
<1>4. SUFFICES ASSUME NEW k \in DOMAIN requests', NEW l \in DOMAIN requests', k < l,
                      requests'[k].by = requests'[l].by, requests'[k].type = STOP
               PROVE  requests'[l].type = STOP
  BY DEF StopsInOrder
<1>5. k \in 1 .. Len(requests) /\ requests'[k] = requests[k]
  BY <1>2, <1>3, <1>4
<1>6. CASE l \in 1 .. Len(requests)
  BY <1>2, <1>4, <1>5, <1>6 DEF StopsInOrder
<1>7. CASE l = Len(requests) + 1
  <2>1. requests[k].by = m.by /\ requests[k].type = STOP
    BY <1>2, <1>4, <1>5, <1>7
  <2>2. Sent(m.by, STOP)
    BY <1>2, <1>5, <2>1 DEF Sent, Asked
  <2> QED BY <1>2, <1>7, <2>2
<1> QED BY <1>2, <1>3, <1>6, <1>7

LEMMA OrderKept ==
  ASSUME StopsInOrder, requests' = requests \/ requests' = <<>>
  PROVE  StopsInOrder'
<1>1. DOMAIN <<>> = {}
  OBVIOUS
<1> QED BY <1>1 DEF StopsInOrder

Client(c) == NewInv(c) /\ Stopping(c) /\ Covered(c) /\ Answered(c)

LEMMA InboxIs ==
  ASSUME TypeOK, NEW c \in Clients
  PROVE  /\ inbox[c] \in Seq(LT) /\ Len(inbox[c]) \in Nat
         /\ DOMAIN inbox[c] = 1 .. Len(inbox[c])
         /\ inbox[c] # <<>> => Len(inbox[c]) > 0
<1>1. inbox[c] \in Seq(LT)
  BY DEF TypeOK, LT
<1> QED BY <1>1, LenProperties, EmptySeq

\* With as many messages and no more signals the messages still suffice.
LEMMA CoveredLess ==
  ASSUME TypeOK, NEW c \in Clients, Covered(c), inbox'[c] = inbox[c],
         c \in existing' => c \in existing,
         SignalsToCome(c)' + Announced(c)' <= SignalsToCome(c) + Announced(c)
  PROVE  Covered(c)'
<1>1. Answers(inbox[c])' = Answers(inbox[c]) /\ Len(inbox[c]) \in Nat
  BY InboxIs DEF Answers
<1>2. /\ SignalsToCome(c) \in Nat /\ Announced(c) \in Nat
      /\ SignalsToCome(c)' \in Nat /\ Announced(c)' \in Nat
  BY SignalsNumber DEF SignalsToCome, Announced
<1>3. \A k, l \in Answers(inbox[c])' : k = l
  BY <1>1 DEF Covered
<1>4. ASSUME c \in existing' PROVE
        SignalsToCome(c)' + Announced(c)'
          <= Len(inbox'[c]) - (IF Answers(inbox[c])' = {} THEN 0 ELSE 1)
  <2> DEFINE n == Len(inbox[c]) - (IF Answers(inbox[c]) = {} THEN 0 ELSE 1)
  <2>1. SignalsToCome(c) + Announced(c) <= n
    BY <1>4 DEF Covered
  <2>2. Len(inbox'[c]) - (IF Answers(inbox[c])' = {} THEN 0 ELSE 1) = n
    BY <1>1
  <2>3. n \in Int
    BY <1>1
  <2> HIDE DEF n
  <2>4. SignalsToCome(c)' + Announced(c)' <= n
    BY <1>2, <2>1, <2>3
  <2> QED BY <2>2, <2>4
<1> QED BY <1>3, <1>4 DEF Covered

\* Nothing that happens to others, and no loss of a signal, harms a client.
LEMMA Bystander ==
  ASSUME TypeOK, NEW c \in Clients, Client(c), Quiet(c), Same(c), NotAdded(c),
         Announced(c)' <= Announced(c), c \in my_queue' <=> c \in my_queue
  PROVE  Client(c)'
<1>1. NewInv(c)'
  BY SameNew DEF Client
<1>2. Stopping(c)'
  BY DEF Client, Stopping, Quiet, Same, Alive
<1>3. SignalsToCome(c)' <= SignalsToCome(c)
  BY SignalsLess DEF Same
<1>4. /\ SignalsToCome(c) \in Nat /\ Announced(c) \in Nat
      /\ SignalsToCome(c)' \in Nat /\ Announced(c)' \in Nat
  BY SignalsNumber DEF SignalsToCome, Announced
<1>5. Covered(c)'
  <2>1. SignalsToCome(c)' + Announced(c)' <= SignalsToCome(c) + Announced(c)
    BY <1>3, <1>4
  <2> QED BY <2>1, CoveredLess DEF Same, Client
<1>6. Answered(c)'
  <2>1. Answers(inbox[c])' = Answers(inbox[c]) /\ inbox'[c] = inbox[c] /\ pc'[c] = pc[c]
    BY DEF Answers, Same
  <2>2. /\ c \in existing' <=> c \in existing
        /\ Answered(c)
    BY DEF Same, Client
  <2>3. SignalsToCome(c)' > 0 => SignalsToCome(c) > 0
    BY <1>3, <1>4
  <2> QED BY <2>1, <2>2, <2>3 DEF Answered, NotAdded
<1> QED BY <1>1, <1>2, <1>5, <1>6 DEF Client

LEMMA Together ==
  ASSUME TypeOK', Busy', Told', StopLast', StopsInOrder', \A c \in Clients : Client(c)',
         my_queue' \subseteq Clients, zero' = zero, IInv
  PROVE  IInv'
BY DEF IInv, ChatInv, Client

LEMMA Parts ==
  ASSUME IInv
  PROVE  /\ TypeOK /\ Busy /\ Told /\ StopLast /\ StopsInOrder /\ my_queue \subseteq Clients
         /\ \A c \in Clients : Client(c)
BY DEF IInv, ChatInv, Client

\* The values server gets.
LEMMA ServerValues ==
  ASSUME TypeOK
  PROVE  /\ server \in SV
         /\ \A l \in ServerLabels : /\ [server EXCEPT !.at = l] \in SV
                                    /\ [server EXCEPT !.at = l].at = l
                                    /\ [server EXCEPT !.at = l].msg = server.msg
                                    /\ [server EXCEPT !.at = l].i = server.i
         /\ \A l \in ServerLabels : [at |-> l, msg |-> Nobody, i |-> 0] \in SV
<1>1. server \in SV
  BY DEF TypeOK, SV, RQ
<1>2. 0 \in 0 .. MAX_NO_USERS
  BY ChatAssumption
<1> QED BY <1>1, <1>2 DEF SV

LEMMA TypeServer ==
  ASSUME TypeOK, server' \in SV, existing' \subseteq existing,
         requests' = requests \/ requests' = <<>>,
         pending' = pending, UNCHANGED <<clients, inbox, clientOwn, blocked, reading, notify>>
  PROVE  TypeOK'
<1>1. <<>> \in Seq(RQ)
  OBVIOUS
<1>2. requests' \in Seq(RQ)
  BY <1>1 DEF TypeOK, RQ
<1> QED BY <1>2 DEF TypeOK, clientOwn, SV, RQ

\* Steps of the server that put nothing into a queue, raise no SIGUSR1 and take nothing.
LEMMA ServerIdle ==
  ASSUME IInv, Calm, requests' = requests \/ requests' = <<>>,
         UNCHANGED <<clients, inbox, pc, reading, my_queue>>,
         \A c \in Clients : <<c, "USR1">> \in pending' => <<c, "USR1">> \in pending,
         \A c \in Clients : c \in existing' <=> c \in existing,
         server'.at # "signal"
  PROVE  \A c \in Clients : Client(c)'
<1> TAKE c \in Clients
<1>1. /\ TypeOK /\ Client(c)
  BY Parts
<1>2. Quiet(c)
  BY <1>1, CalmIsQuiet DEF Client
<1>3. Same(c)
  BY DEF Same
<1>4. NotAdded(c)
  BY DEF NotAdded
<1>5. Announced(c)' <= Announced(c)
  <2>1. Announced(c)' = 0
    BY DEF Announced
  <2> QED BY <2>1, SignalsNumber
<1>6. c \in my_queue' <=> c \in my_queue
  OBVIOUS
<1> QED BY <1>1, <1>2, <1>3, <1>4, <1>5, <1>6, Bystander

\* The server has nothing in hand after the step.
LEMMA ServerEnds ==
  ASSUME IInv, server'.at \notin {"handle", "signal"}, TypeOK', Told',
         requests' = requests \/ requests' = <<>>,
         existing' = existing \/ existing' = existing \ {"server"},
         \A c \in Clients : <<c, "USR1">> \in pending' => <<c, "USR1">> \in pending,
         UNCHANGED <<clients, inbox, pc, reading, my_queue, zero>>
  PROVE  IInv'
<1>1. /\ TypeOK /\ Busy /\ Told /\ StopLast /\ StopsInOrder /\ my_queue \subseteq Clients
  BY Parts
<1>2. Busy'
  BY DEF Busy
<1>3. StopLast' /\ StopsInOrder'
  BY <1>1, StopLastKept, OrderKept DEF Handles
<1>4. Calm
  BY DEF Calm, Handled, Handles
<1>5. \A c \in Clients : c \in existing' <=> c \in existing
  BY ChatAssumption
<1>6. \A c \in Clients : Client(c)'
  BY <1>4, <1>5, ServerIdle
<1> QED BY <1>1, <1>2, <1>3, <1>6, Together

\* The server leaves its loop, or starts on the next request.
LEMMA ServerGoes ==
  ASSUME IInv, NEW l \in {"receive", "destroy", "exit"},
         server' = [at |-> l, msg |-> Nobody, i |-> 0],
         UNCHANGED <<clients, queues, clientOwn, signals, my_queue, zero>>
  PROVE  IInv'
<1>1. TypeOK
  BY Parts
<1> USE DEF queues, clientOwn, signals
<1>2. TypeOK'
  <2>1. server' \in SV
    BY <1>1, ServerValues DEF ServerLabels
  <2> QED BY <1>1, <2>1, TypeServer
<1>3. server'.at = l /\ server'.i = 0
  OBVIOUS
<1>4. Told'
  <2>1. \A i \in DOMAIN clients : ~(i < 0)
    BY <1>1 DEF TypeOK, Slots
  <2> QED BY <1>3, <2>1 DEF Told
<1> QED BY <1>2, <1>3, <1>4, ServerEnds

LEMMA ReceiveFailsInv ==
  ASSUME IInv, ReceiveFails, UNCHANGED <<my_queue, zero>>
  PROVE  IInv'
BY ServerGoes DEF ReceiveFails, ServerExits

LEMMA SentToAllInv ==
  ASSUME IInv, SentToAll, UNCHANGED <<my_queue, zero>>
  PROVE  IInv'
BY ServerGoes DEF SentToAll, Done

LEMMA InterruptedInv ==
  ASSUME IInv, ServerInterrupted, UNCHANGED <<my_queue, zero>>
  PROVE  IInv'
BY ServerGoes DEF ServerInterrupted

LEMMA SignalGroupInv ==
  ASSUME IInv, SignalGroup, UNCHANGED <<my_queue, zero>>
  PROVE  IInv'
<1>1. TypeOK
  BY Parts
<1> USE DEF SignalGroup, Serve, queues, clientOwn, signals
<1>2. server' \in SV /\ server'.at = "killed"
  BY <1>1, ServerValues DEF ServerLabels
<1>3. TypeOK'
  BY <1>1, <1>2, TypeServer
<1>4. Told'
  BY <1>2 DEF Told
<1> QED BY <1>2, <1>3, <1>4, ServerEnds

\* The next slot of destroy_queue, when who has the present one has been told to stop.
LEMMA ToldNext ==
  ASSUME TypeOK, Told, server.at \in {"destroy", "exit"},
         NEW n \in DOMAIN clients, server.i = n,
         server' = [server EXCEPT !.i = @ + 1], clients' = clients, Remembers,
         IsTold(clients[n])'
  PROVE  Told' /\ server' \in SV /\ server'.at = server.at
<1>1. server \in SV /\ DOMAIN clients = 0 .. MAX_NO_USERS - 1 /\ MAX_NO_USERS \in Nat
  BY ChatAssumption DEF TypeOK, SV, RQ, Slots
<1>2. /\ server' \in SV /\ server'.at = server.at
      /\ server.i \in Nat /\ server'.i = server.i + 1
  BY <1>1 DEF SV
<1>3. \A i \in DOMAIN clients : clients[i] \in Clients \cup {Nobody}
  BY DEF TypeOK
<1>4. \A i \in DOMAIN clients : IsTold(clients[i]) => IsTold(clients[i])'
  BY <1>3 DEF IsTold, Remembers
<1>5. ASSUME NEW i \in DOMAIN clients, i < server'.i
      PROVE  IsTold(clients[i])'
  <2>1. CASE i = n
    BY <2>1
  <2>2. CASE i < server.i
    BY <1>4, <2>2 DEF Told
  <2> QED BY <1>1, <1>2, <1>5, <2>1, <2>2
<1>7. Told'
  BY <1>2, <1>5 DEF Told
<1> QED BY <1>2, <1>7

LEMMA KillClientTold ==
  ASSUME TypeOK, Told, NEW i \in DOMAIN clients, KillClient(i)
  PROVE  /\ TypeOK' /\ Told' /\ server'.at \in {"destroy", "exit"}
         /\ \A c \in Clients : <<c, "USR1">> \in pending' => <<c, "USR1">> \in pending
<1> USE DEF KillClient, queues, clientOwn
<1>1. clients[i] \in Clients /\ pending \subseteq Clients \X Signals
  BY DEF TypeOK
<1>2. /\ pending' \subseteq Clients \X Signals
      /\ pending \subseteq pending'
      /\ \A c \in Clients : <<c, "USR1">> \in pending' => <<c, "USR1">> \in pending
  BY <1>1 DEF Raised, Signals
<1>3. Remembers
  BY <1>2 DEF Remembers, Alive
<1>4. IsTold(clients[i])'
  BY <1>1 DEF IsTold, Raised, Alive
<1>5. Told' /\ server' \in SV /\ server'.at = server.at
  <2>1. server' = [server EXCEPT !.i = @ + 1]
    OBVIOUS
  <2> QED BY <1>3, <1>4, <2>1, ToldNext
<1>6. TypeOK'
  BY <1>2, <1>5 DEF TypeOK, SV, RQ
<1> QED BY <1>2, <1>5, <1>6

LEMMA KillClientInv ==
  ASSUME IInv, NEW i \in DOMAIN clients, KillClient(i), UNCHANGED <<my_queue, zero>>
  PROVE  IInv'
<1>1. /\ TypeOK' /\ Told' /\ server'.at \in {"destroy", "exit"}
      /\ \A c \in Clients : <<c, "USR1">> \in pending' => <<c, "USR1">> \in pending
  BY Parts, KillClientTold
<1> QED BY <1>1, ServerEnds DEF KillClient, queues, clientOwn

\* An empty slot.
LEMMA SkipsTold ==
  ASSUME TypeOK, Told, server.at \in {"destroy", "exit"},
         NEW n, server.i = n, n < MAX_NO_USERS, clients[n] = Nobody,
         server' = [server EXCEPT !.i = @ + 1],
         UNCHANGED <<clients, queues, clientOwn, signals>>
  PROVE  TypeOK' /\ Told' /\ server'.at = server.at
<1> USE DEF queues, clientOwn, signals
<1>1. n \in DOMAIN clients
  BY ChatAssumption DEF TypeOK, Slots
<1>2. IsTold(clients[n])'
  BY DEF IsTold
<1>3. Remembers
  BY DEF Remembers, Alive
<1>4. Told' /\ server' \in SV /\ server'.at = server.at
  BY <1>1, <1>2, <1>3, ToldNext
<1> QED BY <1>4, TypeServer

LEMMA KillGroupInv ==
  ASSUME IInv, KillGroup, UNCHANGED <<my_queue, zero>>
  PROVE  IInv'
<1>1. TypeOK /\ Told
  BY Parts
<1> USE DEF queues, clientOwn, signals
<1>2. /\ UNCHANGED <<clients, queues, clientOwn, signals>>
      /\ server.i < MAX_NO_USERS /\ clients[server.i] = Nobody
  BY DEF KillGroup
<1>3. CASE server.at = "destroy" /\ server' = [server EXCEPT !.i = @ + 1]
  <2>1. TypeOK' /\ Told' /\ server'.at = "destroy"
    BY <1>1, <1>2, <1>3, SkipsTold
  <2> QED BY <1>2, <2>1, ServerEnds
<1>4. CASE server.at = "exit" /\ server' = [server EXCEPT !.at = "destroy", !.i = 0]
  <2>1. server \in SV /\ 0 \in 0 .. MAX_NO_USERS
    BY <1>1, ChatAssumption, ServerValues
  <2>2. server' \in SV /\ server'.at = "destroy" /\ server'.i = 0
    BY <1>4, <2>1 DEF SV, ServerLabels
  <2>3. TypeOK'
    BY <1>1, <1>2, <2>2, TypeServer
  <2>4. Told'
    <3>1. \A i \in DOMAIN clients : ~(i < 0)
      BY <1>1 DEF TypeOK, Slots
    <3> QED BY <1>2, <2>2, <3>1 DEF Told
  <2> QED BY <1>2, <2>2, <2>3, <2>4, ServerEnds
<1>5. CASE Serve("killed")
  <2>1. server' \in SV /\ server'.at = "killed"
    BY <1>1, <1>5, ServerValues DEF ServerLabels, Serve
  <2>2. TypeOK'
    BY <1>1, <1>2, <2>1, TypeServer
  <2>3. Told'
    BY <2>1 DEF Told
  <2> QED BY <1>2, <2>1, <2>2, <2>3, ServerEnds
<1> QED BY <1>3, <1>4, <1>5 DEF KillGroup

\* The end of destroy_queue: every slot has been passed.
LEMMA ToldAtTheEnd ==
  ASSUME TypeOK, Told, server.at \in {"destroy", "exit"}, server.i = MAX_NO_USERS,
         Serve("dead"), UNCHANGED <<clients, clientOwn, signals>>
  PROVE  server' \in SV /\ server'.at = "dead" /\ Told'
<1> USE DEF clientOwn, signals
<1>1. server' \in SV /\ server'.at = "dead"
  BY ServerValues DEF ServerLabels, Serve
<1>2. \A i \in DOMAIN clients : i < server.i
  BY ChatAssumption DEF TypeOK, Slots
<1>3. \A i \in DOMAIN clients : IsTold(clients[i])'
  BY <1>2 DEF Told, IsTold, Alive
<1> QED BY <1>1, <1>3 DEF Told

LEMMA DestroyQueueInv ==
  ASSUME IInv, DestroyQueue, UNCHANGED <<my_queue, zero>>
  PROVE  IInv'
<1>1. TypeOK /\ Told
  BY Parts
<1> USE DEF DestroyQueue
<1>2. server' \in SV /\ server'.at = "dead" /\ Told'
  BY <1>1, ToldAtTheEnd
<1>3. TypeOK'
  BY <1>1, <1>2, TypeServer DEF clientOwn, signals
<1> QED BY <1>2, <1>3, ServerEnds DEF clientOwn, signals

LEMMA DestroyInv ==
  ASSUME IInv, Destroy, UNCHANGED <<my_queue, zero>>
  PROVE  IInv'
BY KillClientInv, KillGroupInv, DestroyQueueInv DEF Destroy

----------------------------------------------------------------------------
\* Taking a request changes nothing for the clients.
LEMMA TakeType ==
  ASSUME TypeOK, NEW k \in DOMAIN requests, Take(k)
  PROVE  /\ TypeOK' /\ Busy' /\ Told' /\ server'.at = "handle"
         /\ server'.msg = requests[k] /\ requests[k] \in RQ
<1>1. requests \in Seq(RQ)
  BY DEF TypeOK, RQ
<1>2. requests' \in Seq(RQ)
  BY <1>1, RemoveAtFacts DEF Take
<1>3. requests[k] \in RQ
  BY <1>1, LenProperties, ElementOfSeq
<1>5. server' \in SV /\ server'.at = "handle" /\ server'.msg = requests[k]
  <2>1. 0 \in 0 .. MAX_NO_USERS
    BY ChatAssumption
  <2> QED BY <1>3, <2>1 DEF Take, SV, ServerLabels
<1>6. TypeOK'
  BY <1>2, <1>5 DEF TypeOK, Take, clientOwn, signals, SV, RQ
<1> QED BY <1>3, <1>5, <1>6 DEF Busy, Told, RQ

LEMMA ReceiveInv ==
  ASSUME IInv, Receive, UNCHANGED <<my_queue, zero>>
  PROVE  IInv'
<1>1. /\ TypeOK /\ StopLast /\ StopsInOrder /\ my_queue \subseteq Clients
      /\ \A c \in Clients : Client(c)
  BY Parts
<1>2. /\ requests \in Seq(RQ) /\ Len(requests) \in Nat /\ DOMAIN requests = 1 .. Len(requests)
      /\ 1 \in DOMAIN requests /\ Take(1) /\ server.at = "receive"
  <2>1. requests \in Seq(RQ)
    BY <1>1 DEF TypeOK, RQ
  <2> QED BY <2>1, LenProperties, EmptySeq DEF Receive
<1>3. /\ DOMAIN requests' = 1 .. Len(requests) - 1
      /\ \A j \in DOMAIN requests' : requests'[j] = requests[j + 1]
  <2>1. /\ DOMAIN requests' = 1 .. Len(requests) - 1
        /\ \A j \in DOMAIN requests' : requests'[j] = requests[IF j < 1 THEN j ELSE j + 1]
    BY <1>2, RemoveAtFacts DEF Take
  <2> QED BY <2>1
<1>4. TypeOK' /\ Busy' /\ Told' /\ server'.at = "handle" /\ server'.msg = requests[1]
  BY <1>1, <1>2, TakeType
<1>5. StopsInOrder'
  <2> SUFFICES ASSUME NEW k \in DOMAIN requests', NEW l \in DOMAIN requests', k < l,
                      requests'[k].by = requests'[l].by, requests'[k].type = STOP
               PROVE  requests'[l].type = STOP
    BY DEF StopsInOrder
  <2>1. k + 1 \in DOMAIN requests /\ l + 1 \in DOMAIN requests /\ k + 1 < l + 1
    BY <1>2, <1>3
  <2> QED BY <1>1, <1>3, <2>1 DEF StopsInOrder
<1>6. StopLast'
  <2> SUFFICES ASSUME Handles(STOP)', NEW k \in DOMAIN requests', requests'[k].by = requests[1].by
               PROVE  requests'[k].type = STOP
    BY <1>4 DEF StopLast
  <2>1. requests[1].type = STOP
    BY <1>4 DEF Handles
  <2>2. k + 1 \in DOMAIN requests /\ 1 < k + 1
    BY <1>2, <1>3
  <2> QED BY <1>1, <1>2, <1>3, <2>1, <2>2 DEF StopsInOrder
<1>7. ASSUME NEW c \in Clients PROVE Client(c)'
  <2>1. Quiet(c)
    BY <1>1, <1>2, TakeIsQuiet DEF Client
  <2>2. Same(c) /\ NotAdded(c)
    BY <1>2 DEF Same, NotAdded, Take, clientOwn, signals
  <2>3. Announced(c)' <= Announced(c)
    <3>1. Announced(c)' = 0
      BY <1>4 DEF Announced
    <3> QED BY <3>1, SignalsNumber
  <2> QED BY <1>1, <2>1, <2>2, <2>3, Bystander
<1> QED BY <1>1, <1>4, <1>5, <1>6, <1>7, Together

\* The server has dealt with a request.
LEMMA DoneIs ==
  ASSUME TypeOK, Done
  PROVE  /\ server' \in SV /\ server'.at = "receive" /\ Busy' /\ Told' /\ Calm
         /\ \A c : Announced(c)' = 0 /\ ~Handles(STOP)'
<1>1. server' \in SV /\ server'.at = "receive"
  BY ServerValues DEF Done, ServerLabels
<1>2. Busy' /\ Told'
  BY <1>1 DEF Busy, Told
<1>3. Calm
  BY <1>1 DEF Calm, Handled, Handles
<1>4. \A c : Announced(c)' = 0 /\ ~Handles(STOP)'
  BY <1>1 DEF Announced, Handles
<1> QED BY <1>1, <1>2, <1>3, <1>4

LEMMA DisconnectType ==
  ASSUME TypeOK, Busy, disconnet_user
  PROVE  TypeOK' /\ \A c \in Clients : NotAdded(c)
<1>1. /\ clients \in [Slots(MAX_NO_USERS) -> Clients \cup {Nobody}]
      /\ clients' = [clients EXCEPT ![server.msg.id] = Nobody]
  BY DEF TypeOK, disconnet_user
<1>2. clients' \in [Slots(MAX_NO_USERS) -> Clients \cup {Nobody}]
  BY <1>1
<1>3. server' \in SV
  BY DoneIs DEF disconnet_user
<1>4. TypeOK'
  BY <1>2, <1>3 DEF TypeOK, disconnet_user, queues, clientOwn, signals, SV, RQ
<1>5. \A c \in Clients : NotAdded(c)
  BY <1>1, <1>2, ChatAssumption DEF NotAdded
<1> QED BY <1>4, <1>5

LEMMA DisconnectInv ==
  ASSUME IInv, disconnet_user, UNCHANGED <<my_queue, zero>>
  PROVE  IInv'
<1>1. /\ TypeOK /\ Busy /\ StopLast /\ StopsInOrder /\ my_queue \subseteq Clients
      /\ \A c \in Clients : Client(c)
  BY Parts
<1>2. TypeOK' /\ \A c \in Clients : NotAdded(c)
  BY <1>1, DisconnectType
<1>3. /\ Busy' /\ Told' /\ Calm
      /\ \A c : Announced(c)' = 0 /\ ~Handles(STOP)'
  BY <1>1, DoneIs DEF disconnet_user
<1>4. /\ UNCHANGED <<existing, requests, inbox, pc, pending, reading>>
  BY DEF disconnet_user, queues, clientOwn, signals
<1>5. StopLast' /\ StopsInOrder'
  BY <1>1, <1>3, <1>4, StopLastKept, OrderKept
<1>6. ASSUME NEW c \in Clients PROVE Client(c)'
  <2>1. Quiet(c)
    BY <1>1, <1>3, <1>4, CalmIsQuiet DEF Client
  <2>2. Same(c)
    BY <1>4 DEF Same
  <2>3. Announced(c)' <= Announced(c)
    BY <1>3, SignalsNumber
  <2> QED BY <1>1, <1>2, <2>1, <2>2, <2>3, Bystander
<1> QED BY <1>1, <1>2, <1>3, <1>5, <1>6, Together

----------------------------------------------------------------------------
\* Signalling who has slot i: only that client is concerned.
LEMMA SignalFacts ==
  ASSUME TypeOK, Busy, NEW i \in DOMAIN clients, Signal(i)
  PROVE  /\ TypeOK' /\ Busy' /\ Told' /\ Calm /\ clients[i] \in Clients
         /\ UNCHANGED <<clients, existing, requests, inbox, pc, blocked, reading, notify>>
         /\ ~Handles(STOP)'
         /\ \A c \in Clients : c # clients[i] => Same(c)
         /\ \A c \in Clients : Announced(c)' = 0 /\ NotAdded(c)
         /\ Announced(clients[i]) = 1
<1> USE DEF Signal, queues, clientOwn
<1>1. clients[i] \in Clients /\ pending \subseteq Clients \X Signals
  BY DEF TypeOK
<1>2. /\ pending' \subseteq Clients \X Signals
      /\ \A c \in Clients :
           c # clients[i] => (<<c, "USR1">> \in pending' <=> <<c, "USR1">> \in pending)
  BY <1>1 DEF Raised, Signals
<1>3. /\ server' \in SV /\ server'.at \in {"handle", "receive"}
      /\ server'.at = "handle" => server'.msg = server.msg /\ server.msg.type = TO_ALL
  <2>1. CASE server.msg.type = TO_ALL
    <3>1. server \in SV /\ i + 1 \in 0 .. MAX_NO_USERS
      <4>1. server \in SV
        BY ServerValues
      <4>2. DOMAIN clients = 0 .. MAX_NO_USERS - 1 /\ MAX_NO_USERS \in Nat
        BY ChatAssumption DEF TypeOK, Slots
      <4> QED BY <4>1, <4>2
    <3> QED BY <2>1, <3>1 DEF SV, ServerLabels
  <2>2. CASE server.msg.type # TO_ALL
    <3>1. Done
      BY <2>2
    <3> QED BY <3>1, DoneIs
  <2> QED BY <2>1, <2>2
<1>4. TypeOK'
  BY <1>2, <1>3 DEF TypeOK, SV, RQ
<1>5. Busy'
  BY <1>3 DEF Busy
<1>6. Told'
  BY <1>3 DEF Told
<1>7. Calm /\ ~Handles(STOP)'
  BY <1>3 DEF Calm, Handled, Handles, STOP, INIT, TO_ALL
<1>8. \A c \in Clients : c # clients[i] => Same(c)
  BY <1>2 DEF Same
<1>9. \A c \in Clients : Announced(c)' = 0 /\ NotAdded(c)
  BY <1>3 DEF Announced, NotAdded
<1>10. Announced(clients[i]) = 1
  BY DEF Announced
<1> QED BY <1>1, <1>4, <1>5, <1>6, <1>7, <1>8, <1>9, <1>10

\* A client that is signalled.
LEMMA RaisedMore ==
  ASSUME TypeOK, NEW c \in Clients, pending' = Raised(c, "USR1"), UNCHANGED <<pc, reading>>
  PROVE  SignalsToCome(c)' <= SignalsToCome(c) + 1
BY DEF SignalsToCome, Raised

LEMMA SignalInv ==
  ASSUME IInv, NEW i \in DOMAIN clients, Signal(i), UNCHANGED <<my_queue, zero>>
  PROVE  IInv'
<1>1. /\ TypeOK /\ Busy /\ StopLast /\ StopsInOrder /\ my_queue \subseteq Clients
      /\ \A c \in Clients : Client(c)
  BY Parts
<1>2. /\ TypeOK' /\ Busy' /\ Told' /\ Calm /\ clients[i] \in Clients
      /\ UNCHANGED <<clients, existing, requests, inbox, pc, blocked, reading, notify>>
      /\ ~Handles(STOP)'
      /\ \A c \in Clients : c # clients[i] => Same(c)
      /\ \A c \in Clients : Announced(c)' = 0 /\ NotAdded(c)
      /\ Announced(clients[i]) = 1
  BY <1>1, SignalFacts
<1>3. StopLast' /\ StopsInOrder'
  BY <1>1, <1>2, StopLastKept, OrderKept
<1>4. \A c \in Clients : Quiet(c)
  BY <1>1, <1>2, CalmIsQuiet DEF Client
<1>5. ASSUME NEW c \in Clients, c # clients[i] PROVE Client(c)'
  <2>1. Announced(c)' <= Announced(c)
    BY <1>2, SignalsNumber
  <2> QED BY <1>1, <1>2, <1>4, <1>5, <2>1, Bystander
<1>6. ASSUME NEW c \in Clients, c = clients[i] PROVE Client(c)'
  <2>1. Registered(c) /\ ~New(c)
    BY <1>1, <1>6 DEF Registered, Client, NewInv
  <2>2. NewInv(c)'
    <3>1. ~New(c)'
      BY <1>2, <1>4, <2>1 DEF New, Quiet
    <3> QED BY <1>1, <1>2, <1>4, <2>1, <3>1 DEF NewInv, Quiet, Client, New
  <2>3. Stopping(c)'
    BY <1>1, <1>2, <1>4 DEF Client, Stopping, Quiet, Alive
  <2>4. SignalsToCome(c)' <= SignalsToCome(c) + 1
    BY <1>1, <1>2, <1>6, RaisedMore DEF Signal, clientOwn
  <2>5. Covered(c)'
    <3>1. TypeOK /\ Covered(c)
      BY <1>1 DEF Client
    <3>2. SignalsToCome(c)' + Announced(c)' <= SignalsToCome(c) + Announced(c)
      BY <1>2, <1>6, <2>4, SignalsNumber DEF SignalsToCome
    <3> QED BY <1>2, <3>1, <3>2, CoveredLess
  <2>6. Answered(c)'
    <3>1. Answered(c) /\ Answers(inbox[c])' = Answers(inbox[c])
      BY <1>1, <1>2 DEF Client, Answers
    <3>2. pc[c] = "wait_init" => Answers(inbox[c]) # {}
      BY <1>6, <3>1 DEF Answered
    <3> QED BY <1>2, <3>1, <3>2 DEF Answered
  <2> QED BY <2>2, <2>3, <2>5, <2>6 DEF Client
<1> QED BY <1>1, <1>2, <1>3, <1>5, <1>6, Together

----------------------------------------------------------------------------
\* Putting a message into the queue of a client.
LEMMA PutFacts ==
  ASSUME TypeOK, NEW c \in Clients, NEW m \in LT, Put(c, m)
  PROVE  /\ inbox' \in [Clients -> Seq(LT)]
         /\ \A d \in Clients : d # c => inbox'[d] = inbox[d]
         /\ inbox'[c] # <<>>
         /\ Len(inbox'[c]) = Len(inbox[c]) + 1 /\ Len(inbox[c]) \in Nat
         /\ DOMAIN inbox[c] = 1 .. Len(inbox[c])
         /\ DOMAIN inbox'[c] = 1 .. Len(inbox[c]) + 1
         /\ \A k \in DOMAIN inbox[c] : inbox'[c][k] = inbox[c][k]
         /\ inbox'[c][Len(inbox[c]) + 1] = m
<1>1. inbox \in [Clients -> Seq(LT)] /\ inbox[c] \in Seq(LT)
  BY DEF TypeOK, LT
<1>2. /\ Append(inbox[c], m) \in Seq(LT) /\ Append(inbox[c], m) # <<>>
      /\ Len(Append(inbox[c], m)) = Len(inbox[c]) + 1
      /\ \A k \in 1 .. Len(inbox[c]) : Append(inbox[c], m)[k] = inbox[c][k]
      /\ Append(inbox[c], m)[Len(inbox[c]) + 1] = m
  BY <1>1, AppendProperties
<1>3. /\ Len(inbox[c]) \in Nat /\ DOMAIN inbox[c] = 1 .. Len(inbox[c])
      /\ DOMAIN Append(inbox[c], m) = 1 .. Len(Append(inbox[c], m))
  BY <1>1, <1>2, LenProperties
<1>4. /\ inbox' = [inbox EXCEPT ![c] = Append(inbox[c], m)]
      /\ inbox'[c] = Append(inbox[c], m)
  BY <1>1 DEF Put
<1>5. /\ inbox' \in [Clients -> Seq(LT)]
      /\ \A d \in Clients : d # c => inbox'[d] = inbox[d]
  BY <1>1, <1>2, <1>4
<1> QED BY <1>2, <1>3, <1>4, <1>5

\* The server sends m to whoever has slot i and is about to signal it.
LEMMA SignalNext ==
  ASSUME TypeOK, Busy, server.at = "handle", NEW i \in DOMAIN clients,
         server' = [server EXCEPT !.at = "signal", !.i = i], UNCHANGED <<clients, requests>>
  PROVE  /\ server' \in SV /\ server'.at = "signal" /\ server'.i = i
         /\ Busy' /\ Told' /\ Calm /\ ~Handles(STOP)'
         /\ \A c : Announced(c) = 0
         /\ \A c : c # clients[i] => Announced(c)' = 0
<1>1. server \in SV /\ i \in 0 .. MAX_NO_USERS
  <2>1. server \in SV
    BY ServerValues
  <2>2. DOMAIN clients = 0 .. MAX_NO_USERS - 1 /\ MAX_NO_USERS \in Nat
    BY ChatAssumption DEF TypeOK, Slots
  <2> QED BY <2>1, <2>2
<1>2. server' \in SV /\ server'.at = "signal" /\ server'.i = i /\ server'.msg = server.msg
  BY <1>1 DEF SV, ServerLabels
<1>3. Busy' /\ Told'
  BY <1>2 DEF Busy, Told
<1>4. Calm /\ ~Handles(STOP)'
  BY <1>2 DEF Calm, Handled, Handles
<1>5. \A c : Announced(c) = 0
  BY DEF Announced
<1>6. \A c : c # clients[i] => Announced(c)' = 0
  BY <1>2 DEF Announced
<1> QED BY <1>2, <1>3, <1>4, <1>5, <1>6

\* A message other than the answer to INIT, into the queue of a client that exists.
LEMMA PutInv ==
  ASSUME IInv, server.at = "handle", NEW i \in DOMAIN clients, NEW m \in LT, m.type # INIT,
         clients[i] \in Clients, clients[i] \in existing, Put(clients[i], m),
         server' = [server EXCEPT !.at = "signal", !.i = i],
         UNCHANGED <<clients, existing, requests, clientOwn, signals, my_queue, zero>>
  PROVE  IInv'
<1> DEFINE c == clients[i]
<1>1. /\ TypeOK /\ Busy /\ StopLast /\ StopsInOrder /\ my_queue \subseteq Clients
      /\ \A d \in Clients : Client(d)
  BY Parts
<1> USE DEF clientOwn, signals
<1>2. /\ server' \in SV /\ server'.at = "signal" /\ server'.i = i
      /\ Busy' /\ Told' /\ Calm /\ ~Handles(STOP)'
      /\ \A d : Announced(d) = 0
      /\ \A d : d # c => Announced(d)' = 0
  BY <1>1, SignalNext
<1>3. /\ inbox' \in [Clients -> Seq(LT)]
      /\ \A d \in Clients : d # c => inbox'[d] = inbox[d]
      /\ inbox'[c] # <<>>
      /\ Len(inbox'[c]) = Len(inbox[c]) + 1 /\ Len(inbox[c]) \in Nat
      /\ DOMAIN inbox[c] = 1 .. Len(inbox[c])
      /\ DOMAIN inbox'[c] = 1 .. Len(inbox[c]) + 1
      /\ \A k \in DOMAIN inbox[c] : inbox'[c][k] = inbox[c][k]
      /\ inbox'[c][Len(inbox[c]) + 1] = m
  BY <1>1, PutFacts
<1>4. TypeOK'
  BY <1>1, <1>2, <1>3 DEF TypeOK, SV, RQ, LT
<1>5. StopLast' /\ StopsInOrder'
  BY <1>1, <1>2, StopLastKept, OrderKept
<1>6. \A d \in Clients : Quiet(d) /\ NotAdded(d)
  BY <1>1, <1>2, CalmIsQuiet DEF Client, NotAdded
<1>7. ASSUME NEW d \in Clients, d # c PROVE Client(d)'
  <2>1. Announced(d)' <= Announced(d)
    BY <1>2, <1>7
  <2>2. Same(d)
    BY <1>3, <1>7 DEF Same
  <2> QED BY <1>1, <1>6, <2>1, <2>2, Bystander
<1>8. Answers(inbox'[c]) = Answers(inbox[c])
  BY <1>3 DEF Answers
<1>9. ASSUME NEW d \in Clients, d = c PROVE Client(d)'
  <2>1. Registered(d) /\ ~New(d) /\ Registered(d)'
    BY <1>1, <1>9 DEF Registered, Client, NewInv
  <2>2. NewInv(d)'
    <3>1. ~New(d)'
      BY <1>6, <2>1 DEF New, Quiet
    <3> QED BY <1>6, <3>1 DEF NewInv, Quiet, New
  <2>3. Stopping(d)'
    BY <1>1, <1>6 DEF Client, Stopping, Quiet, Alive
  <2>4. SignalsToCome(d)' = SignalsToCome(d)
    BY DEF SignalsToCome
  <2>5. Covered(d)'
    <3> DEFINE n == IF Answers(inbox[d]) = {} THEN 0 ELSE 1
    <3>1. n \in Int
      OBVIOUS
    <3>2. (IF Answers(inbox'[d]) = {} THEN 0 ELSE 1) = n
      BY <1>8, <1>9
    <3>3. d \in existing => SignalsToCome(d) + Announced(d) <= Len(inbox[d]) - n
      BY <1>1 DEF Client, Covered
    <3>4. \A k, l \in Answers(inbox'[d]) : k = l
      BY <1>1, <1>8, <1>9 DEF Client, Covered
    <3> HIDE DEF n
    <3>5. SignalsToCome(d)' + Announced(d)' <= Len(inbox'[d]) - n
      <4>1. Announced(d)' \in 0 .. 1
        BY SignalsNumber DEF Announced
      <4>2. SignalsToCome(d) <= Len(inbox[d]) - n
        <5>1. SignalsToCome(d) \in 0 .. 2 /\ Announced(d) = 0
          BY <1>2, SignalsNumber
        <5> QED BY <1>9, <3>3, <5>1
      <4> QED BY <1>3, <1>9, <2>4, <3>1, <4>1, <4>2, SignalsNumber
    <3> QED BY <3>2, <3>4, <3>5 DEF Covered
  <2>6. Answered(d)'
    <3>1. Answered(d)
      BY <1>1 DEF Client
    <3>2. \A k \in Answers(inbox[d]) : inbox'[d][k] = inbox[d][k]
      BY <1>3, <1>9 DEF Answers
    <3> QED BY <1>8, <1>9, <2>4, <3>1, <3>2 DEF Answered
  <2> QED BY <2>2, <2>3, <2>5, <2>6 DEF Client
<1> QED BY <1>1, <1>2, <1>4, <1>5, <1>7, <1>9, Together

LEMMA SendToInv ==
  ASSUME IInv, server.at = "handle", NEW i \in DOMAIN clients, NEW m \in LT, m.type # INIT,
         SendTo(i, m), UNCHANGED <<clients, existing, requests, clientOwn, signals, my_queue, zero>>
  PROVE  IInv'
<1>1. /\ TypeOK /\ Busy /\ Told /\ StopLast /\ StopsInOrder /\ my_queue \subseteq Clients
      /\ \A d \in Clients : Client(d)
  BY Parts
<1>2. clients[i] \in Clients \cup {Nobody}
  BY <1>1 DEF TypeOK
<1>3. CASE /\ clients[i] # Nobody /\ clients[i] \in existing
           /\ Put(clients[i], m)
           /\ server' = [server EXCEPT !.at = "signal", !.i = i]
  BY <1>2, <1>3, PutInv
<1>4. CASE /\ clients[i] = Nobody
           /\ server' = [server EXCEPT !.at = "signal", !.i = i]
           /\ inbox' = inbox
  <2> USE DEF clientOwn, signals
  <2>1. /\ server' \in SV /\ Busy' /\ Told' /\ Calm /\ ~Handles(STOP)'
        /\ \A d : Announced(d) = 0
        /\ \A d : d # Nobody => Announced(d)' = 0
    BY <1>1, <1>4, SignalNext
  <2>2. TypeOK'
    BY <1>1, <1>4, <2>1, TypeServer
  <2>3. StopLast' /\ StopsInOrder'
    BY <1>1, <2>1, StopLastKept, OrderKept
  <2>4. ASSUME NEW d \in Clients PROVE Client(d)'
    <3>1. Quiet(d) /\ NotAdded(d) /\ Same(d)
      BY <1>1, <1>4, <2>1, CalmIsQuiet DEF Client, NotAdded, Same
    <3>2. Announced(d)' <= Announced(d)
      BY <2>1, ChatAssumption
    <3> QED BY <1>1, <3>1, <3>2, Bystander
  <2> QED BY <1>1, <2>1, <2>2, <2>3, <2>4, Together
<1>5. CASE ServerExits /\ inbox' = inbox
  BY <1>5, ServerGoes DEF ServerExits, queues
<1> QED BY <1>3, <1>4, <1>5 DEF SendTo

\* What the server handles, and what it sends.
LEMMA HandledRequest ==
  ASSUME TypeOK, Busy, server.at = "handle"
  PROVE  /\ server.msg.by \in Clients
         /\ server.msg.id \in DOMAIN clients /\ server.msg.to \in DOMAIN clients
         /\ DOMAIN clients = 0 .. MAX_NO_USERS - 1
         /\ \A i \in DOMAIN clients : \A t \in {LIST, TO_ONE, TO_ALL, INIT} :
              [type |-> t, id |-> i] \in LT
         /\ 0 \in DOMAIN clients
<1>1. DOMAIN clients = Slots(MAX_NO_USERS)
  BY DEF TypeOK
<1>2. server.msg \in Requests(Slots(MAX_NO_USERS))
  BY DEF Busy
<1>3. 0 \in Slots(MAX_NO_USERS)
  BY ChatAssumption DEF Slots
<1> QED BY <1>1, <1>2, <1>3 DEF Requests, LT, Letters, Slots

LEMMA LowestSlot ==
  ASSUME TypeOK, NEW T \in SUBSET DOMAIN clients, T # {}
  PROVE  Min(T) \in T /\ Min(T) \in DOMAIN clients
<1>1. T \in SUBSET Nat
  BY ChatAssumption DEF TypeOK, Slots
<1> QED BY <1>1, MinOf

LEMMA ListInv ==
  ASSUME IInv, menage_LIST, UNCHANGED <<my_queue, zero>>
  PROVE  IInv'
<1>1. server.at = "handle" /\ SendTo(server.msg.id, [type |-> LIST, id |-> 0])
  BY DEF menage_LIST, Handles
<1>2. server.msg.id \in DOMAIN clients /\ [type |-> LIST, id |-> 0] \in LT
  BY <1>1, Parts, HandledRequest
<1>3. [type |-> LIST, id |-> 0].type # INIT
  BY DEF LIST, INIT
<1> QED BY <1>1, <1>2, <1>3, SendToInv DEF menage_LIST

LEMMA ToOneInv ==
  ASSUME IInv, send_TO_ONE, UNCHANGED <<my_queue, zero>>
  PROVE  IInv'
<1>1. server.at = "handle" /\ SendTo(server.msg.to, [type |-> TO_ONE, id |-> 0])
  BY DEF send_TO_ONE, Handles
<1>2. server.msg.to \in DOMAIN clients /\ [type |-> TO_ONE, id |-> 0] \in LT
  BY <1>1, Parts, HandledRequest
<1>3. [type |-> TO_ONE, id |-> 0].type # INIT
  BY DEF TO_ONE, INIT
<1> QED BY <1>1, <1>2, <1>3, SendToInv DEF send_TO_ONE

LEMMA ToAllInv ==
  ASSUME IInv, send_TO_ALL, UNCHANGED <<my_queue, zero>>
  PROVE  IInv'
<1>1. server.at = "handle" /\ SendTo(Min(Ahead), [type |-> TO_ALL, id |-> 0])
  BY DEF send_TO_ALL, Handles
<1>2. [type |-> TO_ALL, id |-> 0] \in LT
  BY <1>1, Parts, HandledRequest
<1>3. [type |-> TO_ALL, id |-> 0].type # INIT
  BY DEF TO_ALL, INIT
<1>4. Min(Ahead) \in DOMAIN clients
  <2>1. Ahead \in SUBSET DOMAIN clients /\ Ahead # {}
    BY DEF Ahead, send_TO_ALL
  <2> QED BY <2>1, Parts, LowestSlot
<1> QED BY <1>1, <1>2, <1>3, <1>4, SendToInv DEF send_TO_ALL

----------------------------------------------------------------------------
\* A new client gets the lowest slot that is free, and no other.
LEMMA NewSlot ==
  ASSUME TypeOK, Busy, Handles(INIT), Free # {},
         clients' = [clients EXCEPT ![Min(Free)] = server.msg.by]
  PROVE  /\ Min(Free) \in DOMAIN clients /\ server.msg.by \in Clients
         /\ clients' \in [Slots(MAX_NO_USERS) -> Clients \cup {Nobody}]
         /\ \A d \in Clients : d # server.msg.by => NotAdded(d)
         /\ ~Registered(server.msg.by) =>
              \A i \in DOMAIN clients' : clients'[i] = server.msg.by <=> i = Min(Free)
<1>1. Min(Free) \in DOMAIN clients
  <2>1. Free \in SUBSET DOMAIN clients
    BY DEF Free
  <2> QED BY <2>1, LowestSlot
<1>2. server.msg.by \in Clients
  BY HandledRequest DEF Handles
<1>3. clients \in [Slots(MAX_NO_USERS) -> Clients \cup {Nobody}]
  BY DEF TypeOK
<1>4. clients' \in [Slots(MAX_NO_USERS) -> Clients \cup {Nobody}]
  BY <1>1, <1>2, <1>3
<1> HIDE DEF Free
<1>5. \A i \in DOMAIN clients : clients'[i] = IF i = Min(Free) THEN server.msg.by ELSE clients[i]
  BY <1>1, <1>3
<1>6. DOMAIN clients' = DOMAIN clients
  BY <1>3, <1>4
<1> QED BY <1>1, <1>2, <1>4, <1>5, <1>6 DEF NotAdded, Registered

\* Once INIT has been handled the client has sent no other.
LEMMA InitHandled ==
  ASSUME TypeOK, Handles(INIT), NEW c \in Clients, c = server.msg.by, NewInv(c),
         requests' = requests, server'.at # "handle", pc' = pc
  PROVE  /\ ~Sent(c, INIT)' /\ ~New(c)' /\ pc[c] \notin {"create", "send_init"}
         /\ ~Registered(c) /\ inbox[c] = <<>> /\ SignalsToCome(c) = 0
<1>1. Handled(c, INIT) /\ Sent(c, INIT) /\ New(c)
  BY DEF Handled, Sent, New
<1>2. Asked(c, INIT) = {} /\ pc[c] \notin {"create", "send_init"}
  BY <1>1 DEF NewInv
<1>3. Asked(c, INIT)' = {}
  BY <1>2 DEF Asked
<1>4. ~Handled(c, INIT)'
  BY DEF Handled, Handles
<1>5. ~Sent(c, INIT)' /\ ~New(c)'
  BY <1>2, <1>3, <1>4 DEF Sent, New
<1> QED BY <1>1, <1>2, <1>5 DEF NewInv

LEMMA InitInv ==
  ASSUME IInv, menage_INIT, UNCHANGED <<my_queue, zero>>
  PROVE  IInv'
<1>1. /\ TypeOK /\ Busy /\ Told /\ StopLast /\ StopsInOrder /\ my_queue \subseteq Clients
      /\ \A d \in Clients : Client(d)
  BY Parts
<1>2. /\ Handles(INIT) /\ Done
      /\ UNCHANGED <<existing, requests, pc, my_id, typed, pending, blocked, reading, notify>>
  BY DEF menage_INIT, clientOwn, signals
<1>3. /\ server' \in SV /\ server'.at = "receive" /\ Busy' /\ Told' /\ Calm
      /\ \A d : Announced(d)' = 0 /\ ~Handles(STOP)'
  BY <1>1, <1>2, DoneIs
<1>4. StopLast' /\ StopsInOrder'
  BY <1>1, <1>2, <1>3, StopLastKept, OrderKept
<1>5. PICK c \in Clients : c = server.msg.by
  BY <1>1, <1>2, HandledRequest DEF Handles
<1>6. CASE Free = {}
  <2>1. UNCHANGED <<clients, inbox>>
    BY <1>6 DEF menage_INIT
  <2>2. TypeOK'
    BY <1>1, <1>2, <1>3, <2>1, TypeServer DEF clientOwn
  <2>3. \A d \in Clients : Client(d)'
    <3>1. server'.at # "signal"
      BY <1>3
    <3> QED BY <1>2, <1>3, <2>1, <3>1, ServerIdle
  <2> QED BY <1>1, <1>3, <1>4, <2>2, <2>3, Together
<1>7. CASE Free # {}
  <2>0. PICK n : n = Min(Free)
    OBVIOUS
  <2>1. /\ clients' = [clients EXCEPT ![n] = c]
        /\ c \in existing => Put(c, [type |-> INIT, id |-> n])
        /\ c \notin existing => inbox' = inbox
    BY <1>5, <1>7, <2>0 DEF menage_INIT
  <2>2. /\ ~Sent(c, INIT)' /\ ~New(c)' /\ pc[c] \notin {"create", "send_init"}
        /\ ~Registered(c) /\ inbox[c] = <<>> /\ SignalsToCome(c) = 0
    <3>1. server'.at # "handle" /\ NewInv(c)
      BY <1>1, <1>3, <1>5 DEF Client
    <3> QED BY <1>1, <1>2, <1>5, <3>1, InitHandled
  <2>3. /\ n \in DOMAIN clients
        /\ clients' \in [Slots(MAX_NO_USERS) -> Clients \cup {Nobody}]
        /\ \A d \in Clients : d # c => NotAdded(d)
        /\ \A i \in DOMAIN clients' : clients'[i] = c <=> i = n
    BY <1>1, <1>2, <1>5, <1>7, <2>0, <2>1, <2>2, NewSlot
  <2>4. [type |-> INIT, id |-> n] \in LT
    BY <1>1, <1>2, <2>3, HandledRequest DEF Handles
  <2>5. /\ inbox' \in [Clients -> Seq(LT)]
        /\ \A d \in Clients : d # c => inbox'[d] = inbox[d]
    <3>1. CASE c \in existing
      BY <1>1, <1>5, <2>1, <2>4, <3>1, PutFacts
    <3>2. CASE c \notin existing
      BY <1>1, <2>1, <3>2 DEF TypeOK, LT
    <3> QED BY <3>1, <3>2
  <2>6. TypeOK'
    BY <1>1, <1>2, <1>3, <2>3, <2>5 DEF TypeOK, SV, RQ, LT
  <2>7. \A d \in Clients : Quiet(d)
    BY <1>1, <1>2, <1>3, CalmIsQuiet DEF Client
  <2>8. ASSUME NEW d \in Clients, d # c PROVE Client(d)'
    <3>1. Announced(d)' <= Announced(d)
      BY <1>3, SignalsNumber
    <3>2. Same(d)
      BY <1>2, <2>5, <2>8 DEF Same
    <3> QED BY <1>1, <2>3, <2>7, <2>8, <3>1, <3>2, Bystander
  <2>9. Client(c)'
    <3>1. NewInv(c)' /\ Stopping(c)'
      BY <1>1, <1>2, <1>5, <2>2, <2>7 DEF NewInv, Quiet, New, Stopping, Client, Alive
    <3>2. SignalsToCome(c)' = 0 /\ Announced(c)' = 0
      BY <1>2, <1>3, <2>2 DEF SignalsToCome
    <3>3. CASE c \notin existing
      <4>1. Covered(c)'
        <5>1. inbox'[c] = <<>> /\ c \notin existing'
          BY <1>2, <2>1, <2>2, <3>3
        <5>2. Answers(inbox'[c]) = {}
          BY <5>1 DEF Answers
        <5> QED BY <5>1, <5>2 DEF Covered
      <4>2. pc[c] # "wait_init"
        BY <1>1, <1>5, <3>3 DEF Client, Answered
      <4>3. Answered(c)'
        BY <1>2, <2>2, <4>2 DEF Answered
      <4> QED BY <3>1, <4>1, <4>3 DEF Client
    <3>4. CASE c \in existing
      <4>1. /\ Len(inbox'[c]) = 1 /\ DOMAIN inbox'[c] = 1 .. 1
            /\ inbox'[c][1] = [type |-> INIT, id |-> n]
        <5>1. Len(inbox[c]) = 0
          BY <2>2
        <5>2. /\ Len(inbox'[c]) = Len(inbox[c]) + 1
              /\ DOMAIN inbox'[c] = 1 .. Len(inbox[c]) + 1
              /\ inbox'[c][Len(inbox[c]) + 1] = [type |-> INIT, id |-> n]
          BY <1>1, <1>5, <2>1, <2>4, <3>4, PutFacts
        <5> QED BY <5>1, <5>2
      <4>2. Answers(inbox'[c]) = {1} /\ inbox'[c][1].id = n
        BY <4>1 DEF Answers
      <4>3. Covered(c)'
        <5>1. (IF Answers(inbox'[c]) = {} THEN 0 ELSE 1) = 1
          BY <4>2
        <5>2. \A k, l \in Answers(inbox'[c]) : k = l
          BY <4>2
        <5> QED BY <3>2, <4>1, <5>1, <5>2 DEF Covered
      <4>4. Answered(c)'
        <5>1. Answered(c)
          BY <1>1, <1>5 DEF Client
        <5> QED BY <1>2, <2>2, <2>3, <3>2, <4>2, <5>1 DEF Answered
      <4> QED BY <3>1, <4>3, <4>4 DEF Client
    <3> QED BY <3>3, <3>4
  <2> QED BY <1>1, <1>3, <1>4, <2>6, <2>8, <2>9, Together
<1> QED BY <1>6, <1>7

----------------------------------------------------------------------------
\* A step of client c: what is left to show about c.
LEMMA ClientStepInv ==
  ASSUME IInv, NEW c \in Clients, TypeOK', Client(c)', Requested(c), Remembers,
         \A d \in Clients : d # c => Same(d) /\ (d \in my_queue' <=> d \in my_queue),
         my_queue' \subseteq Clients, UNCHANGED <<clients, server, zero>>
  PROVE  IInv'
<1>1. /\ TypeOK /\ Busy /\ Told /\ StopLast /\ StopsInOrder
      /\ \A d \in Clients : Client(d)
  BY Parts
<1>2. /\ Busy' /\ Told' /\ StopLast'
      /\ \A d \in Clients : NotAdded(d) /\ Announced(d)' = Announced(d)
      /\ \A d \in Clients : d # c /\ NewInv(d) => Quiet(d)
  BY <1>1, ClientMoves
<1>3. StopsInOrder'
  BY <1>1, OrderKept, OrderSubmit DEF Requested
<1>4. ASSUME NEW d \in Clients, d # c PROVE Client(d)'
  <2>1. Quiet(d) /\ NotAdded(d) /\ Announced(d)' <= Announced(d)
    BY <1>1, <1>2, <1>4, SignalsNumber DEF Client
  <2> QED BY <1>1, <1>4, <2>1, Bystander
<1> QED BY <1>2, <1>3, <1>4, Together

\* A step of c that leaves what it has sent as it is.
LEMMA ClientCalm ==
  ASSUME IInv, NEW c \in Clients, UNCHANGED <<clients, server>>,
         requests' = requests \/ requests' = <<>>
  PROVE  Quiet(c) /\ Requested(c) /\ NotAdded(c) /\ Announced(c)' = Announced(c)
<1>1. Calm
  BY DEF Calm, Handled, Handles
<1>2. NewInv(c)
  BY Parts DEF Client
<1>3. Quiet(c)
  BY <1>1, <1>2, CalmIsQuiet
<1> QED BY <1>3 DEF Requested, NotAdded, Announced

LEMMA TypePc ==
  ASSUME TypeOK, NEW c \in Clients, NEW l \in ClientLabels, To(c, l)
  PROVE  /\ pc' \in [Clients -> ClientLabels] /\ pc'[c] = l
         /\ \A d \in Clients : d # c => pc'[d] = pc[d]
BY DEF TypeOK, To

LEMMA GetMessageInv ==
  ASSUME IInv, NEW c \in Clients, GetMessage(c), UNCHANGED <<my_queue, zero>>
  PROVE  IInv'
<1>1. TypeOK /\ my_queue \subseteq Clients /\ Client(c)
  BY Parts
<1> USE DEF GetMessage, queues, clientOwn
<1>2. TypeOK'
  BY <1>1 DEF TypeOK
<1>3. /\ Quiet(c) /\ Requested(c) /\ NotAdded(c) /\ Announced(c)' = Announced(c)
  BY ClientCalm
<1>4. \A d \in Clients : d # c => Same(d)
  BY DEF Same
<1>5. Remembers
  BY DEF Remembers, Alive
<1>6. SignalsToCome(c)' <= SignalsToCome(c)
  BY DEF SignalsToCome
<1>7. Client(c)'
  <2>1. NewInv(c)'
    <3>1. New(c)' => New(c)
      BY <1>3 DEF New, Quiet
    <3>2. SignalsToCome(c)' >= 0
      BY DEF SignalsToCome
    <3>3. SignalsToCome(c) = 0 => SignalsToCome(c)' = 0
      BY <1>6, <3>2, SignalsNumber DEF SignalsToCome
    <3> QED BY <1>1, <1>3, <3>1, <3>3 DEF NewInv, Client, Quiet, Registered
  <2>2. Stopping(c)'
    BY <1>1, <1>3 DEF Client, Stopping, Quiet, Alive
  <2>3. Covered(c)'
    <3>1. SignalsToCome(c)' + Announced(c)' <= SignalsToCome(c) + Announced(c)
      BY <1>3, <1>6, SignalsNumber DEF SignalsToCome
    <3> QED BY <1>1, <3>1, CoveredLess DEF Client
  <2>4. Answered(c)'
    <3>1. SignalsToCome(c)' > 0 => SignalsToCome(c) > 0
      BY <1>6, SignalsNumber DEF SignalsToCome
    <3>2. Answers(inbox[c])' = Answers(inbox[c]) /\ Answered(c)
      BY <1>1 DEF Answers, Client
    <3> QED BY <3>1, <3>2 DEF Answered
  <2> QED BY <2>1, <2>2, <2>3, <2>4 DEF Client
<1> QED BY <1>1, <1>2, <1>3, <1>4, <1>5, <1>7, ClientStepInv

\* c goes on to a part of the program in which it does not wait for its number.
LEMMA LaterNew ==
  ASSUME NEW c \in Clients, NewInv(c), QuietInit(c), NotAdded(c),
         pc'[c] \notin {"create", "send_init"},
         inbox'[c] \in {inbox[c], <<>>}, SignalsToCome(c)' <= SignalsToCome(c)
  PROVE  NewInv(c)'
<1>1. New(c)' => New(c)
  BY DEF New, QuietInit
<1>2. Registered(c)' => Registered(c)
  BY DEF Registered, NotAdded
<1>3. SignalsToCome(c) = 0 => SignalsToCome(c)' = 0
  <2>1. SignalsToCome(c)' >= 0
    BY DEF SignalsToCome
  <2>2. SignalsToCome(c)' \in Int
    BY DEF SignalsToCome
  <2> QED BY <2>1, <2>2
<1> QED BY <1>1, <1>2, <1>3 DEF NewInv, QuietInit

LEMMA LaterInv ==
  ASSUME TypeOK, NEW c \in Clients, Client(c), QuietInit(c), NotAdded(c), Stopping(c)',
         Announced(c)' = Announced(c),
         pc'[c] \notin {"create", "send_init", "wait_init"},
         SignalsToCome(c)' <= SignalsToCome(c),
         \/ inbox'[c] = inbox[c] /\ (c \in existing' => c \in existing)
         \/ inbox'[c] = <<>> /\ c \notin existing'
  PROVE  Client(c)'
<1>1. NewInv(c)'
  BY LaterNew DEF Client
<1>2. Covered(c)'
  <2>1. CASE inbox'[c] = inbox[c] /\ (c \in existing' => c \in existing)
    <3>1. SignalsToCome(c)' + Announced(c)' <= SignalsToCome(c) + Announced(c)
      BY SignalsNumber DEF SignalsToCome
    <3> QED BY <2>1, <3>1, CoveredLess DEF Client
  <2>2. CASE inbox'[c] = <<>> /\ c \notin existing'
    <3>1. Answers(inbox'[c]) = {}
      BY <2>2 DEF Answers
    <3> QED BY <2>2, <3>1 DEF Covered
  <2> QED BY <2>1, <2>2
<1>3. Answered(c)'
  BY DEF Answered
<1> QED BY <1>1, <1>2, <1>3 DEF Client

\* The signals of a process end with it, and interrupting it loses some.
LEMMA DieFacts ==
  ASSUME TypeOK, NEW c \in Clients, Die(c)
  PROVE  /\ pc' \in [Clients -> ClientLabels] /\ pc'[c] = "dead" /\ ~Alive(c)'
         /\ \A d \in Clients : d # c => pc'[d] = pc[d]
         /\ pending' \subseteq Clients \X Signals /\ blocked' \subseteq Clients \X Signals
         /\ reading' \subseteq Clients /\ c \notin reading'
         /\ \A d \in Clients : d # c =>
              /\ <<d, "USR1">> \in pending' <=> <<d, "USR1">> \in pending
              /\ d \in reading' <=> d \in reading
         /\ SignalsToCome(c)' <= SignalsToCome(c)
         /\ Remembers
<1>1. /\ pc' \in [Clients -> ClientLabels] /\ pc'[c] = "dead"
      /\ \A d \in Clients : d # c => pc'[d] = pc[d]
  <2>1. "dead" \in ClientLabels /\ To(c, "dead")
    BY DEF ClientLabels, Die
  <2> QED BY <2>1, TypePc
<1>2. /\ pending' \subseteq Clients \X Signals /\ blocked' \subseteq Clients \X Signals
      /\ reading' \subseteq Clients /\ c \notin reading'
  BY DEF TypeOK, Die
<1>3. \A d \in Clients : d # c =>
        /\ <<d, "USR1">> \in pending' <=> <<d, "USR1">> \in pending
        /\ <<d, "INT">> \in pending' <=> <<d, "INT">> \in pending
        /\ <<d, "INT">> \in blocked' <=> <<d, "INT">> \in blocked
        /\ d \in reading' <=> d \in reading
  BY DEF Die
<1>4. SignalsToCome(c)' <= SignalsToCome(c)
  BY DEF SignalsToCome, Die
<1>5. Remembers
  BY <1>1, <1>3 DEF Remembers, Alive
<1> QED BY <1>1, <1>2, <1>3, <1>4, <1>5 DEF Alive

LEMMA InterruptFacts ==
  ASSUME TypeOK, NEW c \in Clients, NEW l \in ClientLabels, Interrupt(c, l)
  PROVE  /\ TypeOK' /\ pc'[c] = l
         /\ \A d \in Clients : d # c => Same(d)
         /\ SignalsToCome(c)' <= SignalsToCome(c)
         /\ Remembers
         /\ UNCHANGED <<clients, server, requests, inbox, existing>>
<1> USE DEF Interrupt, queues
<1>1. /\ pc' \in [Clients -> ClientLabels] /\ pc'[c] = l
      /\ \A d \in Clients : d # c => pc'[d] = pc[d]
  BY TypePc
<1>2. TypeOK'
  BY <1>1 DEF TypeOK, Signals
<1>3. \A d \in Clients : d # c => Same(d)
  BY <1>1 DEF Same
<1>4. SignalsToCome(c)' <= SignalsToCome(c)
  BY DEF SignalsToCome
<1>5. Remembers
  BY <1>1 DEF Remembers, Alive
<1> QED BY <1>1, <1>2, <1>3, <1>4, <1>5

LEMMA StopInv ==
  ASSUME IInv, NEW c \in Clients, stop(c), UNCHANGED <<my_queue, zero>>
  PROVE  IInv'
<1>1. TypeOK /\ my_queue \subseteq Clients /\ Client(c)
  BY Parts
<1>2. PICK l \in ClientLabels : /\ Interrupt(c, l) /\ l \in {"remove1", "remove2"}
                                /\ pc[c] \in {"remove2", "send2"} => l = "remove2"
  BY DEF stop, ClientLabels
<1>3. /\ TypeOK' /\ pc'[c] = l
      /\ \A d \in Clients : d # c => Same(d)
      /\ SignalsToCome(c)' <= SignalsToCome(c)
      /\ Remembers
      /\ UNCHANGED <<clients, server, requests, inbox, existing>>
  BY <1>1, <1>2, InterruptFacts
<1>4. Quiet(c) /\ Requested(c) /\ NotAdded(c) /\ Announced(c)' = Announced(c)
  BY <1>3, ClientCalm
<1>5. Stopping(c)'
  BY <1>1, <1>2, <1>3, <1>4 DEF Client, Stopping, Quiet, Interrupt, Alive
<1>6. Client(c)'
  BY <1>1, <1>2, <1>3, <1>4, <1>5, LaterInv DEF Quiet, QuietInit
<1> QED BY <1>1, <1>3, <1>4, <1>6, ClientStepInv

LEMMA ReadFailsInv ==
  ASSUME IInv, NEW c \in Clients, ReadFails(c), UNCHANGED <<my_queue, zero>>
  PROVE  IInv'
<1>1. TypeOK /\ my_queue \subseteq Clients /\ Client(c)
  BY Parts
<1>2. /\ UNCHANGED <<clients, server, requests, inbox, existing, my_id, typed, notify>>
      /\ c \in reading /\ c \notin existing
  BY DEF ReadFails, queues
<1>3. Quiet(c) /\ Requested(c) /\ NotAdded(c) /\ Announced(c)' = Announced(c)
  BY <1>2, ClientCalm
<1>4. CASE pc[c] \in {"remove2", "send2"}
  <2>1. Die(c)
    BY <1>4 DEF ReadFails
  <2>2. /\ pc' \in [Clients -> ClientLabels] /\ pc'[c] = "dead" /\ ~Alive(c)'
        /\ \A d \in Clients : d # c => pc'[d] = pc[d]
        /\ pending' \subseteq Clients \X Signals /\ blocked' \subseteq Clients \X Signals
        /\ reading' \subseteq Clients /\ c \notin reading'
        /\ \A d \in Clients : d # c =>
             /\ <<d, "USR1">> \in pending' <=> <<d, "USR1">> \in pending
             /\ d \in reading' <=> d \in reading
        /\ SignalsToCome(c)' <= SignalsToCome(c)
        /\ Remembers
    BY <1>1, <2>1, DieFacts
  <2>3. TypeOK'
    BY <1>1, <1>2, <2>2 DEF TypeOK
  <2>4. \A d \in Clients : d # c => Same(d)
    BY <1>2, <2>2 DEF Same
  <2>5. Stopping(c)'
    BY <2>2 DEF Stopping
  <2>6. Client(c)'
    BY <1>1, <1>2, <1>3, <2>2, <2>5, LaterInv DEF Quiet, QuietInit
  <2> QED BY <1>1, <1>2, <1>3, <2>2, <2>3, <2>4, <2>6, ClientStepInv
<1>5. CASE pc[c] \notin {"remove2", "send2"}
  <2>1. To(c, "remove2") /\ reading' = reading \ {c} /\ UNCHANGED <<pending, blocked>>
    BY <1>5 DEF ReadFails
  <2>2. /\ pc' \in [Clients -> ClientLabels] /\ pc'[c] = "remove2"
        /\ \A d \in Clients : d # c => pc'[d] = pc[d]
    BY <1>1, <2>1, TypePc DEF ClientLabels
  <2>3. TypeOK'
    BY <1>1, <1>2, <2>1, <2>2 DEF TypeOK
  <2>4. \A d \in Clients : d # c => Same(d)
    BY <1>2, <2>1, <2>2 DEF Same
  <2>5. Stopping(c)'
    BY <2>2 DEF Stopping, Alive
  <2>6. SignalsToCome(c)' <= SignalsToCome(c)
    BY <2>1 DEF SignalsToCome
  <2>7. Client(c)'
    BY <1>1, <1>2, <1>3, <2>2, <2>5, <2>6, LaterInv DEF Quiet, QuietInit
  <2>8. Remembers
    <3>1. Alive(c)
      BY <1>1, <1>2 DEF Client, Stopping
    <3> QED BY <2>1, <2>2, <3>1 DEF Remembers, Alive
  <2> QED BY <1>1, <1>2, <1>3, <2>3, <2>4, <2>7, <2>8, ClientStepInv
<1> QED BY <1>4, <1>5

LEMMA SubmitType ==
  ASSUME TypeOK, NEW m \in RQ, Submit(m)
  PROVE  requests' \in Seq(RQ)
BY AppendProperties DEF TypeOK, RQ, Submit

\* What a client sends.
LEMMA ClientRequests ==
  ASSUME TypeOK, NEW c \in Clients
  PROVE  /\ Request(INIT, 0, 0, c) \in RQ /\ Request(STOP, my_id[c], 0, c) \in RQ
         /\ \A m \in Command(c) : m \in RQ /\ m.by = c /\ m.type \notin {STOP, INIT}
         /\ Request(INIT, 0, 0, c).type = INIT /\ Request(INIT, 0, 0, c).by = c
         /\ Request(STOP, my_id[c], 0, c).type = STOP /\ Request(STOP, my_id[c], 0, c).by = c
<1>1. my_id[c] \in Slots(MAX_NO_USERS) /\ 0 \in Slots(MAX_NO_USERS)
      /\ DOMAIN clients = Slots(MAX_NO_USERS)
  BY ChatAssumption DEF TypeOK, Slots
<1> USE DEF RQ, Requests, Request, STOP, LIST, TO_ALL, TO_ONE, INIT
<1>2. Request(INIT, 0, 0, c) \in RQ /\ Request(STOP, my_id[c], 0, c) \in RQ
  BY <1>1
<1>3. \A m \in Command(c) : m \in RQ /\ m.by = c /\ m.type \notin {STOP, INIT}
  BY <1>1 DEF Command
<1> QED BY <1>2, <1>3

LEMMA AliveElsewhere ==
  ASSUME NEW c \in Clients, Alive(c), \A d \in Clients : d # c => pc'[d] = pc[d],
         UNCHANGED <<pending, blocked>>
  PROVE  Remembers
BY DEF Remembers, Alive

LEMMA ChatLineInv ==
  ASSUME IInv, NEW c \in Clients, ChatLine(c), UNCHANGED <<my_queue, zero>>
  PROVE  IInv'
<1>1. TypeOK /\ my_queue \subseteq Clients /\ Client(c)
  BY Parts
<1>2. /\ UNCHANGED <<clients, server, inbox, existing, my_id, pending, blocked, reading, notify>>
      /\ pc[c] = "chat" /\ Alive(c) /\ typed' \in 0 .. MaxCommands
  <2>1. typed \in 0 .. MaxCommands /\ typed < MaxCommands /\ typed' = typed + 1
    BY <1>1 DEF TypeOK, ChatLine
  <2>2. typed' \in 0 .. MaxCommands
    BY <2>1, ChatAssumption
  <2> QED BY <2>2 DEF ChatLine, signals, Runs
<1>3. PICK l \in {"chat", "remove1", "remove2"} :
        To(c, l) /\ (requests' = requests \/ \E m \in Command(c) : Submit(m))
  BY DEF ChatLine, Send
<1>4. /\ pc' \in [Clients -> ClientLabels] /\ pc'[c] = l
      /\ \A d \in Clients : d # c => pc'[d] = pc[d]
  BY <1>1, <1>3, TypePc DEF ClientLabels
<1>5. ~Sent(c, STOP)
  BY <1>1, <1>2 DEF Client, Stopping
<1>6. requests' = requests \/ \E m \in RQ : Submit(m) /\ m.by = c /\ m.type \notin {STOP, INIT}
  BY <1>1, <1>3, ClientRequests
<1>7. requests' \in Seq(RQ)
  BY <1>1, <1>6, SubmitType DEF TypeOK, RQ
<1>8. TypeOK'
  BY <1>1, <1>2, <1>4, <1>7 DEF TypeOK, RQ
<1>9. Requested(c)
  BY <1>5, <1>6 DEF Requested
<1>10. QuietInit(c) /\ ~Sent(c, STOP)'
  <2>1. NewInv(c)
    BY <1>1 DEF Client
  <2>2. CASE requests' = requests
    BY <1>2, <1>5, <2>2, ClientCalm DEF Quiet, QuietInit
  <2>3. CASE \E m \in RQ : Submit(m) /\ m.by = c /\ m.type \notin {STOP, INIT}
    <3>1. PICK m \in RQ : Submit(m) /\ m.by = c /\ m.type \notin {STOP, INIT}
      BY <2>3
    <3>2. QuietInit(c)
      BY <1>1, <1>2, <2>1, <3>1, SubmitsOther
    <3>3. Sent(c, STOP)' => Sent(c, STOP)
      <4>1. Asked(c, STOP)' = Asked(c, STOP) \cup
              (IF m.by = c /\ m.type = STOP THEN {Len(requests) + 1} ELSE {})
        BY <1>1, <3>1, AskedMore DEF STOP
      <4>2. Handled(c, STOP)' = Handled(c, STOP)
        BY <1>2 DEF Handled, Handles
      <4> QED BY <3>1, <4>1, <4>2 DEF Sent
    <3> QED BY <1>5, <3>2, <3>3
  <2> QED BY <1>6, <2>2, <2>3
<1>11. NotAdded(c) /\ Announced(c)' = Announced(c) /\ SignalsToCome(c)' <= SignalsToCome(c)
  BY <1>2, SignalsLess DEF NotAdded, Announced
<1>12. Stopping(c)'
  BY <1>3, <1>4, <1>10 DEF Stopping, Alive
<1>13. Client(c)'
  BY <1>1, <1>2, <1>3, <1>4, <1>10, <1>11, <1>12, LaterInv
<1>14. \A d \in Clients : d # c => Same(d)
  BY <1>2, <1>4 DEF Same
<1>15. Remembers
  BY <1>2, <1>4, AliveElsewhere
<1> QED BY <1>1, <1>2, <1>8, <1>9, <1>13, <1>14, <1>15, ClientStepInv

LEMMA CreateInv ==
  ASSUME IInv, NEW c \in Clients, create_queue(c), UNCHANGED zero
  PROVE  IInv'
<1>1. TypeOK /\ my_queue \subseteq Clients /\ Client(c)
  BY Parts
<1>2. /\ UNCHANGED <<clients, server, inbox, requests, my_id, typed>>
      /\ UNCHANGED <<pending, blocked, reading, notify>>
      /\ pc[c] = "create" /\ Alive(c)
  BY DEF create_queue, signals, Runs
<1>3. Quiet(c) /\ Requested(c) /\ NotAdded(c) /\ Announced(c)' = Announced(c)
  BY <1>2, ClientCalm
<1>4. /\ ~Sent(c, INIT) /\ ~Registered(c) /\ inbox[c] = <<>> /\ SignalsToCome(c) = 0
      /\ ~Sent(c, STOP)
  BY <1>1, <1>2 DEF Client, NewInv, New, Stopping
<1>5. SignalsToCome(c)' = SignalsToCome(c)
  BY <1>2 DEF SignalsToCome
<1>6. CASE existing' = existing \cup {c} /\ my_queue' = my_queue \cup {c} /\ To(c, "send_init")
  <2>1. /\ pc' \in [Clients -> ClientLabels] /\ pc'[c] = "send_init"
        /\ \A d \in Clients : d # c => pc'[d] = pc[d]
    BY <1>1, <1>6, TypePc DEF ClientLabels
  <2>2. TypeOK'
    BY <1>1, <1>2, <1>6, <2>1 DEF TypeOK
  <2>3. /\ \A d \in Clients : d # c => Same(d) /\ (d \in my_queue' <=> d \in my_queue)
        /\ my_queue' \subseteq Clients
    BY <1>1, <1>2, <1>6, <2>1 DEF Same
  <2>4. Remembers
    BY <1>2, <2>1, AliveElsewhere
  <2>5. NewInv(c)'
    <3>1. ~Sent(c, INIT)'
      BY <1>3, <1>4 DEF Quiet
    <3>2. ~Registered(c)'
      BY <1>2, <1>4 DEF Registered
    <3> QED BY <1>2, <1>3, <1>4, <1>5, <3>1, <3>2 DEF NewInv, Quiet
  <2>6. Stopping(c)'
    BY <1>3, <1>4, <2>1 DEF Stopping, Quiet, Alive
  <2>7. Covered(c)'
    <3>1. Announced(c)' = 0
      <4>1. Busy
        BY Parts
      <4> QED BY <1>3, <1>4, <4>1 DEF Announced, Registered, Busy
    <3>2. inbox'[c] = <<>> /\ Answers(inbox'[c]) = {}
      <4>1. inbox'[c] = <<>>
        BY <1>2, <1>4
      <4> QED BY <4>1 DEF Answers
    <3>3. Len(inbox'[c]) - (IF Answers(inbox'[c]) = {} THEN 0 ELSE 1) = 0
      BY <3>2
    <3>4. SignalsToCome(c)' + Announced(c)' = 0
      BY <1>4, <1>5, <3>1
    <3> QED BY <3>2, <3>3, <3>4 DEF Covered
  <2>8. Answered(c)'
    BY <1>6, <2>1 DEF Answered
  <2>9. Client(c)'
    BY <2>5, <2>6, <2>7, <2>8 DEF Client
  <2> QED BY <1>2, <1>3, <2>2, <2>3, <2>4, <2>9, ClientStepInv
<1>7. CASE To(c, "remove2") /\ UNCHANGED <<existing, my_queue>>
  <2>1. /\ pc' \in [Clients -> ClientLabels] /\ pc'[c] = "remove2"
        /\ \A d \in Clients : d # c => pc'[d] = pc[d]
    BY <1>1, <1>7, TypePc DEF ClientLabels
  <2>2. TypeOK'
    BY <1>1, <1>2, <1>7, <2>1 DEF TypeOK
  <2>3. \A d \in Clients : d # c => Same(d)
    BY <1>2, <1>7, <2>1 DEF Same
  <2>4. Remembers
    BY <1>2, <2>1, AliveElsewhere
  <2>5. Stopping(c)'
    BY <2>1 DEF Stopping, Alive
  <2>6. SignalsToCome(c)' <= SignalsToCome(c)
    BY <1>4, <1>5
  <2>7. Client(c)'
    BY <1>1, <1>2, <1>3, <1>7, <2>1, <2>5, <2>6, LaterInv DEF Quiet, QuietInit
  <2> QED BY <1>1, <1>2, <1>3, <1>7, <2>2, <2>3, <2>4, <2>7, ClientStepInv
<1> QED BY <1>6, <1>7 DEF create_queue

LEMMA SendInitInv ==
  ASSUME IInv, NEW c \in Clients, send_INIT(c), UNCHANGED <<my_queue, zero>>
  PROVE  IInv'
<1> DEFINE m == Request(INIT, 0, 0, c)
<1>1. TypeOK /\ my_queue \subseteq Clients /\ Client(c)
  BY Parts
<1>2. /\ UNCHANGED <<clients, server, inbox, existing, my_id, typed>>
      /\ UNCHANGED <<pending, blocked, reading, notify>>
      /\ pc[c] = "send_init" /\ Alive(c) /\ Send(c, m, "wait_init")
  BY DEF send_INIT, signals, Runs
<1>3. /\ ~Sent(c, INIT) /\ ~Registered(c) /\ inbox[c] = <<>> /\ SignalsToCome(c) = 0
      /\ ~Sent(c, STOP) /\ c \in existing /\ c \in my_queue
  BY <1>1, <1>2 DEF Client, NewInv, New, Stopping, Answered
<1>4. SignalsToCome(c)' = SignalsToCome(c)
  BY <1>2 DEF SignalsToCome
<1>5. NotAdded(c) /\ Announced(c)' = Announced(c)
  BY <1>2 DEF NotAdded, Announced
<1>6. m \in RQ /\ m.type = INIT /\ m.by = c
  BY <1>1, ClientRequests
<1> HIDE DEF m
<1>7. CASE Submit(m) /\ To(c, "wait_init")
  <2>1. /\ pc' \in [Clients -> ClientLabels] /\ pc'[c] = "wait_init"
        /\ \A d \in Clients : d # c => pc'[d] = pc[d]
    BY <1>1, <1>7, TypePc DEF ClientLabels
  <2>2. requests' \in Seq(RQ)
    BY <1>1, <1>6, <1>7, SubmitType
  <2>3. TypeOK'
    BY <1>1, <1>2, <2>1, <2>2 DEF TypeOK, RQ
  <2>4. \A d \in Clients : d # c => Same(d)
    BY <1>2, <2>1 DEF Same
  <2>5. Remembers
    BY <1>2, <2>1, AliveElsewhere
  <2>6. Requested(c)
    BY <1>3, <1>6, <1>7 DEF Requested
  <2>7. \A t : Handled(c, t)' = Handled(c, t)
    BY <1>2 DEF Handled, Handles
  <2>8. NewInv(c)'
    <3> USE DEF INIT
    <3>1. Asked(c, INIT) = {} /\ ~Handled(c, INIT)
      BY <1>3 DEF Sent
    <3>2. Asked(c, INIT)' = Asked(c, INIT) \cup
            (IF m.by = c /\ m.type = INIT THEN {Len(requests) + 1} ELSE {})
      BY <1>1, <1>6, <1>7, AskedMore
    <3>3. \A k, l \in Asked(c, INIT)' : k = l
      BY <1>6, <3>1, <3>2
    <3>4. ~Handled(c, INIT)'
      BY <2>7, <3>1
    <3>5. ~Registered(c)' /\ inbox'[c] = <<>> /\ SignalsToCome(c)' = 0
      BY <1>2, <1>3, <1>4 DEF Registered
    <3> QED BY <2>1, <3>3, <3>4, <3>5 DEF NewInv
  <2>9. Stopping(c)'
    <3> USE DEF STOP, INIT
    <3>1. Asked(c, STOP)' = Asked(c, STOP) \cup
            (IF m.by = c /\ m.type = STOP THEN {Len(requests) + 1} ELSE {})
      BY <1>1, <1>6, <1>7, AskedMore
    <3>2. Handled(c, STOP)' = Handled(c, STOP)
      BY <2>7
    <3>3. ~Sent(c, STOP)'
      BY <1>3, <1>6, <3>1, <3>2 DEF Sent
    <3> QED BY <2>1, <3>3 DEF Stopping, Alive
  <2>10. Covered(c)'
    <3>1. SignalsToCome(c)' + Announced(c)' <= SignalsToCome(c) + Announced(c)
      BY <1>4, <1>5, SignalsNumber
    <3> QED BY <1>1, <1>2, <3>1, CoveredLess DEF Client
  <2>11. Answered(c)'
    <3>1. \A i \in DOMAIN clients' : clients'[i] # c
      BY <1>2, <1>3 DEF Registered
    <3> QED BY <1>2, <1>3, <1>4, <3>1 DEF Answered
  <2>12. Client(c)'
    BY <2>8, <2>9, <2>10, <2>11 DEF Client
  <2> QED BY <1>1, <1>2, <2>3, <2>4, <2>5, <2>6, <2>12, ClientStepInv
<1>8. CASE To(c, "remove2") /\ requests' = requests
  <2>1. /\ pc' \in [Clients -> ClientLabels] /\ pc'[c] = "remove2"
        /\ \A d \in Clients : d # c => pc'[d] = pc[d]
    BY <1>1, <1>8, TypePc DEF ClientLabels
  <2>2. TypeOK'
    BY <1>1, <1>2, <1>8, <2>1 DEF TypeOK
  <2>3. \A d \in Clients : d # c => Same(d)
    BY <1>2, <2>1 DEF Same
  <2>4. Remembers
    BY <1>2, <2>1, AliveElsewhere
  <2>5. Quiet(c) /\ Requested(c)
    BY <1>2, <1>8, ClientCalm
  <2>6. Stopping(c)'
    BY <2>1 DEF Stopping, Alive
  <2>7. SignalsToCome(c)' <= SignalsToCome(c)
    BY <1>3, <1>4
  <2>8. Client(c)'
    BY <1>1, <1>2, <1>5, <2>1, <2>5, <2>6, <2>7, LaterInv DEF Quiet, QuietInit
  <2> QED BY <1>1, <1>2, <2>2, <2>3, <2>4, <2>5, <2>8, ClientStepInv
<1> QED BY <1>2, <1>7, <1>8 DEF Send

\* What is left of the answers when message k has been received.
LEMMA AnswersLeft ==
  ASSUME NEW q \in Seq(LT), NEW k \in DOMAIN q, \A i, j \in Answers(q) : i = j
  PROVE  /\ k \in Answers(q) => Answers(RemoveAt(q, k)) = {}
         /\ \A i, j \in Answers(RemoveAt(q, k)) : i = j
         /\ k \notin Answers(q) =>
              \A a \in Answers(q) : \E b \in Answers(RemoveAt(q, k)) : RemoveAt(q, k)[b] = q[a]
         /\ Answers(q) = {} => Answers(RemoveAt(q, k)) = {}
<1> DEFINE r == RemoveAt(q, k)
           n == Len(q)
<1>1. /\ n \in Nat /\ DOMAIN q = 1 .. n /\ DOMAIN r = 1 .. n - 1 /\ k \in 1 .. n
      /\ \A j \in DOMAIN r : r[j] = q[IF j < k THEN j ELSE j + 1]
  BY LenProperties, RemoveAtFacts
<1> HIDE DEF r, n
<1>2. \A j \in Answers(r) :
        (IF j < k THEN j ELSE j + 1) \in Answers(q) \ {k} /\ j \in Int
  BY <1>1 DEF Answers
<1>3. k \in Answers(q) => Answers(r) = {}
  BY <1>2
<1>4. ASSUME NEW i \in Answers(r), NEW j \in Answers(r) PROVE i = j
  <2>1. (IF i < k THEN i ELSE i + 1) = (IF j < k THEN j ELSE j + 1)
    BY <1>2, <1>4
  <2>2. i \in Int /\ j \in Int /\ k \in Int
    BY <1>1, <1>2, <1>4
  <2> QED BY <2>1, <2>2
<1>5. ASSUME k \notin Answers(q), NEW a \in Answers(q)
      PROVE  \E b \in Answers(r) : r[b] = q[a]
  <2>1. a \in 1 .. n /\ a # k /\ q[a].type = INIT
    BY <1>1, <1>5 DEF Answers
  <2>2. CASE a < k
    <3>1. a \in DOMAIN r /\ r[a] = q[a]
      BY <1>1, <2>1, <2>2
    <3>2. a \in Answers(r)
      BY <2>1, <3>1 DEF Answers
    <3> QED BY <3>1, <3>2
  <2>3. CASE a > k
    <3>1. a - 1 \in DOMAIN r /\ r[a - 1] = q[(a - 1) + 1] /\ (a - 1) + 1 = a
      BY <1>1, <2>1, <2>3
    <3>2. a - 1 \in Answers(r) /\ r[a - 1] = q[a]
      BY <2>1, <3>1 DEF Answers
    <3> QED BY <3>2
  <2> QED BY <1>1, <2>1, <2>2, <2>3
<1>6. Answers(q) = {} => Answers(r) = {}
  BY <1>2
<1> QED BY <1>3, <1>4, <1>5, <1>6 DEF r

\* Taking message k out of the queue of c.
LEMMA TakenOut ==
  ASSUME TypeOK, NEW c \in Clients, NEW k \in DOMAIN inbox[c],
         inbox' = [inbox EXCEPT ![c] = RemoveAt(@, k)]
  PROVE  /\ inbox' \in [Clients -> Seq(LT)]
         /\ inbox'[c] = RemoveAt(inbox[c], k)
         /\ \A d \in Clients : d # c => inbox'[d] = inbox[d]
         /\ Len(inbox'[c]) = Len(inbox[c]) - 1 /\ Len(inbox[c]) \in Nat
         /\ inbox[c][k] \in LT /\ inbox[c] # <<>>
<1>1. inbox \in [Clients -> Seq(LT)] /\ inbox[c] \in Seq(LT)
  BY DEF TypeOK, LT
<1>2. /\ RemoveAt(inbox[c], k) \in Seq(LT)
      /\ Len(RemoveAt(inbox[c], k)) = Len(inbox[c]) - 1
  BY <1>1, RemoveAtFacts
<1>3. inbox' = [inbox EXCEPT ![c] = RemoveAt(inbox[c], k)]
  OBVIOUS
<1>4. /\ inbox' \in [Clients -> Seq(LT)]
      /\ inbox'[c] = RemoveAt(inbox[c], k)
      /\ \A d \in Clients : d # c => inbox'[d] = inbox[d]
  BY <1>1, <1>2, <1>3
<1>5. /\ Len(inbox[c]) \in Nat /\ inbox[c][k] \in LT /\ inbox[c] # <<>>
      /\ Len(inbox'[c]) = Len(inbox[c]) - 1
  BY <1>1, <1>2, <1>4, LenProperties, ElementOfSeq
<1> QED BY <1>4, <1>5

LEMMA ReceiveInitInv ==
  ASSUME IInv, NEW c \in Clients, receive_INIT(c), UNCHANGED <<my_queue, zero>>
  PROVE  IInv'
<1>1. TypeOK /\ my_queue \subseteq Clients /\ Client(c)
  BY Parts
<1>2. /\ UNCHANGED <<clients, server, existing, requests, typed, pending, blocked, reading, notify>>
      /\ pc[c] = "wait_init" /\ Alive(c) /\ To(c, "chat") /\ Answers(inbox[c]) # {}
  BY DEF receive_INIT, signals, Runs
<1>3. PICK k \in Answers(inbox[c]) :
        /\ my_id' = [my_id EXCEPT ![c] = inbox[c][k].id]
        /\ inbox' = [inbox EXCEPT ![c] = RemoveAt(@, k)]
  <2>1. Answers(inbox[c]) \in SUBSET Nat
    BY <1>1, InboxIs DEF Answers
  <2>2. Min(Answers(inbox[c])) \in Answers(inbox[c])
    BY <1>2, <2>1, MinOf
  <2> QED BY <2>2 DEF receive_INIT
<1>4. k \in DOMAIN inbox[c]
  BY <1>3 DEF Answers
<1>5. /\ inbox' \in [Clients -> Seq(LT)]
      /\ inbox'[c] = RemoveAt(inbox[c], k)
      /\ \A d \in Clients : d # c => inbox'[d] = inbox[d]
      /\ Len(inbox'[c]) = Len(inbox[c]) - 1 /\ Len(inbox[c]) \in Nat
      /\ inbox[c][k] \in LT /\ inbox[c] # <<>>
  BY <1>1, <1>3, <1>4, TakenOut
<1>6. /\ pc' \in [Clients -> ClientLabels] /\ pc'[c] = "chat"
      /\ \A d \in Clients : d # c => pc'[d] = pc[d]
  BY <1>1, <1>2, TypePc DEF ClientLabels
<1>7. TypeOK'
  <2>1. inbox[c][k].id \in Slots(MAX_NO_USERS)
    BY <1>5 DEF LT, Letters
  <2>2. my_id' \in [Clients -> Slots(MAX_NO_USERS)]
    BY <1>1, <1>3, <2>1 DEF TypeOK
  <2> QED BY <1>1, <1>2, <1>5, <1>6, <2>2 DEF TypeOK, LT
<1>8. \A d \in Clients : d # c => Same(d)
  BY <1>2, <1>5, <1>6 DEF Same
<1>9. Remembers
  BY <1>2, <1>6, AliveElsewhere
<1>10. Quiet(c) /\ Requested(c) /\ NotAdded(c) /\ Announced(c)' = Announced(c)
  BY <1>2, ClientCalm
<1>11. SignalsToCome(c)' = SignalsToCome(c)
  BY <1>2 DEF SignalsToCome
<1>12. Client(c)'
  <2>1. NewInv(c)'
    <3>1. ~New(c)
      BY <1>1, <1>5 DEF Client, NewInv
    <3>2. ~New(c)'
      BY <1>6, <1>10, <3>1 DEF New, Quiet
    <3> QED BY <1>6, <1>10, <3>2 DEF NewInv, Quiet
  <2>2. Stopping(c)'
    BY <1>1, <1>2, <1>6, <1>10 DEF Client, Stopping, Quiet, Alive
  <2>3. Covered(c)'
    <3>1. inbox[c] \in Seq(LT) /\ \A i, j \in Answers(inbox[c]) : i = j
      BY <1>1, InboxIs DEF Client, Covered
    <3>2. Answers(inbox'[c]) = {}
      BY <1>3, <1>4, <1>5, <3>1, AnswersLeft
    <3>3. c \in existing => SignalsToCome(c) + Announced(c) <= Len(inbox[c]) - 1
      BY <1>1, <1>2 DEF Client, Covered
    <3>4. c \in existing' => SignalsToCome(c)' + Announced(c)' <= Len(inbox'[c]) - 0
      BY <1>2, <1>5, <1>10, <1>11, <3>3
    <3> QED BY <3>2, <3>4 DEF Covered
  <2>4. Answered(c)'
    BY <1>6 DEF Answered
  <2> QED BY <2>1, <2>2, <2>3, <2>4 DEF Client
<1> QED BY <1>1, <1>2, <1>7, <1>8, <1>9, <1>10, <1>12, ClientStepInv

\* get_message has received message k.
LEMMA ReadsFacts ==
  ASSUME TypeOK, NEW c \in Clients, NEW k \in DOMAIN inbox[c], Reads(c, k)
  PROVE  /\ TypeOK'
         /\ inbox'[c] = RemoveAt(inbox[c], k)
         /\ Len(inbox'[c]) = Len(inbox[c]) - 1 /\ Len(inbox[c]) \in Nat
         /\ \A d \in Clients : d # c => Same(d)
         /\ c \in reading /\ SignalsToCome(c)' = SignalsToCome(c) - 1
         /\ Remembers
         /\ UNCHANGED <<clients, existing, requests, server, pc, notify>>
<1> USE DEF Reads, clientOwn
<1>1. /\ inbox' \in [Clients -> Seq(LT)]
      /\ inbox'[c] = RemoveAt(inbox[c], k)
      /\ \A d \in Clients : d # c => inbox'[d] = inbox[d]
      /\ Len(inbox'[c]) = Len(inbox[c]) - 1 /\ Len(inbox[c]) \in Nat
  BY TakenOut
<1>2. TypeOK'
  BY <1>1 DEF TypeOK, LT
<1>3. \A d \in Clients : d # c => Same(d)
  BY <1>1 DEF Same
<1>4. c \in reading /\ SignalsToCome(c)' = SignalsToCome(c) - 1
  BY DEF SignalsToCome
<1>5. Remembers
  BY DEF Remembers, Alive
<1> QED BY <1>1, <1>2, <1>3, <1>4, <1>5

LEMMA LetterTypes ==
  ASSUME NEW q \in Seq(LT)
  PROVE  \A i \in 1 .. Len(q) : q[i].type \in {LIST, TO_ALL, TO_ONE, INIT}
<1>1. \A i \in 1 .. Len(q) : q[i] \in LT
  BY ElementOfSeq
<1> QED BY <1>1 DEF LT, Letters

LEMMA ReadInv ==
  ASSUME IInv, NEW c \in Clients, get_message(c), UNCHANGED <<my_queue, zero>>
  PROVE  IInv'
<1>1. TypeOK /\ my_queue \subseteq Clients /\ Client(c)
  BY Parts
<1>2. /\ inbox[c] \in Seq(LT) /\ Len(inbox[c]) \in Nat
      /\ DOMAIN inbox[c] = 1 .. Len(inbox[c]) /\ Len(inbox[c]) > 0
  BY <1>1, InboxIs DEF get_message
<1>3. PICK k : k = Lowest(inbox[c])
  OBVIOUS
<1>4. k \in DOMAIN inbox[c] /\ \A j \in DOMAIN inbox[c] : inbox[c][k].type <= inbox[c][j].type
  <2>1. \A i \in 1 .. Len(inbox[c]) : inbox[c][i].type \in STOP .. INIT
    BY <1>2, LetterTypes DEF STOP, LIST, TO_ALL, TO_ONE, INIT
  <2>2. Len(inbox[c]) \in Nat \ {0}
    BY <1>2
  <2> QED BY <1>2, <1>3, <2>1, <2>2, LowestIs
<1>5. /\ TypeOK'
      /\ inbox'[c] = RemoveAt(inbox[c], k)
      /\ Len(inbox'[c]) = Len(inbox[c]) - 1 /\ Len(inbox[c]) \in Nat
      /\ \A d \in Clients : d # c => Same(d)
      /\ c \in reading /\ SignalsToCome(c)' = SignalsToCome(c) - 1
      /\ Remembers
      /\ UNCHANGED <<clients, existing, requests, server, pc, notify>>
  BY <1>1, <1>3, <1>4, ReadsFacts DEF get_message, HandlerTakes
<1>6. Quiet(c) /\ Requested(c) /\ NotAdded(c) /\ Announced(c)' = Announced(c)
  BY <1>5, ClientCalm
<1>7. \A i, j \in Answers(inbox[c]) : i = j
  BY <1>1 DEF Client, Covered
<1>8. SignalsToCome(c) \in 1 .. 2 /\ SignalsToCome(c)' \in 0 .. 1
  BY <1>5, SignalsNumber DEF SignalsToCome
\* There is another message beside the answer, and it goes first.
<1>9. c \in existing => k \notin Answers(inbox[c])
  <2> SUFFICES ASSUME c \in existing, k \in Answers(inbox[c]) PROVE FALSE
    OBVIOUS
  <2>1. SignalsToCome(c) + Announced(c) <= Len(inbox[c]) - 1
    BY <1>1 DEF Client, Covered
  <2>2. Len(inbox[c]) >= 2
    BY <1>2, <1>8, <2>1, SignalsNumber
  <2>3. PICK j \in DOMAIN inbox[c] : j # k
    <3>1. 1 \in DOMAIN inbox[c] /\ 2 \in DOMAIN inbox[c]
      BY <1>2, <2>2
    <3> QED BY <3>1
  <2>4. inbox[c][k].type = INIT /\ inbox[c][j].type # INIT
    BY <1>7, <2>3 DEF Answers
  <2>5. inbox[c][j].type \in {LIST, TO_ALL, TO_ONE, INIT}
    BY <1>2, <2>3, LetterTypes
  <2> QED BY <1>4, <2>3, <2>4, <2>5 DEF LIST, TO_ALL, TO_ONE, INIT
<1>10. /\ \A i, j \in Answers(inbox'[c]) : i = j
       /\ k \notin Answers(inbox[c]) =>
            \A a \in Answers(inbox[c]) : \E b \in Answers(inbox'[c]) : inbox'[c][b] = inbox[c][a]
       /\ Answers(inbox[c]) = {} => Answers(inbox'[c]) = {}
  BY <1>2, <1>4, <1>5, <1>7, AnswersLeft
<1>11. Client(c)'
  <2>1. NewInv(c)'
    <3>1. ~New(c)
      BY <1>1, <1>8 DEF Client, NewInv
    <3>2. ~New(c)'
      BY <1>5, <1>6, <3>1 DEF New, Quiet
    <3> QED BY <1>6, <3>2 DEF NewInv, Quiet, New
  <2>2. Stopping(c)'
    BY <1>1, <1>5, <1>6 DEF Client, Stopping, Quiet, Alive, Reads, get_message
  <2>3. Covered(c)'
    <3>1. ASSUME c \in existing
          PROVE  SignalsToCome(c)' + Announced(c)'
                   <= Len(inbox'[c]) - (IF Answers(inbox'[c]) = {} THEN 0 ELSE 1)
      <4>1. Answers(inbox'[c]) = {} <=> Answers(inbox[c]) = {}
        BY <1>9, <1>10, <3>1
      <4> DEFINE n == IF Answers(inbox[c]) = {} THEN 0 ELSE 1
      <4>2. n \in Int /\ (IF Answers(inbox'[c]) = {} THEN 0 ELSE 1) = n
        BY <4>1
      <4>3. SignalsToCome(c) + Announced(c) <= Len(inbox[c]) - n
        BY <1>1, <3>1 DEF Client, Covered
      <4> HIDE DEF n
      <4>4. SignalsToCome(c)' + Announced(c)' <= Len(inbox'[c]) - n
        BY <1>2, <1>5, <1>6, <1>8, <4>2, <4>3, SignalsNumber
      <4> QED BY <4>2, <4>4
    <3> QED BY <1>5, <1>10, <3>1 DEF Covered
  <2>4. Answered(c)'
    <3>1. Answered(c)
      BY <1>1 DEF Client
    <3> SUFFICES ASSUME pc[c] = "wait_init"
                 PROVE  /\ \A i \in DOMAIN clients : clients[i] = c =>
                             \E b \in Answers(inbox'[c]) : inbox'[c][b].id = i
                        /\ SignalsToCome(c)' > 0 => Answers(inbox'[c]) # {}
      BY <1>5, <3>1 DEF Answered
    <3>2. k \notin Answers(inbox[c])
      BY <1>9, <3>1 DEF Answered
    <3>3. \A a \in Answers(inbox[c]) : \E b \in Answers(inbox'[c]) : inbox'[c][b] = inbox[c][a]
      BY <1>10, <3>2
    <3>4. Answers(inbox[c]) # {}
      BY <1>8, <3>1 DEF Answered
    <3>5. \A i \in DOMAIN clients : clients[i] = c =>
            \E a \in Answers(inbox[c]) : inbox[c][a].id = i
      BY <3>1 DEF Answered
    <3> QED BY <3>3, <3>4, <3>5
  <2> QED BY <2>1, <2>2, <2>3, <2>4 DEF Client
<1> QED BY <1>1, <1>5, <1>6, <1>11, ClientStepInv

LEMMA RemoveInv ==
  ASSUME IInv, NEW c \in Clients, remove_queue(c), UNCHANGED <<my_queue, zero>>
  PROVE  IInv'
<1>1. TypeOK /\ my_queue \subseteq Clients /\ Client(c)
  BY Parts
<1>2. /\ UNCHANGED <<clients, server, my_id, typed, pending, blocked, reading, notify>>
      /\ Alive(c) /\ (requests' = requests \/ requests' = <<>>)
  BY DEF remove_queue, signals, Runs
<1>3. PICK l \in {"send1", "send2"} : /\ To(c, l)
                                      /\ l = "send1" => pc[c] = "remove1"
  BY DEF remove_queue
<1>4. /\ pc' \in [Clients -> ClientLabels] /\ pc'[c] = l
      /\ \A d \in Clients : d # c => pc'[d] = pc[d]
  BY <1>1, <1>3, TypePc DEF ClientLabels
<1>5. Quiet(c) /\ Requested(c) /\ NotAdded(c) /\ Announced(c)' = Announced(c)
  BY <1>2, ClientCalm
<1>6. \/ inbox' = [inbox EXCEPT ![c] = <<>>] /\ existing' = existing \ {c}
      \/ inbox' = inbox /\ (existing' = existing \/ existing' = existing \ {"server"})
  BY DEF remove_queue
<1>7. inbox \in [Clients -> Seq(LT)] /\ <<>> \in Seq(LT) /\ <<>> \in Seq(RQ)
  BY <1>1 DEF TypeOK, LT
<1>8. inbox' \in [Clients -> Seq(LT)] /\ requests' \in Seq(RQ) /\ existing' \subseteq existing
  <2>1. requests \in Seq(RQ)
    BY <1>1 DEF TypeOK, RQ
  <2>2. requests' \in Seq(RQ)
    BY <1>2, <1>7, <2>1
  <2>3. inbox' \in [Clients -> Seq(LT)]
    BY <1>6, <1>7
  <2>4. existing' \subseteq existing
    BY <1>6
  <2> QED BY <2>2, <2>3, <2>4
<1>9. TypeOK'
  BY <1>1, <1>2, <1>4, <1>8 DEF TypeOK, LT, RQ
<1>10. \A d \in Clients : d # c => inbox'[d] = inbox[d] /\ (d \in existing' <=> d \in existing)
  BY <1>6, <1>7, ChatAssumption
<1>11. \A d \in Clients : d # c => Same(d)
  BY <1>2, <1>4, <1>10 DEF Same
<1>12. Remembers
  BY <1>2, <1>4, AliveElsewhere
<1>13. SignalsToCome(c)' <= SignalsToCome(c)
  BY <1>2, SignalsLess
<1>14. Stopping(c)'
  <2>1. l = "send1" => ~Sent(c, STOP)'
    BY <1>1, <1>3, <1>5 DEF Client, Stopping, Quiet
  <2> QED BY <1>3, <1>4, <2>1 DEF Stopping, Alive
<1>15. \/ inbox'[c] = inbox[c] /\ (c \in existing' => c \in existing)
       \/ inbox'[c] = <<>> /\ c \notin existing'
  BY <1>6, <1>7
<1>16. Client(c)'
  BY <1>1, <1>3, <1>4, <1>5, <1>13, <1>14, <1>15, LaterInv DEF Quiet, QuietInit
<1> QED BY <1>1, <1>2, <1>5, <1>9, <1>11, <1>12, <1>16, ClientStepInv

LEMMA SendStopInv ==
  ASSUME IInv, NEW c \in Clients, send_STOP(c), UNCHANGED <<my_queue, zero>>
  PROVE  IInv'
<1> DEFINE m == Request(STOP, my_id[c], 0, c)
<1>1. TypeOK /\ my_queue \subseteq Clients /\ Client(c)
  BY Parts
<1>2. /\ UNCHANGED <<clients, server, inbox, existing, my_id, typed, notify>>
      /\ Alive(c) /\ (requests' = requests \/ Submit(m))
  BY DEF send_STOP, signals, Runs
<1>3. m \in RQ /\ m.type = STOP /\ m.by = c
  BY <1>1, ClientRequests
<1> HIDE DEF m
<1>4. requests' \in Seq(RQ)
  BY <1>1, <1>2, <1>3, SubmitType DEF TypeOK, RQ
<1>5. Requested(c)
  BY <1>2, <1>3 DEF Requested
<1>6. QuietInit(c)
  <2>1. CASE requests' = requests
    BY <1>2, <2>1, ClientCalm DEF Quiet, QuietInit
  <2>2. CASE Submit(m)
    <3>1. m.type # INIT /\ NewInv(c)
      BY <1>1, <1>3 DEF Client, STOP, INIT
    <3> QED BY <1>1, <1>2, <1>3, <2>2, <3>1, SubmitsOther
  <2> QED BY <1>2, <2>1, <2>2
<1>7. NotAdded(c) /\ Announced(c)' = Announced(c)
  BY <1>2 DEF NotAdded, Announced
<1>8. CASE pc[c] = "send1" /\ To(c, "remove2") /\ UNCHANGED signals
  <2>1. /\ pc' \in [Clients -> ClientLabels] /\ pc'[c] = "remove2"
        /\ \A d \in Clients : d # c => pc'[d] = pc[d]
    BY <1>1, <1>8, TypePc DEF ClientLabels
  <2>2. UNCHANGED <<pending, blocked, reading>>
    BY <1>8 DEF signals
  <2>3. TypeOK'
    BY <1>1, <1>2, <1>4, <2>1, <2>2 DEF TypeOK, RQ
  <2>4. \A d \in Clients : d # c => Same(d)
    BY <1>2, <2>1, <2>2 DEF Same
  <2>5. Remembers
    BY <1>2, <2>1, <2>2, AliveElsewhere
  <2>6. Stopping(c)' /\ SignalsToCome(c)' <= SignalsToCome(c)
    BY <2>1, <2>2, SignalsLess DEF Stopping, Alive
  <2>7. Client(c)'
    BY <1>1, <1>2, <1>6, <1>7, <2>1, <2>6, LaterInv
  <2> QED BY <1>1, <1>2, <1>5, <2>3, <2>4, <2>5, <2>7, ClientStepInv
<1>9. CASE Die(c)
  <2>1. /\ pc' \in [Clients -> ClientLabels] /\ pc'[c] = "dead" /\ ~Alive(c)'
        /\ \A d \in Clients : d # c => pc'[d] = pc[d]
        /\ pending' \subseteq Clients \X Signals /\ blocked' \subseteq Clients \X Signals
        /\ reading' \subseteq Clients /\ c \notin reading'
        /\ \A d \in Clients : d # c =>
             /\ <<d, "USR1">> \in pending' <=> <<d, "USR1">> \in pending
             /\ d \in reading' <=> d \in reading
        /\ SignalsToCome(c)' <= SignalsToCome(c)
        /\ Remembers
    BY <1>1, <1>9, DieFacts
  <2>2. TypeOK'
    BY <1>1, <1>2, <1>4, <2>1 DEF TypeOK, RQ
  <2>3. \A d \in Clients : d # c => Same(d)
    BY <1>2, <2>1 DEF Same
  <2>4. Stopping(c)'
    BY <2>1 DEF Stopping
  <2>5. Client(c)'
    BY <1>1, <1>2, <1>6, <1>7, <2>1, <2>4, LaterInv
  <2> QED BY <1>1, <1>2, <1>5, <2>1, <2>2, <2>3, <2>5, ClientStepInv
<1> QED BY <1>8, <1>9 DEF send_STOP

----------------------------------------------------------------------------
LEMMA InitIInv ==
  ASSUME SysVInit
  PROVE  IInv
<1> USE DEF SysVInit, Init
<1>1. 0 \in Slots(MAX_NO_USERS) /\ MaxCommands \in Nat /\ MAX_NO_USERS \in Nat
  BY ChatAssumption DEF Slots
<1>2. TypeOK
  <2>1. server \in SV
    BY <1>1 DEF SV, ServerLabels
  <2>2. <<>> \in Seq(RQ) /\ <<>> \in Seq(LT)
    OBVIOUS
  <2>3. requests \in Seq(RQ) /\ inbox \in [Clients -> Seq(LT)]
    BY <2>2
  <2>4. /\ pc \in [Clients -> ClientLabels] /\ my_id \in [Clients -> Slots(MAX_NO_USERS)]
        /\ clients \in [Slots(MAX_NO_USERS) -> Clients \cup {Nobody}]
    BY <1>1 DEF ClientLabels
  <2>5. typed \in 0 .. MaxCommands
    BY <1>1
  <2> QED BY <2>1, <2>3, <2>4, <2>5 DEF TypeOK, SV, RQ, LT
<1>3. DOMAIN requests = {}
  OBVIOUS
<1>4. Busy /\ Told /\ StopLast /\ StopsInOrder
  BY <1>3 DEF Busy, Told, StopLast, StopsInOrder, Handles
<1>5. ASSUME NEW c \in Clients PROVE Client(c)
  <2>1. \A t : Asked(c, t) = {} /\ ~Handled(c, t) /\ ~Sent(c, t)
    BY <1>3 DEF Asked, Handled, Handles, Sent
  <2>2. SignalsToCome(c) = 0 /\ Announced(c) = 0
    BY DEF SignalsToCome, Announced
  <2>3. inbox[c] = <<>> /\ Answers(inbox[c]) = {} /\ ~Registered(c)
    <3>1. inbox[c] = <<>>
      OBVIOUS
    <3>2. Answers(inbox[c]) = {}
      BY <3>1 DEF Answers
    <3>3. ~Registered(c)
      BY ChatAssumption DEF Registered
    <3> QED BY <3>1, <3>2, <3>3
  <2>4. NewInv(c)
    BY <2>1, <2>2, <2>3 DEF NewInv
  <2>5. Stopping(c) /\ Answered(c)
    BY <2>1 DEF Stopping, Answered
  <2>6. Covered(c)
    BY <2>2, <2>3 DEF Covered
  <2> QED BY <2>4, <2>5, <2>6 DEF Client
<1> QED BY <1>2, <1>4, <1>5 DEF IInv, ChatInv, Client

LEMMA StutterIInv ==
  ASSUME IInv, UNCHANGED SysVvars
  PROVE  IInv'
<1> USE DEF SysVvars, vars, queues, signals, clientOwn
<1>1. /\ TypeOK /\ Busy /\ Told /\ StopLast /\ StopsInOrder /\ my_queue \subseteq Clients
      /\ \A c \in Clients : Client(c)
  BY Parts
<1>2. TypeOK' /\ Busy' /\ my_queue' \subseteq Clients
  BY <1>1 DEF TypeOK, Busy
<1>3. Told' /\ StopLast' /\ StopsInOrder'
  BY <1>1 DEF Told, IsTold, Alive, StopLast, Handles, StopsInOrder
<1>4. ASSUME NEW c \in Clients PROVE Client(c)'
  <2>1. Calm /\ NotAdded(c) /\ Same(c)
    BY DEF Calm, Handled, Handles, NotAdded, Same
  <2>2. Quiet(c)
    BY <1>1, <2>1, CalmIsQuiet DEF Client
  <2>3. Announced(c)' <= Announced(c)
    BY SignalsNumber DEF Announced
  <2> QED BY <1>1, <2>1, <2>2, <2>3, Bystander
<1> QED BY <1>2, <1>3, <1>4, Together

\* The inductive invariant of zad1.
THEOREM Inductive == Spec => []IInv
<1>1. SysVInit => IInv
  BY InitIInv
<1>2. IInv /\ [Next]_SysVvars => IInv'
  <2> SUFFICES ASSUME IInv, Next PROVE IInv'
    BY StutterIInv
  <2>1. CASE ServerStep /\ UNCHANGED <<my_queue, zero>>
    BY <2>1, ReceiveInv, ReceiveFailsInv, ListInv, ToOneInv, ToAllInv, SentToAllInv, InitInv,
       DisconnectInv, SignalInv, SignalGroupInv, DestroyInv DEF ServerStep
  <2>2. CASE ServerInterrupted /\ UNCHANGED <<my_queue, zero>>
    BY <2>2, InterruptedInv
  <2>3. ASSUME NEW c \in Clients, create_queue(c), UNCHANGED zero PROVE IInv'
    BY <2>3, CreateInv
  <2>4. ASSUME NEW c \in Clients, ClientStep(c), UNCHANGED <<my_queue, zero>> PROVE IInv'
    BY <2>4, SendInitInv, ReceiveInitInv, ChatLineInv, GetMessageInv, ReadInv, ReadFailsInv,
       StopInv, RemoveInv, SendStopInv DEF ClientStep, Finish
  <2> QED BY <2>1, <2>2, <2>3, <2>4 DEF Next
<1> QED BY <1>1, <1>2, PTL DEF Spec

\* Every state of zad1 has values of the types declared for it.
THEOREM TypeCorrect == Spec => []TypeOK
<1>1. IInv => TypeOK
  BY Parts
<1> QED BY <1>1, Inductive, PTL

\* In zad1, when the server handles the STOP of a client nothing but STOP is left in its
\* queue of what that client has sent.
THEOREM StopComesLast == Spec => []StopLast
<1>1. IInv => StopLast
  BY Parts
<1> QED BY <1>1, Inductive, PTL

\* In zad1 destroy_queue reaches every client that is still listed.
THEOREM EverybodyIsTold == Spec => []StopReachesAll
<1>1. IInv => StopReachesAll
  <2> SUFFICES ASSUME IInv, server.at = "dead", NEW c \in Clients, Registered(c), Alive(c)
               PROVE  <<c, "INT">> \in pending \cup blocked
    BY DEF StopReachesAll
  <2>1. PICK i \in DOMAIN clients : clients[i] = c
    BY DEF Registered
  <2>2. IsTold(clients[i])
    BY Parts DEF Told
  <2> QED BY <2>1, <2>2, ChatAssumption DEF IsTold
<1> QED BY <1>1, Inductive, PTL

\* In zad1 no handler of SIGUSR1 ever waits for a message that is not there.
THEOREM NoHandlerWaits == Spec => []SignalsCovered
<1>1. IInv => SignalsCovered
  <2> SUFFICES ASSUME IInv, NEW c \in existing \cap Clients, SignalsToCome(c) > 0
               PROVE  SignalsToCome(c) <= Readable(c) + (IF c \in notify.spent THEN 1 ELSE 0)
    BY DEF SignalsCovered
  <2>1. TypeOK /\ Client(c)
    BY Parts
  <2> DEFINE n == IF Answers(inbox[c]) = {} THEN 0 ELSE 1
             w == IF pc[c] = "wait_init" THEN 1 ELSE 0
             s == IF c \in notify.spent THEN 1 ELSE 0
  <2>2. SignalsToCome(c) + Announced(c) <= Len(inbox[c]) - n
    BY <2>1 DEF Client, Covered
  <2>3. n \in 0 .. 1 /\ w \in 0 .. 1 /\ s \in 0 .. 1 /\ w <= n
    BY <2>1 DEF Client, Answered
  <2>4. Len(inbox[c]) \in Nat
    BY <2>1, InboxIs
  <2>5. Readable(c) = Len(inbox[c]) - w
    BY DEF Readable
  <2> HIDE DEF n, w
  <2>6. SignalsToCome(c) <= Readable(c)
    BY <2>2, <2>3, <2>4, <2>5, SignalsNumber
  <2> HIDE DEF s
  <2>7. SignalsToCome(c) <= Readable(c) + s
    <3>1. Readable(c) \in Int
      BY <2>3, <2>4, <2>5
    <3> QED BY <2>3, <2>6, <3>1, SignalsNumber
  <2> QED BY <2>7 DEF s
<1> QED BY <1>1, Inductive, PTL

\* In zad1 get_message never takes the answer that main waits for.
THEOREM AnswerStays == Spec => []ReplyNotStolen
<1>1. IInv => ReplyNotStolen
  <2> SUFFICES ASSUME IInv, NEW c \in my_queue, Registered(c), pc[c] = "wait_init"
               PROVE  \E k \in DOMAIN inbox[c] :
                        inbox[c][k].type = INIT /\ clients[inbox[c][k].id] = c
    BY DEF ReplyNotStolen
  <2>1. c \in Clients /\ Client(c)
    BY Parts
  <2>2. PICK i \in DOMAIN clients : clients[i] = c
    BY DEF Registered
  <2>3. \E k \in Answers(inbox[c]) : inbox[c][k].id = i
    BY <2>1, <2>2 DEF Client, Answered
  <2> QED BY <2>2, <2>3 DEF Answers
<1> QED BY <1>1, Inductive, PTL

----------------------------------------------------------------------------
(* zad2.  Its operators that are those of Chat are told from the ones above by *)
(* their names only.                                                           *)

LEMMA PosixHelpers ==
  /\ \A S : Posix!Min(S) = Min(S)
  /\ \A q : Posix!Highest(q) = Highest(q)
  /\ \A q, k : Posix!RemoveAt(q, k) = RemoveAt(q, k)
  /\ Posix!Ahead = Ahead /\ Posix!Free = Free
  /\ \A c : Posix!Command(c) = Command(c)
  /\ \A t, i, j, c : Posix!Request(t, i, j, c) = Request(t, i, j, c)
<1>1. \A S : Posix!Min(S) = Min(S)
  BY DEF Posix!Min, Min
<1>2. \A q : Posix!Highest(q) = Highest(q)
  BY <1>1 DEF Posix!Highest, Highest
<1>3. \A q, k : Posix!RemoveAt(q, k) = RemoveAt(q, k)
  BY DEF Posix!RemoveAt, RemoveAt
<1>4. Posix!Ahead = Ahead /\ Posix!Free = Free
  BY DEF Posix!Ahead, Ahead, Posix!Free, Free
<1>5. \A t, i, j, c : Posix!Request(t, i, j, c) = Request(t, i, j, c)
  BY DEF Posix!Request, Request
<1>6. \A c : Posix!Command(c) = Command(c)
  BY <1>5 DEF Posix!Command, Command, Posix!LIST, LIST, Posix!TO_ALL, TO_ALL, Posix!TO_ONE, TO_ONE
<1> QED BY <1>1, <1>2, <1>3, <1>4, <1>5, <1>6

LEMMA PosixServerSteps ==
  /\ \A k : Posix!Take(k) => Take(k)
  /\ \A t : Posix!Handles(t) <=> Handles(t)
  /\ Posix!disconnet_user => disconnet_user
  /\ Posix!SentToAll => SentToAll
  /\ \A i : Posix!Signal(i) => Signal(i)
  /\ \A i : Posix!KillClient(i) => KillClient(i)
  /\ Posix!ServerInterrupted => ServerInterrupted
  /\ Posix!ServerExits => ServerExits
  /\ Posix!Done => Done
  /\ \A l : Posix!Serve(l) => Serve(l)
<1> USE DEF Posix!queues, queues, Posix!signals, signals, Posix!clientOwn, clientOwn,
            Posix!Done, Done, Posix!Serve, Serve, Posix!Handles, Handles,
            Posix!Raised, Raised, Posix!Alive, Alive,
            Posix!STOP, STOP, Posix!TO_ALL, TO_ALL
<1>1. \A k : Posix!Take(k) => Take(k)
  BY PosixHelpers DEF Posix!Take, Take
<1>2. Posix!disconnet_user => disconnet_user
  BY DEF Posix!disconnet_user, disconnet_user
<1>3. Posix!SentToAll => SentToAll
  BY PosixHelpers DEF Posix!SentToAll, SentToAll
<1>4. \A i : Posix!Signal(i) => Signal(i)
  BY DEF Posix!Signal, Signal
<1>5. \A i : Posix!KillClient(i) => KillClient(i)
  BY DEF Posix!KillClient, KillClient
<1>6. Posix!ServerInterrupted => ServerInterrupted
  BY DEF Posix!ServerInterrupted, ServerInterrupted
<1>7. Posix!ServerExits => ServerExits
  BY DEF Posix!ServerExits, ServerExits
<1> QED BY <1>1, <1>2, <1>3, <1>4, <1>5, <1>6, <1>7

LEMMA PosixClientSteps ==
  /\ \A c, l : Posix!To(c, l) => To(c, l)
  /\ \A c, m : Posix!Put(c, m) => Put(c, m)
  /\ \A m : Posix!Submit(m) => Submit(m)
  /\ \A c : Posix!Alive(c) <=> Alive(c)
  /\ \A c, s : Posix!Raised(c, s) = Raised(c, s)
  /\ \A c : Posix!Runs(c) => Alive(c)
  /\ \A c : Posix!Die(c) => Die(c)
  /\ \A c : Posix!GetMessage(c) => GetMessage(c)
  /\ \A c, k : Posix!Reads(c, k) => Reads(c, k)
  /\ \A c, l : Posix!Interrupt(c, l) => Interrupt(c, l)
<1> USE DEF Posix!queues, queues, Posix!signals, signals, Posix!clientOwn, clientOwn,
            Posix!To, To, Posix!Alive, Alive
<1>1. \A c, m : Posix!Put(c, m) => Put(c, m)
  BY DEF Posix!Put, Put
<1>2. \A m : Posix!Submit(m) => Submit(m)
  BY DEF Posix!Submit, Submit
<1>3. \A c, s : Posix!Raised(c, s) = Raised(c, s)
  BY DEF Posix!Raised, Raised
<1>4. \A c : Posix!Runs(c) => Alive(c)
  BY DEF Posix!Runs, Runs
<1>5. \A c : Posix!Die(c) => Die(c)
  BY DEF Posix!Die, Die
<1>6. \A c : Posix!GetMessage(c) => GetMessage(c)
  BY DEF Posix!GetMessage, GetMessage
<1>7. \A c, k : Posix!Reads(c, k) => Reads(c, k)
  BY PosixHelpers DEF Posix!Reads, Reads
<1>8. \A c, l : Posix!Interrupt(c, l) => Interrupt(c, l)
  BY DEF Posix!Interrupt, Interrupt
<1> QED BY <1>1, <1>2, <1>3, <1>4, <1>5, <1>6, <1>7, <1>8

\* The parts of the invariant of ChatPosix that are its own.  Main waits and has been
\* sent something; the signal of mq_notify has been raised.
Owed(c)  == pc[c] = "wait_init" /\ (Registered(c) \/ inbox[c] # <<>> \/ SignalsToCome(c) > 0)
Spent(c) == IF c \in notify.spent THEN 1 ELSE 0

PStopping(c) == Sent(c, STOP) => pc[c] \in {"send1", "close", "dead"}
PNotified(c) ==
    /\ c \notin notify.on \cap notify.spent
    /\ pc[c] \in {"create", "send_init", "wait_init", "notify"} =>
         c \notin notify.on \cup notify.spent
PCovered(c) ==
    c \in existing =>
      /\ SignalsToCome(c) + Announced(c) <= Len(inbox[c]) + Spent(c)
      /\ Owed(c) => SignalsToCome(c) + Announced(c) < Len(inbox[c])
PExists(c) == pc[c] \in {"send_init", "wait_init"} => c \in existing

PClient(c) == NewInv(c) /\ PStopping(c) /\ PNotified(c) /\ PCovered(c) /\ PExists(c)
PosixInv   == TypeOK /\ Busy /\ Told /\ StopLast /\ \A c \in Clients : PClient(c)

LEMMA PosixOwn ==
  ASSUME NEW c
  PROVE  /\ Posix!Stopping(c) <=> PStopping(c)
         /\ Posix!Notified(c) <=> PNotified(c)
         /\ Posix!Covered(c) <=> PCovered(c)
         /\ Posix!Exists(c) <=> PExists(c)
<1>1. Posix!Stopping(c) <=> PStopping(c)
  BY DEF Posix!Stopping, PStopping, Posix!Sent, Sent, Posix!Asked, Asked, Posix!Handled, Handled,
         Posix!Handles, Handles, Posix!STOP, STOP
<1>2. Posix!SignalsToCome(c) = SignalsToCome(c)
  BY DEF Posix!SignalsToCome, SignalsToCome
<1>3. Posix!Announced(c) = Announced(c)
  BY DEF Posix!Announced, Announced
<1>4. Posix!Registered(c) <=> Registered(c)
  BY DEF Posix!Registered, Registered
<1>5. Posix!Covered(c) <=> PCovered(c)
  BY <1>2, <1>3, <1>4, Zenon DEF Posix!Covered, PCovered, Owed, Spent
<1>6. (Posix!Notified(c) <=> PNotified(c)) /\ (Posix!Exists(c) <=> PExists(c))
  BY DEF Posix!Notified, PNotified, Posix!Exists, PExists
<1> QED BY <1>1, <1>5, <1>6

LEMMA PosixParts ==
  /\ Posix!TypeOK <=> TypeOK
  /\ Posix!Busy <=> Busy
  /\ Posix!Told <=> Told
  /\ Posix!StopLast <=> StopLast
  /\ \A c : Posix!NewInv(c) <=> NewInv(c)
<1>1. Posix!TypeOK <=> TypeOK
  BY DEF Posix!TypeOK, TypeOK, Posix!Slots, Slots, Posix!Requests, Requests, Posix!Letters, Letters,
         Posix!ServerLabels, ServerLabels, Posix!ClientLabels, ClientLabels, Posix!Signals, Signals,
         Posix!STOP, STOP, Posix!LIST, LIST, Posix!TO_ALL, TO_ALL, Posix!TO_ONE, TO_ONE,
         Posix!INIT, INIT
<1>2. Posix!Busy <=> Busy
  BY DEF Posix!Busy, Busy, Posix!Slots, Slots, Posix!Requests, Requests,
         Posix!STOP, STOP, Posix!INIT, INIT
<1>3. Posix!Told <=> Told
  BY DEF Posix!Told, Told, Posix!IsTold, IsTold, Posix!Alive, Alive
<1>4. Posix!StopLast <=> StopLast
  BY DEF Posix!StopLast, StopLast, Posix!Handles, Handles, Posix!STOP, STOP
<1>5. \A c : Posix!NewInv(c) <=> NewInv(c)
  <2> TAKE c
  <2>1. \A t : Posix!Asked(c, t) = Asked(c, t) /\ (Posix!Handled(c, t) <=> Handled(c, t))
    BY DEF Posix!Asked, Asked, Posix!Handled, Handled, Posix!Handles, Handles
  <2>2. \A t : Posix!Sent(c, t) <=> Sent(c, t)
    BY <2>1 DEF Posix!Sent, Sent
  <2>3. (Posix!Registered(c) <=> Registered(c)) /\ Posix!SignalsToCome(c) = SignalsToCome(c)
    BY DEF Posix!Registered, Registered, Posix!SignalsToCome, SignalsToCome
  <2> QED BY <2>1, <2>2, <2>3 DEF Posix!NewInv, NewInv, Posix!New, New, Posix!INIT, INIT
<1> QED BY <1>1, <1>2, <1>3, <1>4, <1>5

LEMMA PosixInvIs == Posix!IInv <=> PosixInv
BY PosixParts, PosixOwn DEF Posix!IInv, Posix!ChatInv, PosixInv, PClient

LEMMA PParts ==
  ASSUME PosixInv
  PROVE  /\ TypeOK /\ Busy /\ Told /\ StopLast
         /\ \A c \in Clients : PClient(c) /\ NewInv(c)
BY DEF PosixInv, PClient

\* What is owed remains so unless something happens to the client.
LEMMA POwedLess ==
  ASSUME NEW c, pc'[c] = pc[c], inbox'[c] = inbox[c], NotAdded(c),
         SignalsToCome(c)' <= SignalsToCome(c), Owed(c)'
  PROVE  Owed(c)
<1>1. SignalsToCome(c) \in Int /\ SignalsToCome(c)' \in Int
  BY DEF SignalsToCome
<1>2. Registered(c)' => Registered(c)
  BY DEF Registered, NotAdded
<1> QED BY <1>1, <1>2 DEF Owed

\* With as many messages and no more signals the messages still suffice.
LEMMA PCoveredLess ==
  ASSUME TypeOK, NEW c \in Clients, PCovered(c), inbox'[c] = inbox[c],
         c \in existing' => c \in existing, Spent(c)' = Spent(c), Owed(c)' => Owed(c),
         SignalsToCome(c)' + Announced(c)' <= SignalsToCome(c) + Announced(c)
  PROVE  PCovered(c)'
<1>1. Len(inbox[c]) \in Nat /\ Spent(c) \in Nat
  BY InboxIs DEF Spent
<1>2. /\ SignalsToCome(c) \in Nat /\ Announced(c) \in Nat
      /\ SignalsToCome(c)' \in Nat /\ Announced(c)' \in Nat
  BY SignalsNumber DEF SignalsToCome, Announced
<1>3. ASSUME c \in existing'
      PROVE  SignalsToCome(c)' + Announced(c)' <= Len(inbox'[c]) + Spent(c)'
  <2>1. SignalsToCome(c) + Announced(c) <= Len(inbox[c]) + Spent(c)
    BY <1>3 DEF PCovered
  <2> QED BY <1>1, <1>2, <2>1
<1>4. ASSUME c \in existing', Owed(c)'
      PROVE  SignalsToCome(c)' + Announced(c)' < Len(inbox'[c])
  <2>1. SignalsToCome(c) + Announced(c) < Len(inbox[c])
    BY <1>4 DEF PCovered
  <2> QED BY <1>1, <1>2, <2>1
<1> QED BY <1>3, <1>4 DEF PCovered

\* Whether mq_notify is in force for c, and whether it has signalled c, is as before.
SameNotify(c) == /\ c \in notify.on' <=> c \in notify.on
                 /\ c \in notify.spent' <=> c \in notify.spent

LEMMA PBystander ==
  ASSUME TypeOK, NEW c \in Clients, PClient(c), Quiet(c), Same(c), NotAdded(c),
         Announced(c)' <= Announced(c), SameNotify(c)
  PROVE  PClient(c)'
<1>1. NewInv(c)'
  BY SameNew DEF PClient
<1>2. PStopping(c)' /\ PNotified(c)' /\ PExists(c)'
  BY DEF PClient, PStopping, PNotified, PExists, Quiet, Same, SameNotify
<1>3. SignalsToCome(c)' <= SignalsToCome(c)
  BY SignalsLess DEF Same
<1>4. PCovered(c)'
  <2>1. SignalsToCome(c)' + Announced(c)' <= SignalsToCome(c) + Announced(c)
    BY <1>3, SignalsNumber DEF SignalsToCome, Announced
  <2>2. Owed(c)' => Owed(c)
    BY <1>3, POwedLess DEF Same
  <2>3. Spent(c)' = Spent(c)
    BY DEF Spent, SameNotify
  <2> QED BY <2>1, <2>2, <2>3, PCoveredLess DEF Same, PClient
<1> QED BY <1>1, <1>2, <1>4 DEF PClient

LEMMA PTogether ==
  ASSUME TypeOK', Busy', Told', StopLast', \A c \in Clients : PClient(c)'
  PROVE  PosixInv'
BY DEF PosixInv

\* The server has nothing in hand after the step.
LEMMA PServerEnds ==
  ASSUME PosixInv, server'.at \notin {"handle", "signal"}, TypeOK', Told', requests' = requests,
         existing' = existing \/ existing' = existing \ {"server"},
         \A c \in Clients : <<c, "USR1">> \in pending' => <<c, "USR1">> \in pending,
         UNCHANGED <<clients, inbox, pc, reading, notify>>
  PROVE  PosixInv'
<1>1. /\ TypeOK /\ StopLast
      /\ \A c \in Clients : PClient(c) /\ NewInv(c)
  BY PParts
<1>2. Busy'
  BY DEF Busy
<1>3. StopLast'
  BY <1>1, StopLastKept DEF Handles
<1>4. Calm
  BY DEF Calm, Handled, Handles
<1>5. ASSUME NEW c \in Clients PROVE PClient(c)'
  <2>1. Quiet(c) /\ NotAdded(c) /\ SameNotify(c)
    BY <1>1, <1>4, CalmIsQuiet DEF NotAdded, SameNotify
  <2>2. Same(c)
    BY ChatAssumption DEF Same
  <2>3. Announced(c)' <= Announced(c)
    <3>1. Announced(c)' = 0
      BY DEF Announced
    <3> QED BY <3>1, SignalsNumber
  <2> QED BY <1>1, <2>1, <2>2, <2>3, PBystander
<1> QED BY <1>2, <1>3, <1>5, PTogether

\* The server leaves its loop, or starts on the next request.
LEMMA HandsFree ==
  ASSUME TypeOK, NEW l \in {"receive", "destroy", "exit"},
         server' = [at |-> l, msg |-> Nobody, i |-> 0]
  PROVE  /\ server' \in SV /\ server'.at = l /\ server'.i = 0 /\ Busy' /\ Calm
         /\ \A c : Announced(c)' = 0 /\ ~Handles(STOP)'
<1>1. server' \in SV /\ server'.at = l /\ server'.i = 0
  BY ServerValues DEF ServerLabels
<1>2. Busy' /\ Calm
  BY <1>1 DEF Busy, Calm, Handled, Handles
<1>3. \A c : Announced(c)' = 0 /\ ~Handles(STOP)'
  BY <1>1 DEF Announced, Handles
<1> QED BY <1>1, <1>2, <1>3

LEMMA NobodyPassed ==
  ASSUME TypeOK', server'.i = 0, server'.at # "dead"
  PROVE  Told'
<1>1. \A i \in DOMAIN clients' : ~(i < 0)
  BY ChatAssumption DEF TypeOK, Slots
<1> QED BY <1>1 DEF Told

LEMMA PServerGoes ==
  ASSUME PosixInv, NEW l \in {"receive", "destroy", "exit"},
         server' = [at |-> l, msg |-> Nobody, i |-> 0],
         UNCHANGED <<clients, queues, clientOwn, signals>>
  PROVE  PosixInv'
<1>1. TypeOK
  BY PParts
<1> USE DEF queues, clientOwn, signals
<1>2. server' \in SV /\ server'.at = l /\ server'.i = 0
  BY <1>1, HandsFree
<1>3. TypeOK'
  BY <1>1, <1>2, TypeServer
<1>4. Told'
  BY <1>2, <1>3, NobodyPassed
<1> QED BY <1>2, <1>3, <1>4, PServerEnds

LEMMA PReceiveInv ==
  ASSUME PosixInv, Posix!Receive
  PROVE  PosixInv'
<1>1. /\ TypeOK /\ StopLast
      /\ \A c \in Clients : PClient(c) /\ NewInv(c)
  BY PParts
<1>2. /\ requests \in Seq(RQ) /\ Len(requests) \in Nat \ {0}
      /\ DOMAIN requests = 1 .. Len(requests) /\ server.at = "receive"
  <2>1. requests \in Seq(RQ)
    BY <1>1 DEF TypeOK, RQ
  <2> QED BY <2>1, LenProperties, EmptySeq DEF Posix!Receive
<1>3. \A i \in 1 .. Len(requests) : requests[i].type \in STOP .. INIT
  <2>1. \A i \in 1 .. Len(requests) : requests[i] \in RQ
    BY <1>2, ElementOfSeq
  <2> QED BY <2>1 DEF RQ, Requests
<1>4. PICK k : k = Highest(requests)
  OBVIOUS
<1>5. k \in DOMAIN requests /\ \A j \in DOMAIN requests : requests[k].type >= requests[j].type
  BY <1>2, <1>3, <1>4, HighestIs
<1>6. Take(k)
  BY <1>4, PosixHelpers, PosixServerSteps DEF Posix!Receive
<1>7. TypeOK' /\ Busy' /\ Told' /\ server'.at = "handle" /\ server'.msg = requests[k]
  BY <1>1, <1>5, <1>6, TakeType
\* If that is a STOP there is nothing else in the queue.
<1>8. StopLast'
  <2> SUFFICES ASSUME Handles(STOP)', NEW j \in DOMAIN requests'
               PROVE  requests'[j].type = STOP
    BY DEF StopLast
  <2>1. requests[k].type = STOP
    BY <1>7 DEF Handles
  <2>2. /\ DOMAIN requests' = 1 .. Len(requests) - 1
        /\ requests'[j] = requests[IF j < k THEN j ELSE j + 1]
    BY <1>2, <1>5, <1>6, RemoveAtFacts DEF Take
  <2>3. PICK l \in DOMAIN requests : requests'[j] = requests[l]
    BY <1>2, <2>2
  <2>4. requests[l].type \in STOP .. INIT /\ requests[l].type <= STOP
    BY <1>2, <1>3, <1>5, <2>1, <2>3 DEF STOP, INIT
  <2> QED BY <2>3, <2>4 DEF STOP, INIT
<1>9. ASSUME NEW c \in Clients PROVE PClient(c)'
  <2>1. Quiet(c)
    BY <1>1, <1>2, <1>5, <1>6, TakeIsQuiet
  <2>2. Same(c) /\ NotAdded(c) /\ SameNotify(c)
    BY <1>6 DEF Same, NotAdded, SameNotify, Take, clientOwn, signals
  <2>3. Announced(c)' <= Announced(c)
    <3>1. Announced(c)' = 0
      BY <1>7 DEF Announced
    <3> QED BY <3>1, SignalsNumber
  <2> QED BY <1>1, <2>1, <2>2, <2>3, PBystander
<1> QED BY <1>7, <1>8, <1>9, PTogether

LEMMA PDisconnectInv ==
  ASSUME PosixInv, disconnet_user
  PROVE  PosixInv'
<1>1. /\ TypeOK /\ Busy /\ StopLast
      /\ \A c \in Clients : PClient(c) /\ NewInv(c)
  BY PParts
<1>2. TypeOK' /\ \A c \in Clients : NotAdded(c)
  BY <1>1, DisconnectType
<1>3. /\ Busy' /\ Told' /\ Calm
      /\ \A c : Announced(c)' = 0 /\ ~Handles(STOP)'
  BY <1>1, DoneIs DEF disconnet_user
<1>4. UNCHANGED <<existing, requests, inbox, pc, pending, reading, notify>>
  BY DEF disconnet_user, queues, clientOwn, signals
<1>5. StopLast'
  BY <1>1, <1>3, <1>4, StopLastKept
<1>6. ASSUME NEW c \in Clients PROVE PClient(c)'
  <2>1. Quiet(c)
    BY <1>1, <1>3, <1>4, CalmIsQuiet
  <2>2. Same(c) /\ SameNotify(c)
    BY <1>4 DEF Same, SameNotify
  <2>3. Announced(c)' <= Announced(c)
    BY <1>3, SignalsNumber
  <2> QED BY <1>1, <1>2, <2>1, <2>2, <2>3, PBystander
<1> QED BY <1>2, <1>3, <1>5, <1>6, PTogether

LEMMA PSignalInv ==
  ASSUME PosixInv, NEW i \in DOMAIN clients, Signal(i)
  PROVE  PosixInv'
<1>1. /\ TypeOK /\ Busy /\ StopLast
      /\ \A c \in Clients : PClient(c) /\ NewInv(c)
  BY PParts
<1>2. /\ TypeOK' /\ Busy' /\ Told' /\ Calm /\ clients[i] \in Clients
      /\ UNCHANGED <<clients, existing, requests, inbox, pc, blocked, reading, notify>>
      /\ ~Handles(STOP)'
      /\ \A c \in Clients : c # clients[i] => Same(c)
      /\ \A c \in Clients : Announced(c)' = 0 /\ NotAdded(c)
      /\ Announced(clients[i]) = 1
  BY <1>1, SignalFacts
<1>3. StopLast'
  BY <1>1, <1>2, StopLastKept
<1>4. \A c \in Clients : Quiet(c) /\ SameNotify(c)
  BY <1>1, <1>2, CalmIsQuiet DEF SameNotify
<1>5. ASSUME NEW c \in Clients, c # clients[i] PROVE PClient(c)'
  <2>1. Announced(c)' <= Announced(c)
    BY <1>2, SignalsNumber
  <2> QED BY <1>1, <1>2, <1>4, <1>5, <2>1, PBystander
<1>6. ASSUME NEW c \in Clients, c = clients[i] PROVE PClient(c)'
  <2>1. Registered(c) /\ ~New(c)
    BY <1>1, <1>6 DEF Registered, NewInv
  <2>2. NewInv(c)'
    <3>1. ~New(c)'
      BY <1>2, <1>4, <2>1 DEF New, Quiet
    <3> QED BY <1>4, <3>1 DEF NewInv, Quiet, New
  <2>3. PStopping(c)' /\ PNotified(c)' /\ PExists(c)'
    BY <1>1, <1>2, <1>4 DEF PClient, PStopping, PNotified, PExists, Quiet
  <2>4. SignalsToCome(c)' <= SignalsToCome(c) + 1
    BY <1>1, <1>2, <1>6, RaisedMore DEF Signal, clientOwn
  <2>5. PCovered(c)'
    <3>1. TypeOK /\ PCovered(c)
      BY <1>1 DEF PClient
    <3>2. SignalsToCome(c)' + Announced(c)' <= SignalsToCome(c) + Announced(c)
      BY <1>2, <1>6, <2>4, SignalsNumber DEF SignalsToCome
    <3>3. Owed(c)' => Owed(c)
      BY <1>2, <2>1 DEF Owed
    <3>4. Spent(c)' = Spent(c)
      BY <1>2 DEF Spent
    <3> QED BY <1>2, <3>1, <3>2, <3>3, <3>4, PCoveredLess
  <2> QED BY <2>2, <2>3, <2>5 DEF PClient
<1> QED BY <1>2, <1>3, <1>5, <1>6, PTogether

LEMMA PDestroyInv ==
  ASSUME PosixInv, Posix!destroy_queue
  PROVE  PosixInv'
<1>1. TypeOK /\ Told
  BY PParts
<1> USE DEF queues, clientOwn, signals, Posix!queues, Posix!clientOwn, Posix!signals
<1>2. CASE Posix!SkipSlot
  <2>1. /\ server.at \in {"destroy", "exit"}
        /\ server.i < MAX_NO_USERS /\ clients[server.i] = Nobody
        /\ server' = [server EXCEPT !.i = @ + 1]
        /\ UNCHANGED <<clients, queues, clientOwn, signals>>
    BY <1>2 DEF Posix!SkipSlot
  <2>2. TypeOK' /\ Told' /\ server'.at = server.at
    BY <1>1, <2>1, SkipsTold
  <2> QED BY <2>1, <2>2, PServerEnds
<1>3. CASE Posix!UnlinkServer
  <2>1. /\ server.at \in {"destroy", "exit"} /\ server.i = MAX_NO_USERS
        /\ existing' = existing \ {"server"}
        /\ Serve("dead")
        /\ UNCHANGED <<clients, requests, inbox, clientOwn, signals>>
    BY <1>3, PosixServerSteps DEF Posix!UnlinkServer
  <2>2. server' \in SV /\ server'.at = "dead" /\ Told'
    BY <1>1, <2>1, ToldAtTheEnd
  <2>3. TypeOK'
    BY <1>1, <2>1, <2>2, TypeServer
  <2> QED BY <2>1, <2>2, <2>3, PServerEnds
<1>4. ASSUME NEW i \in DOMAIN clients, Posix!KillClient(i) PROVE PosixInv'
  <2>1. KillClient(i)
    BY <1>4, PosixServerSteps
  <2>2. /\ TypeOK' /\ Told' /\ server'.at \in {"destroy", "exit"}
        /\ \A c \in Clients : <<c, "USR1">> \in pending' => <<c, "USR1">> \in pending
    BY <1>1, <2>1, KillClientTold
  <2> QED BY <2>1, <2>2, PServerEnds DEF KillClient
<1> QED BY <1>2, <1>3, <1>4 DEF Posix!destroy_queue

----------------------------------------------------------------------------
\* A message into the queue of c, and perhaps the one signal of mq_notify with it.
LEMMA PPutInv ==
  ASSUME PosixInv, server.at = "handle", NEW i \in DOMAIN clients, NEW m \in LT,
         NEW c \in Clients, c = clients[i], Put(c, m),
         server' = [server EXCEPT !.at = "signal", !.i = i],
         \/ /\ c \in notify.on
            /\ notify' = [on |-> notify.on \ {c}, spent |-> notify.spent \cup {c}]
            /\ pending' = Raised(c, "USR1")
         \/ notify' = notify /\ pending' = pending,
         UNCHANGED <<clients, existing, requests, clientOwn, blocked, reading>>
  PROVE  PosixInv'
<1>1. /\ TypeOK /\ Busy /\ StopLast
      /\ \A d \in Clients : PClient(d) /\ NewInv(d)
  BY PParts
<1> USE DEF clientOwn
<1>2. /\ server' \in SV /\ server'.at = "signal" /\ server'.i = i
      /\ Busy' /\ Told' /\ Calm /\ ~Handles(STOP)'
      /\ \A d : Announced(d) = 0
      /\ \A d : d # c => Announced(d)' = 0
  BY <1>1, SignalNext
<1>3. /\ inbox' \in [Clients -> Seq(LT)]
      /\ \A d \in Clients : d # c => inbox'[d] = inbox[d]
      /\ Len(inbox'[c]) = Len(inbox[c]) + 1 /\ Len(inbox[c]) \in Nat
  BY <1>1, PutFacts
<1>4. /\ pending' \subseteq Clients \X Signals
      /\ \A d \in Clients : d # c => (<<d, "USR1">> \in pending' <=> <<d, "USR1">> \in pending)
  BY <1>1 DEF TypeOK, Raised, Signals
<1>5. /\ notify' \in [on : SUBSET Clients, spent : SUBSET Clients]
      /\ \A d \in Clients : d # c => SameNotify(d)
  BY <1>1 DEF TypeOK, SameNotify
<1>6. TypeOK'
  BY <1>1, <1>2, <1>3, <1>4, <1>5 DEF TypeOK, SV, RQ, LT
<1>7. StopLast'
  BY <1>1, <1>2, StopLastKept
<1>8. \A d \in Clients : Quiet(d) /\ NotAdded(d)
  BY <1>1, <1>2, CalmIsQuiet DEF NotAdded
<1>9. ASSUME NEW d \in Clients, d # c PROVE PClient(d)'
  <2>1. Announced(d)' <= Announced(d)
    BY <1>2, <1>9
  <2>2. Same(d)
    BY <1>3, <1>4, <1>9 DEF Same
  <2> QED BY <1>1, <1>5, <1>8, <1>9, <2>1, <2>2, PBystander
<1>10. PClient(c)'
  <2>1. Registered(c) /\ ~New(c)
    BY <1>1 DEF Registered, NewInv
  <2>2. NewInv(c)'
    <3>1. ~New(c)'
      BY <1>8, <2>1 DEF New, Quiet
    <3> QED BY <1>8, <3>1 DEF NewInv, Quiet, New
  <2>3. PStopping(c)' /\ PExists(c)'
    BY <1>1, <1>8 DEF PClient, PStopping, PExists, Quiet
  <2>4. PNotified(c)'
    <3>1. PNotified(c) /\ notify.on \subseteq Clients
      BY <1>1 DEF PClient, TypeOK
    <3> QED BY <3>1 DEF PNotified
  <2>5. PCovered(c)'
    <3>1. /\ SignalsToCome(c) \in 0 .. 2 /\ SignalsToCome(c)' \in 0 .. 2
          /\ Announced(c) = 0 /\ Announced(c)' \in 0 .. 1
          /\ Spent(c) \in 0 .. 1
      BY <1>2, SignalsNumber DEF SignalsToCome, Announced, Spent
    <3>2. c \in existing =>
            /\ SignalsToCome(c) <= Len(inbox[c]) + Spent(c)
            /\ Owed(c) => SignalsToCome(c) < Len(inbox[c])
      <4>1. c \in existing =>
              /\ SignalsToCome(c) + Announced(c) <= Len(inbox[c]) + Spent(c)
              /\ Owed(c) => SignalsToCome(c) + Announced(c) < Len(inbox[c])
        BY <1>1 DEF PClient, PCovered
      <4>2. SignalsToCome(c) + Announced(c) = SignalsToCome(c)
        BY <3>1
      <4> QED BY <4>1, <4>2
    <3>3. CASE notify' = notify /\ pending' = pending
      <4>1. SignalsToCome(c)' = SignalsToCome(c) /\ Spent(c)' = Spent(c)
        BY <3>3 DEF SignalsToCome, Spent
      <4>2. Owed(c)' => Owed(c)
        BY <2>1 DEF Owed
      <4>3. c \in existing' => SignalsToCome(c)' + Announced(c)' <= Len(inbox'[c]) + Spent(c)'
        BY <1>3, <3>1, <3>2, <4>1
      <4>4. c \in existing' /\ Owed(c)' => SignalsToCome(c)' + Announced(c)' < Len(inbox'[c])
        BY <1>3, <3>1, <3>2, <4>1, <4>2
      <4> QED BY <4>3, <4>4 DEF PCovered
    <3>4. CASE /\ c \in notify.on
               /\ notify' = [on |-> notify.on \ {c}, spent |-> notify.spent \cup {c}]
               /\ pending' = Raised(c, "USR1")
      <4>1. c \notin notify.spent /\ pc[c] # "wait_init"
        BY <1>1, <3>4 DEF PClient, PNotified
      <4>2. Spent(c) = 0 /\ Spent(c)' = 1
        BY <3>4, <4>1 DEF Spent
      <4>3. SignalsToCome(c)' <= SignalsToCome(c) + 1
        BY <1>1, <3>4, RaisedMore
      <4>4. c \in existing' => SignalsToCome(c)' + Announced(c)' <= Len(inbox'[c]) + Spent(c)'
        BY <1>3, <3>1, <3>2, <4>2, <4>3
      <4>5. ~Owed(c)'
        BY <4>1 DEF Owed
      <4> QED BY <4>4, <4>5 DEF PCovered
    <3> QED BY <3>3, <3>4
  <2> QED BY <2>2, <2>3, <2>4, <2>5 DEF PClient
<1> QED BY <1>2, <1>6, <1>7, <1>9, <1>10, PTogether

LEMMA PSendToInv ==
  ASSUME PosixInv, server.at = "handle", NEW i \in DOMAIN clients, NEW m \in LT,
         Posix!SendTo(i, m), UNCHANGED <<clients, existing, requests, clientOwn, blocked, reading>>
  PROVE  PosixInv'
<1>1. TypeOK
  BY PParts
<1>2. CASE clients[i] # Nobody
  <2>1. PICK c \in Clients : c = clients[i]
    BY <1>1, <1>2 DEF TypeOK
  <2>2. /\ Put(c, m)
        /\ server' = [server EXCEPT !.at = "signal", !.i = i]
        /\ \/ /\ c \in notify.on
              /\ notify' = [on |-> notify.on \ {c}, spent |-> notify.spent \cup {c}]
              /\ pending' = Raised(c, "USR1")
           \/ notify' = notify /\ pending' = pending
    BY <1>2, <2>1, PosixClientSteps DEF Posix!SendTo
  <2> QED BY <2>1, <2>2, PPutInv
<1>3. CASE clients[i] = Nobody
  <2>1. ServerExits /\ UNCHANGED <<inbox, notify, pending>>
    BY <1>3, PosixServerSteps DEF Posix!SendTo
  <2> QED BY <2>1, PServerGoes DEF ServerExits, queues, signals
<1> QED BY <1>2, <1>3

LEMMA PListInv ==
  ASSUME PosixInv, Posix!menage_LIST
  PROVE  PosixInv'
<1>1. server.at = "handle" /\ Posix!SendTo(server.msg.id, [type |-> LIST, id |-> 0])
  BY PosixServerSteps DEF Posix!menage_LIST, Handles, Posix!LIST, LIST
<1>2. server.msg.id \in DOMAIN clients /\ [type |-> LIST, id |-> 0] \in LT
  BY <1>1, PParts, HandledRequest
<1> QED BY <1>1, <1>2, PSendToInv DEF Posix!menage_LIST, Posix!clientOwn, clientOwn

LEMMA PToOneInv ==
  ASSUME PosixInv, Posix!send_TO_ONE
  PROVE  PosixInv'
<1>1. server.at = "handle" /\ Posix!SendTo(server.msg.to, [type |-> TO_ONE, id |-> 0])
  BY PosixServerSteps DEF Posix!send_TO_ONE, Handles, Posix!TO_ONE, TO_ONE
<1>2. server.msg.to \in DOMAIN clients /\ [type |-> TO_ONE, id |-> 0] \in LT
  BY <1>1, PParts, HandledRequest
<1> QED BY <1>1, <1>2, PSendToInv DEF Posix!send_TO_ONE, Posix!clientOwn, clientOwn

LEMMA PToAllInv ==
  ASSUME PosixInv, Posix!send_TO_ALL
  PROVE  PosixInv'
<1>1. /\ server.at = "handle" /\ Ahead # {}
      /\ Posix!SendTo(Min(Ahead), [type |-> TO_ALL, id |-> 0])
  BY PosixServerSteps, PosixHelpers DEF Posix!send_TO_ALL, Handles, Posix!TO_ALL, TO_ALL
<1>2. [type |-> TO_ALL, id |-> 0] \in LT
  BY <1>1, PParts, HandledRequest
<1>3. Min(Ahead) \in DOMAIN clients
  <2>1. Ahead \in SUBSET DOMAIN clients
    BY DEF Ahead
  <2> QED BY <1>1, <2>1, PParts, LowestSlot
<1> QED BY <1>1, <1>2, <1>3, PSendToInv DEF Posix!send_TO_ALL, Posix!clientOwn, clientOwn

LEMMA PInitInv ==
  ASSUME PosixInv, Posix!menage_INIT
  PROVE  PosixInv'
<1>1. /\ TypeOK /\ Busy /\ StopLast
      /\ \A d \in Clients : PClient(d) /\ NewInv(d)
  BY PParts
<1>2. /\ Handles(INIT)
      /\ UNCHANGED <<existing, requests, pc, my_id, typed, pending, blocked, reading, notify>>
  BY PosixServerSteps DEF Posix!menage_INIT, Posix!clientOwn, Posix!signals, Posix!INIT, INIT
<1>3. PICK c \in Clients : c = server.msg.by
  BY <1>1, <1>2, HandledRequest DEF Handles
<1>4. CASE Free = {}
  <2>1. ServerExits /\ UNCHANGED <<clients, inbox>>
    BY <1>4, PosixServerSteps, PosixHelpers DEF Posix!menage_INIT
  <2> QED BY <1>2, <2>1, PServerGoes DEF ServerExits, queues, clientOwn, signals
<1>5. CASE Free # {}
  <2>0. PICK n : n = Min(Free)
    OBVIOUS
  <2>1. /\ clients' = [clients EXCEPT ![n] = c]
        /\ c \in existing => Put(c, [type |-> INIT, id |-> n]) /\ Done
        /\ c \notin existing => inbox' = inbox /\ ServerExits
    BY <1>3, <1>5, <2>0, PosixServerSteps, PosixClientSteps, PosixHelpers
       DEF Posix!menage_INIT, Posix!INIT, INIT
  <2>2. /\ server' \in SV /\ server'.at \in {"receive", "exit"} /\ server'.i = 0
        /\ Busy' /\ Calm
        /\ \A d : Announced(d)' = 0 /\ ~Handles(STOP)'
    <3>1. PICK l \in {"receive", "exit"} : server' = [at |-> l, msg |-> Nobody, i |-> 0]
      BY <2>1 DEF Done, ServerExits
    <3> QED BY <1>1, <3>1, HandsFree
  <2>3. /\ ~Sent(c, INIT)' /\ ~New(c)' /\ pc[c] \notin {"create", "send_init"}
        /\ ~Registered(c) /\ inbox[c] = <<>> /\ SignalsToCome(c) = 0
    BY <1>1, <1>2, <1>3, <2>2, InitHandled
  <2>4. /\ n \in DOMAIN clients
        /\ clients' \in [Slots(MAX_NO_USERS) -> Clients \cup {Nobody}]
        /\ \A d \in Clients : d # c => NotAdded(d)
    BY <1>1, <1>2, <1>3, <1>5, <2>0, <2>1, NewSlot
  <2>5. [type |-> INIT, id |-> n] \in LT
    BY <1>1, <1>2, <2>4, HandledRequest DEF Handles
  <2>6. /\ inbox' \in [Clients -> Seq(LT)]
        /\ \A d \in Clients : d # c => inbox'[d] = inbox[d]
        /\ c \in existing => Len(inbox'[c]) = Len(inbox[c]) + 1
    <3>1. CASE c \in existing
      BY <1>1, <2>1, <2>5, <3>1, PutFacts
    <3>2. CASE c \notin existing
      BY <1>1, <2>1, <3>2 DEF TypeOK, LT
    <3> QED BY <3>1, <3>2
  <2>7. TypeOK'
    BY <1>1, <1>2, <2>2, <2>4, <2>6 DEF TypeOK, SV, RQ, LT
  <2>8. Told' /\ StopLast'
    BY <1>1, <1>2, <2>2, <2>7, NobodyPassed, StopLastKept
  <2>9. \A d \in Clients : Quiet(d) /\ SameNotify(d)
    BY <1>1, <1>2, <2>2, CalmIsQuiet DEF SameNotify
  <2>10. ASSUME NEW d \in Clients, d # c PROVE PClient(d)'
    <3>1. Announced(d)' <= Announced(d)
      BY <2>2, SignalsNumber
    <3>2. Same(d)
      BY <1>2, <2>6, <2>10 DEF Same
    <3> QED BY <1>1, <2>4, <2>9, <2>10, <3>1, <3>2, PBystander
  <2>11. PClient(c)'
    <3>1. NewInv(c)'
      BY <2>3, <2>9 DEF NewInv, Quiet, New
    <3>2. PStopping(c)' /\ PNotified(c)' /\ PExists(c)'
      BY <1>1, <1>2, <2>9 DEF PClient, PStopping, PNotified, PExists, Quiet
    <3>3. SignalsToCome(c)' = 0 /\ Announced(c)' = 0
      BY <1>2, <2>2, <2>3 DEF SignalsToCome
    <3>4. c \in existing' => Len(inbox'[c]) = 1
      BY <1>2, <2>3, <2>6
    <3>5. PCovered(c)'
      <4>1. Spent(c)' \in 0 .. 1 /\ SignalsToCome(c)' + Announced(c)' = 0
        BY <3>3 DEF Spent
      <4> QED BY <3>4, <4>1 DEF PCovered
    <3> QED BY <3>1, <3>2, <3>5 DEF PClient
  <2> QED BY <2>2, <2>7, <2>8, <2>10, <2>11, PTogether
<1> QED BY <1>4, <1>5

LEMMA PServerInv ==
  ASSUME PosixInv,
         \/ Posix!Receive \/ Posix!message_handler
         \/ Posix!destroy_queue \/ Posix!ServerInterrupted
  PROVE  PosixInv'
<1>1. Posix!SentToAll => PosixInv'
  BY PosixServerSteps, PServerGoes DEF SentToAll, Done
<1>2. Posix!ServerInterrupted => PosixInv'
  BY PosixServerSteps, PServerGoes DEF ServerInterrupted
<1>3. Posix!disconnet_user => PosixInv'
  BY PosixServerSteps, PDisconnectInv
<1>4. (\E i \in DOMAIN clients : Posix!Signal(i)) => PosixInv'
  BY PosixServerSteps, PSignalInv
<1>5. Posix!message_handler => PosixInv'
  BY <1>1, <1>3, <1>4, PListInv, PToOneInv, PToAllInv, PInitInv DEF Posix!message_handler
<1> QED BY <1>2, <1>5, PReceiveInv, PDestroyInv

----------------------------------------------------------------------------
\* A step of client c: what is left to show about c.
LEMMA PClientStepInv ==
  ASSUME PosixInv, NEW c \in Clients, TypeOK', PClient(c)', Requested(c), Remembers,
         \A d \in Clients : d # c => Same(d) /\ SameNotify(d),
         UNCHANGED <<clients, server>>
  PROVE  PosixInv'
<1>1. /\ TypeOK /\ Busy /\ Told /\ StopLast
      /\ \A d \in Clients : PClient(d) /\ NewInv(d)
  BY PParts
<1>2. /\ Busy' /\ Told' /\ StopLast'
      /\ \A d \in Clients : NotAdded(d) /\ Announced(d)' = Announced(d)
      /\ \A d \in Clients : d # c /\ NewInv(d) => Quiet(d)
  BY <1>1, ClientMoves
<1>3. ASSUME NEW d \in Clients, d # c PROVE PClient(d)'
  <2>1. Quiet(d) /\ NotAdded(d) /\ Announced(d)' <= Announced(d)
    BY <1>1, <1>2, <1>3, SignalsNumber
  <2> QED BY <1>1, <1>3, <2>1, PBystander
<1> QED BY <1>2, <1>3, PTogether

\* A step of c that leaves what it has sent as it is.
LEMMA PClientCalm ==
  ASSUME NEW c \in Clients, NewInv(c), UNCHANGED <<clients, server, requests>>
  PROVE  Quiet(c) /\ Requested(c) /\ NotAdded(c) /\ Announced(c)' = Announced(c)
<1>1. Calm
  BY DEF Calm, Handled, Handles
<1>2. Quiet(c)
  BY <1>1, CalmIsQuiet
<1> QED BY <1>2 DEF Requested, NotAdded, Announced

\* c goes on to a part of the program in which it has its number.
LEMMA PLaterInv ==
  ASSUME TypeOK, NEW c \in Clients, PClient(c), QuietInit(c), NotAdded(c), PStopping(c)',
         Announced(c)' = Announced(c),
         pc'[c] \notin {"create", "send_init", "wait_init", "notify"},
         SignalsToCome(c)' <= SignalsToCome(c), inbox'[c] = inbox[c],
         c \in existing' => c \in existing,
         c \in notify.spent' <=> c \in notify.spent,
         c \in notify.on' => c \in notify.on \/ c \notin notify.spent
  PROVE  PClient(c)'
<1>1. NewInv(c)'
  BY LaterNew DEF PClient
<1>2. PNotified(c)' /\ PExists(c)'
  BY DEF PNotified, PExists, PClient
<1>3. PCovered(c)'
  <2>1. SignalsToCome(c)' + Announced(c)' <= SignalsToCome(c) + Announced(c)
    BY SignalsNumber DEF SignalsToCome
  <2>2. ~Owed(c)' /\ Spent(c)' = Spent(c)
    BY DEF Owed, Spent
  <2> QED BY <2>1, <2>2, PCoveredLess DEF PClient
<1> QED BY <1>1, <1>2, <1>3 DEF PClient

\* The end of a client.
LEMMA PDieInv ==
  ASSUME PosixInv, NEW c \in Clients, Die(c),
         UNCHANGED <<clients, server, requests, inbox, my_id, typed>>,
         existing' = existing \/ existing' = existing \ {c},
         notify' = notify \/ notify' = [notify EXCEPT !.on = @ \ {c}]
  PROVE  PosixInv'
<1>1. TypeOK /\ PClient(c) /\ NewInv(c)
  BY PParts
<1>2. /\ pc' \in [Clients -> ClientLabels] /\ pc'[c] = "dead" /\ ~Alive(c)'
      /\ \A d \in Clients : d # c => pc'[d] = pc[d]
      /\ pending' \subseteq Clients \X Signals /\ blocked' \subseteq Clients \X Signals
      /\ reading' \subseteq Clients /\ c \notin reading'
      /\ \A d \in Clients : d # c =>
           /\ <<d, "USR1">> \in pending' <=> <<d, "USR1">> \in pending
           /\ d \in reading' <=> d \in reading
      /\ SignalsToCome(c)' <= SignalsToCome(c)
      /\ Remembers
  BY <1>1, DieFacts
<1>3. /\ notify' \in [on : SUBSET Clients, spent : SUBSET Clients]
      /\ notify'.spent = notify.spent /\ notify'.on \subseteq notify.on
      /\ \A d \in Clients : d # c => SameNotify(d)
  <2>1. notify \in [on : SUBSET Clients, spent : SUBSET Clients]
    BY <1>1 DEF TypeOK
  <2>2. CASE notify' = notify
    BY <2>1, <2>2 DEF SameNotify
  <2>3. CASE notify' = [notify EXCEPT !.on = @ \ {c}]
    <3>1. notify'.on = notify.on \ {c} /\ notify'.spent = notify.spent
      BY <2>1, <2>3
    <3> QED BY <2>1, <2>3, <3>1 DEF SameNotify
  <2> QED BY <2>2, <2>3
<1>4. TypeOK'
  BY <1>1, <1>2, <1>3 DEF TypeOK
<1>5. \A d \in Clients : d # c => Same(d)
  BY <1>2 DEF Same
<1>6. Quiet(c) /\ Requested(c) /\ NotAdded(c) /\ Announced(c)' = Announced(c)
  BY <1>1, PClientCalm
<1>7. PStopping(c)'
  BY <1>2 DEF PStopping
<1>8. PClient(c)'
  BY <1>1, <1>2, <1>3, <1>6, <1>7, PLaterInv DEF Quiet, QuietInit
<1> QED BY <1>2, <1>3, <1>4, <1>5, <1>6, <1>8, PClientStepInv

LEMMA POpenInv ==
  ASSUME PosixInv, NEW c \in Clients, Posix!open_queue(c)
  PROVE  PosixInv'
BY PosixClientSteps, PDieInv DEF Posix!open_queue, Posix!queues

LEMMA PCloseInv ==
  ASSUME PosixInv, NEW c \in Clients, Posix!close_queues(c)
  PROVE  PosixInv'
BY PosixClientSteps, PDieInv DEF Posix!close_queues

LEMMA PStopInv ==
  ASSUME PosixInv, NEW c \in Clients, Posix!stop(c)
  PROVE  PosixInv'
<1>1. TypeOK /\ PClient(c) /\ NewInv(c)
  BY PParts
<1>2. Interrupt(c, "send1") /\ notify' = notify
  BY PosixClientSteps DEF Posix!stop, Posix!Interrupt
<1>3. /\ TypeOK' /\ pc'[c] = "send1"
      /\ \A d \in Clients : d # c => Same(d)
      /\ SignalsToCome(c)' <= SignalsToCome(c)
      /\ Remembers
      /\ UNCHANGED <<clients, server, requests, inbox, existing>>
  BY <1>1, <1>2, InterruptFacts DEF ClientLabels
<1>4. Quiet(c) /\ Requested(c) /\ NotAdded(c) /\ Announced(c)' = Announced(c)
  BY <1>1, <1>3, PClientCalm
<1>5. PStopping(c)'
  BY <1>3 DEF PStopping
<1>6. PClient(c)'
  BY <1>1, <1>2, <1>3, <1>4, <1>5, PLaterInv DEF Quiet, QuietInit
<1> QED BY <1>2, <1>3, <1>4, <1>6, PClientStepInv DEF SameNotify

LEMMA PGetMessageInv ==
  ASSUME PosixInv, NEW c \in Clients, GetMessage(c)
  PROVE  PosixInv'
<1>1. TypeOK /\ PClient(c) /\ NewInv(c)
  BY PParts
<1> USE DEF GetMessage, queues, clientOwn
<1>2. TypeOK'
  BY <1>1 DEF TypeOK
<1>3. Quiet(c) /\ Requested(c) /\ NotAdded(c) /\ Announced(c)' = Announced(c)
  BY <1>1, PClientCalm
<1>4. \A d \in Clients : d # c => Same(d) /\ SameNotify(d)
  BY DEF Same, SameNotify
<1>5. Remembers
  BY DEF Remembers, Alive
<1>6. SignalsToCome(c)' <= SignalsToCome(c)
  BY DEF SignalsToCome
<1>7. PClient(c)'
  <2>1. NewInv(c)'
    <3>1. New(c)' => New(c)
      BY <1>3 DEF New, Quiet
    <3>2. SignalsToCome(c) = 0 => SignalsToCome(c)' = 0
      BY <1>6, SignalsNumber DEF SignalsToCome
    <3> QED BY <1>1, <1>3, <3>1, <3>2 DEF NewInv, Quiet, Registered
  <2>2. PStopping(c)' /\ PNotified(c)' /\ PExists(c)'
    BY <1>1, <1>3 DEF PClient, PStopping, PNotified, PExists, Quiet
  <2>3. PCovered(c)'
    <3>1. SignalsToCome(c)' + Announced(c)' <= SignalsToCome(c) + Announced(c)
      BY <1>3, <1>6, SignalsNumber DEF SignalsToCome
    <3>2. (Owed(c)' => Owed(c)) /\ Spent(c)' = Spent(c)
      BY <1>3, <1>6, POwedLess DEF Spent
    <3> QED BY <1>1, <3>1, <3>2, PCoveredLess DEF PClient
  <2> QED BY <2>1, <2>2, <2>3 DEF PClient
<1> QED BY <1>2, <1>3, <1>4, <1>5, <1>7, PClientStepInv

\* The message with the highest priority in the queue of c.
LEMMA HighestLetter ==
  ASSUME TypeOK, NEW c \in Clients, inbox[c] # <<>>
  PROVE  Highest(inbox[c]) \in DOMAIN inbox[c]
<1>1. /\ inbox[c] \in Seq(LT) /\ Len(inbox[c]) \in Nat \ {0}
      /\ DOMAIN inbox[c] = 1 .. Len(inbox[c])
  BY InboxIs
<1>2. \A i \in 1 .. Len(inbox[c]) : inbox[c][i].type \in STOP .. INIT
  BY <1>1, LetterTypes DEF STOP, LIST, TO_ALL, TO_ONE, INIT
<1> QED BY <1>1, <1>2, HighestIs

LEMMA PReadInv ==
  ASSUME PosixInv, NEW c \in Clients, Posix!get_message(c)
  PROVE  PosixInv'
<1>1. TypeOK /\ PClient(c) /\ NewInv(c)
  BY PParts
<1>2. inbox[c] # <<>>
  BY DEF Posix!get_message
<1>3. PICK k \in DOMAIN inbox[c] : Reads(c, k)
  BY <1>1, <1>2, HighestLetter, PosixHelpers, PosixClientSteps DEF Posix!get_message
<1>4. /\ TypeOK'
      /\ Len(inbox'[c]) = Len(inbox[c]) - 1 /\ Len(inbox[c]) \in Nat
      /\ \A d \in Clients : d # c => Same(d)
      /\ SignalsToCome(c)' = SignalsToCome(c) - 1
      /\ Remembers
      /\ UNCHANGED <<clients, existing, requests, server, pc, notify>>
  BY <1>1, <1>3, ReadsFacts
<1>5. Quiet(c) /\ Requested(c) /\ NotAdded(c) /\ Announced(c)' = Announced(c)
  BY <1>1, <1>4, PClientCalm
<1>6. PClient(c)'
  <2>1. NewInv(c)'
    <3>1. ~New(c)'
      BY <1>1, <1>2, <1>4, <1>5 DEF New, Quiet, NewInv
    <3> QED BY <1>5, <3>1 DEF NewInv, Quiet, New
  <2>2. PStopping(c)' /\ PNotified(c)' /\ PExists(c)'
    BY <1>1, <1>4, <1>5 DEF PClient, PStopping, PNotified, PExists, Quiet
  <2>3. PCovered(c)'
    <3>1. /\ SignalsToCome(c) \in 0 .. 2 /\ Announced(c) \in 0 .. 1 /\ Spent(c) \in 0 .. 1
          /\ Spent(c)' = Spent(c)
      BY <1>4, SignalsNumber DEF Spent
    <3>2. c \in existing =>
            /\ SignalsToCome(c) + Announced(c) <= Len(inbox[c]) + Spent(c)
            /\ Owed(c) => SignalsToCome(c) + Announced(c) < Len(inbox[c])
      BY <1>1 DEF PClient, PCovered
    <3>3. Owed(c)' => Owed(c)
      BY <1>2, <1>4 DEF Owed
    <3>4. c \in existing' => SignalsToCome(c)' + Announced(c)' <= Len(inbox'[c]) + Spent(c)'
      BY <1>4, <1>5, <3>1, <3>2
    <3>5. c \in existing' /\ Owed(c)' => SignalsToCome(c)' + Announced(c)' < Len(inbox'[c])
      BY <1>4, <1>5, <3>1, <3>2, <3>3
    <3> QED BY <3>4, <3>5 DEF PCovered
  <2> QED BY <2>1, <2>2, <2>3 DEF PClient
<1> QED BY <1>4, <1>5, <1>6, PClientStepInv DEF SameNotify

LEMMA PCreateInv ==
  ASSUME PosixInv, NEW c \in Clients, Posix!create_queue(c)
  PROVE  PosixInv'
<1>1. TypeOK /\ Busy /\ PClient(c) /\ NewInv(c)
  BY PParts
<1>2. /\ pc[c] = "create" /\ existing' = existing \cup {c} /\ To(c, "send_init")
      /\ UNCHANGED <<clients, requests, inbox, server, my_id, typed>>
      /\ UNCHANGED <<pending, blocked, reading, notify>>
  BY PosixClientSteps DEF Posix!create_queue, Posix!signals
<1>3. /\ pc' \in [Clients -> ClientLabels] /\ pc'[c] = "send_init"
      /\ \A d \in Clients : d # c => pc'[d] = pc[d]
  BY <1>1, <1>2, TypePc DEF ClientLabels
<1>4. TypeOK'
  BY <1>1, <1>2, <1>3 DEF TypeOK
<1>5. \A d \in Clients : d # c => Same(d) /\ SameNotify(d)
  BY <1>2, <1>3 DEF Same, SameNotify
<1>6. Remembers
  BY <1>2, <1>3, AliveElsewhere DEF Alive
<1>7. Quiet(c) /\ Requested(c) /\ NotAdded(c) /\ Announced(c)' = Announced(c)
  BY <1>1, <1>2, PClientCalm
<1>8. /\ ~Sent(c, INIT) /\ ~Registered(c) /\ inbox[c] = <<>> /\ SignalsToCome(c) = 0
      /\ ~Sent(c, STOP)
  BY <1>1, <1>2 DEF PClient, NewInv, New, PStopping
<1>9. SignalsToCome(c)' = 0 /\ inbox'[c] = <<>> /\ ~Registered(c)'
  BY <1>2, <1>8 DEF SignalsToCome, Registered
<1>10. PClient(c)'
  <2>1. NewInv(c)'
    BY <1>7, <1>8, <1>9 DEF NewInv, Quiet
  <2>2. PStopping(c)' /\ PNotified(c)' /\ PExists(c)'
    BY <1>1, <1>2, <1>3, <1>7, <1>8 DEF PClient, PStopping, PNotified, PExists, Quiet
  <2>3. PCovered(c)'
    <3>1. Announced(c)' = 0
      BY <1>1, <1>7, <1>8 DEF Announced, Registered, Busy
    <3>2. Spent(c)' \in 0 .. 1 /\ Len(inbox'[c]) = 0 /\ ~Owed(c)'
      BY <1>3, <1>9 DEF Spent, Owed
    <3> QED BY <1>9, <3>1, <3>2 DEF PCovered
  <2> QED BY <2>1, <2>2, <2>3 DEF PClient
<1> QED BY <1>2, <1>4, <1>5, <1>6, <1>7, <1>10, PClientStepInv

LEMMA PSendInitInv ==
  ASSUME PosixInv, NEW c \in Clients, Posix!send_INIT(c)
  PROVE  PosixInv'
<1> DEFINE m == Request(INIT, 0, 0, c)
<1>1. TypeOK /\ Busy /\ PClient(c) /\ NewInv(c)
  BY PParts
<1>2. /\ pc[c] = "send_init" /\ Submit(m) /\ To(c, "wait_init")
      /\ UNCHANGED <<clients, existing, inbox, server, my_id, typed>>
      /\ UNCHANGED <<pending, blocked, reading, notify>>
  BY PosixClientSteps, PosixHelpers DEF Posix!send_INIT, Posix!signals, Posix!Send, Posix!INIT, INIT
<1>3. /\ ~Sent(c, INIT) /\ ~Registered(c) /\ inbox[c] = <<>> /\ SignalsToCome(c) = 0
      /\ ~Sent(c, STOP) /\ c \in existing
  BY <1>1, <1>2 DEF PClient, NewInv, New, PStopping, PExists
<1>4. m \in RQ /\ m.type = INIT /\ m.by = c
  BY <1>1, ClientRequests
<1> HIDE DEF m
<1>5. /\ pc' \in [Clients -> ClientLabels] /\ pc'[c] = "wait_init"
      /\ \A d \in Clients : d # c => pc'[d] = pc[d]
  BY <1>1, <1>2, TypePc DEF ClientLabels
<1>6. requests' \in Seq(RQ)
  BY <1>1, <1>2, <1>4, SubmitType
<1>7. TypeOK'
  BY <1>1, <1>2, <1>5, <1>6 DEF TypeOK, RQ
<1>8. \A d \in Clients : d # c => Same(d) /\ SameNotify(d)
  BY <1>2, <1>5 DEF Same, SameNotify
<1>9. Remembers
  BY <1>2, <1>5, AliveElsewhere DEF Alive
<1>10. Requested(c)
  BY <1>2, <1>3, <1>4 DEF Requested
<1>11. \A t : Handled(c, t)' = Handled(c, t)
  BY <1>2 DEF Handled, Handles
<1>12. SignalsToCome(c)' = 0 /\ inbox'[c] = <<>> /\ ~Registered(c)'
  BY <1>2, <1>3 DEF SignalsToCome, Registered
<1>13. NewInv(c)'
  <2> USE DEF INIT
  <2>1. Asked(c, INIT) = {} /\ ~Handled(c, INIT)
    BY <1>3 DEF Sent
  <2>2. Asked(c, INIT)' = Asked(c, INIT) \cup
          (IF m.by = c /\ m.type = INIT THEN {Len(requests) + 1} ELSE {})
    BY <1>1, <1>2, <1>4, AskedMore
  <2>3. \A k, l \in Asked(c, INIT)' : k = l
    BY <1>4, <2>1, <2>2
  <2>4. ~Handled(c, INIT)'
    BY <1>11, <2>1
  <2> QED BY <1>5, <1>12, <2>3, <2>4 DEF NewInv
<1>14. PStopping(c)'
  <2> USE DEF STOP, INIT
  <2>1. Asked(c, STOP)' = Asked(c, STOP) \cup
          (IF m.by = c /\ m.type = STOP THEN {Len(requests) + 1} ELSE {})
    BY <1>1, <1>2, <1>4, AskedMore
  <2>2. Handled(c, STOP)' = Handled(c, STOP)
    BY <1>11
  <2>3. ~Sent(c, STOP)'
    BY <1>3, <1>4, <2>1, <2>2 DEF Sent
  <2> QED BY <2>3 DEF PStopping
<1>15. PNotified(c)' /\ PExists(c)'
  BY <1>1, <1>2, <1>3 DEF PClient, PNotified, PExists
<1>16. PCovered(c)'
  <2>1. Announced(c)' = 0
    BY <1>1, <1>2, <1>3 DEF Announced, Registered, Busy
  <2>2. Spent(c)' \in 0 .. 1 /\ Len(inbox'[c]) = 0 /\ ~Owed(c)'
    BY <1>12 DEF Spent, Owed
  <2> QED BY <1>12, <2>1, <2>2 DEF PCovered
<1>17. PClient(c)'
  BY <1>13, <1>14, <1>15, <1>16 DEF PClient
<1> QED BY <1>2, <1>7, <1>8, <1>9, <1>10, <1>17, PClientStepInv

LEMMA PReceiveInitInv ==
  ASSUME PosixInv, NEW c \in Clients, Posix!receive_INIT(c)
  PROVE  PosixInv'
<1>1. TypeOK /\ PClient(c) /\ NewInv(c)
  BY PParts
<1>2. /\ pc[c] = "wait_init" /\ inbox[c] # <<>> /\ To(c, "notify")
      /\ UNCHANGED <<clients, existing, requests, server, typed>>
      /\ UNCHANGED <<pending, blocked, reading, notify>>
  BY PosixClientSteps DEF Posix!receive_INIT, Posix!signals
<1>3. PICK k : k = Highest(inbox[c])
  OBVIOUS
<1>4. k \in DOMAIN inbox[c]
  BY <1>1, <1>2, <1>3, HighestLetter
<1>5. /\ \E n \in IF inbox[c][k].type = INIT THEN {inbox[c][k].id} ELSE DOMAIN clients :
           my_id' = [my_id EXCEPT ![c] = n]
      /\ inbox' = [inbox EXCEPT ![c] = RemoveAt(@, k)]
  BY <1>3, PosixHelpers DEF Posix!receive_INIT, Posix!INIT, INIT
<1>6. /\ inbox' \in [Clients -> Seq(LT)]
      /\ \A d \in Clients : d # c => inbox'[d] = inbox[d]
      /\ Len(inbox'[c]) = Len(inbox[c]) - 1 /\ Len(inbox[c]) \in Nat
      /\ inbox[c][k] \in LT
  BY <1>1, <1>4, <1>5, TakenOut
<1>7. /\ pc' \in [Clients -> ClientLabels] /\ pc'[c] = "notify"
      /\ \A d \in Clients : d # c => pc'[d] = pc[d]
  BY <1>1, <1>2, TypePc DEF ClientLabels
<1>8. TypeOK'
  <2>1. inbox[c][k].id \in Slots(MAX_NO_USERS) /\ DOMAIN clients = Slots(MAX_NO_USERS)
    BY <1>1, <1>6 DEF LT, Letters, TypeOK
  <2>2. my_id' \in [Clients -> Slots(MAX_NO_USERS)]
    BY <1>1, <1>5, <2>1 DEF TypeOK
  <2> QED BY <1>1, <1>2, <1>6, <1>7, <2>2 DEF TypeOK, LT
<1>9. \A d \in Clients : d # c => Same(d) /\ SameNotify(d)
  BY <1>2, <1>6, <1>7 DEF Same, SameNotify
<1>10. Remembers
  BY <1>2, <1>7, AliveElsewhere DEF Alive
<1>11. Quiet(c) /\ Requested(c) /\ NotAdded(c) /\ Announced(c)' = Announced(c)
  BY <1>1, <1>2, PClientCalm
<1>12. NewInv(c)'
  <2>1. ~New(c)
    BY <1>1, <1>2 DEF NewInv
  <2>2. ~New(c)'
    BY <1>7, <1>11, <2>1 DEF New, Quiet
  <2> QED BY <1>11, <2>2 DEF NewInv, Quiet, New
<1>13. PStopping(c)' /\ PNotified(c)' /\ PExists(c)'
  BY <1>1, <1>2, <1>7, <1>11 DEF PClient, PStopping, PNotified, PExists, Quiet
\* The message that main takes was not the only one for the signals to come.
<1>14. PCovered(c)'
  <2>1. /\ SignalsToCome(c) \in 0 .. 2 /\ Announced(c) \in 0 .. 1 /\ Spent(c)' \in 0 .. 1
        /\ SignalsToCome(c)' = SignalsToCome(c)
    BY <1>2, SignalsNumber DEF SignalsToCome, Spent
  <2>2. c \in existing => SignalsToCome(c) + Announced(c) < Len(inbox[c])
    BY <1>1, <1>2 DEF PClient, PCovered, Owed
  <2>3. c \in existing' => SignalsToCome(c)' + Announced(c)' <= Len(inbox'[c]) + Spent(c)'
    BY <1>2, <1>6, <1>11, <2>1, <2>2
  <2>4. ~Owed(c)'
    BY <1>7 DEF Owed
  <2> QED BY <2>3, <2>4 DEF PCovered
<1>15. PClient(c)'
  BY <1>12, <1>13, <1>14 DEF PClient
<1> QED BY <1>2, <1>8, <1>9, <1>10, <1>11, <1>15, PClientStepInv

LEMMA PNotifyInv ==
  ASSUME PosixInv, NEW c \in Clients, Posix!mq_notify(c)
  PROVE  PosixInv'
<1>1. TypeOK /\ PClient(c) /\ NewInv(c)
  BY PParts
<1>2. /\ pc[c] = "notify" /\ To(c, "chat") /\ notify' = [notify EXCEPT !.on = @ \cup {c}]
      /\ UNCHANGED <<clients, existing, requests, inbox, server, my_id, typed>>
      /\ UNCHANGED <<pending, blocked, reading>>
  BY PosixClientSteps DEF Posix!mq_notify, Posix!queues
<1>3. /\ pc' \in [Clients -> ClientLabels] /\ pc'[c] = "chat"
      /\ \A d \in Clients : d # c => pc'[d] = pc[d]
  BY <1>1, <1>2, TypePc DEF ClientLabels
<1>4. /\ notify' \in [on : SUBSET Clients, spent : SUBSET Clients]
      /\ notify'.spent = notify.spent
      /\ \A d \in Clients : d # c => SameNotify(d)
  BY <1>1, <1>2 DEF TypeOK, SameNotify
<1>5. TypeOK'
  BY <1>1, <1>2, <1>3, <1>4 DEF TypeOK
<1>6. \A d \in Clients : d # c => Same(d)
  BY <1>2, <1>3 DEF Same
<1>7. Remembers
  BY <1>2, <1>3, AliveElsewhere DEF Alive
<1>8. Quiet(c) /\ Requested(c) /\ NotAdded(c) /\ Announced(c)' = Announced(c)
  BY <1>1, <1>2, PClientCalm
<1>9. PStopping(c)' /\ c \notin notify.spent /\ SignalsToCome(c)' <= SignalsToCome(c)
  BY <1>1, <1>2, <1>8, SignalsLess DEF PClient, PStopping, PNotified, Quiet
<1>10. PClient(c)'
  BY <1>1, <1>2, <1>3, <1>4, <1>8, <1>9, PLaterInv DEF Quiet, QuietInit
<1> QED BY <1>2, <1>4, <1>5, <1>6, <1>7, <1>8, <1>10, PClientStepInv

LEMMA PChatLineInv ==
  ASSUME PosixInv, NEW c \in Clients, Posix!ChatLine(c)
  PROVE  PosixInv'
<1>1. TypeOK /\ PClient(c) /\ NewInv(c)
  BY PParts
<1>2. /\ UNCHANGED <<clients, server, inbox, existing, my_id>>
      /\ UNCHANGED <<pending, blocked, reading, notify>>
      /\ pc[c] = "chat" /\ typed < MaxCommands /\ typed' = typed + 1
  BY DEF Posix!ChatLine, Posix!signals
<1>3. \/ pc' = pc /\ \E m \in Command(c) : Submit(m)
      \/ To(c, "send1") /\ requests' = requests
  BY PosixClientSteps, PosixHelpers DEF Posix!ChatLine, Posix!SendLine, Posix!Send
<1>4. /\ pc' \in [Clients -> ClientLabels] /\ pc'[c] \in {"chat", "send1"}
      /\ \A d \in Clients : d # c => pc'[d] = pc[d]
  BY <1>1, <1>2, <1>3, TypePc DEF ClientLabels, TypeOK
<1>5. ~Sent(c, STOP)
  BY <1>1, <1>2 DEF PClient, PStopping
<1>6. requests' = requests \/ \E m \in RQ : Submit(m) /\ m.by = c /\ m.type \notin {STOP, INIT}
  BY <1>1, <1>3, ClientRequests
<1>7. requests' \in Seq(RQ)
  BY <1>1, <1>6, SubmitType DEF TypeOK, RQ
<1>8. TypeOK'
  <2>1. typed' \in 0 .. MaxCommands
    BY <1>1, <1>2, ChatAssumption DEF TypeOK
  <2> QED BY <1>1, <1>2, <1>4, <1>7, <2>1 DEF TypeOK, RQ
<1>9. Requested(c)
  BY <1>5, <1>6 DEF Requested
<1>10. QuietInit(c) /\ ~Sent(c, STOP)'
  <2>1. CASE requests' = requests
    BY <1>1, <1>2, <1>5, <2>1, PClientCalm DEF Quiet, QuietInit
  <2>2. CASE \E m \in RQ : Submit(m) /\ m.by = c /\ m.type \notin {STOP, INIT}
    <3>1. PICK m \in RQ : Submit(m) /\ m.by = c /\ m.type \notin {STOP, INIT}
      BY <2>2
    <3>2. QuietInit(c)
      BY <1>1, <1>2, <3>1, SubmitsOther
    <3>3. Asked(c, STOP)' = Asked(c, STOP) \cup
            (IF m.by = c /\ m.type = STOP THEN {Len(requests) + 1} ELSE {})
      BY <1>1, <3>1, AskedMore DEF STOP
    <3>4. Handled(c, STOP)' = Handled(c, STOP)
      BY <1>2 DEF Handled, Handles
    <3> QED BY <1>5, <3>1, <3>2, <3>3, <3>4 DEF Sent
  <2> QED BY <1>6, <2>1, <2>2
<1>11. NotAdded(c) /\ Announced(c)' = Announced(c) /\ SignalsToCome(c)' <= SignalsToCome(c)
  BY <1>2, SignalsLess DEF NotAdded, Announced
<1>12. PStopping(c)'
  BY <1>10 DEF PStopping
<1>13. PClient(c)'
  BY <1>1, <1>2, <1>4, <1>10, <1>11, <1>12, PLaterInv
<1>14. \A d \in Clients : d # c => Same(d) /\ SameNotify(d)
  BY <1>2, <1>4 DEF Same, SameNotify
<1>15. Remembers
  BY <1>2, <1>4, AliveElsewhere DEF Alive
<1> QED BY <1>2, <1>8, <1>9, <1>13, <1>14, <1>15, PClientStepInv

LEMMA PSendStopInv ==
  ASSUME PosixInv, NEW c \in Clients, Posix!send_STOP(c)
  PROVE  PosixInv'
<1> DEFINE m == Request(STOP, my_id[c], 0, c)
<1>1. TypeOK /\ PClient(c) /\ NewInv(c)
  BY PParts
<1>2. /\ pc[c] = "send1" /\ Submit(m) /\ To(c, "close")
      /\ UNCHANGED <<clients, existing, inbox, server, my_id, typed>>
      /\ UNCHANGED <<pending, blocked, reading, notify>>
  BY PosixClientSteps, PosixHelpers DEF Posix!send_STOP, Posix!signals, Posix!Send, Posix!STOP, STOP
<1>3. m \in RQ /\ m.type = STOP /\ m.by = c
  BY <1>1, ClientRequests
<1> HIDE DEF m
<1>4. /\ pc' \in [Clients -> ClientLabels] /\ pc'[c] = "close"
      /\ \A d \in Clients : d # c => pc'[d] = pc[d]
  BY <1>1, <1>2, TypePc DEF ClientLabels
<1>5. requests' \in Seq(RQ)
  BY <1>1, <1>2, <1>3, SubmitType
<1>6. TypeOK'
  BY <1>1, <1>2, <1>4, <1>5 DEF TypeOK, RQ
<1>7. \A d \in Clients : d # c => Same(d) /\ SameNotify(d)
  BY <1>2, <1>4 DEF Same, SameNotify
<1>8. Remembers
  BY <1>2, <1>4, AliveElsewhere DEF Alive
<1>9. Requested(c)
  BY <1>2, <1>3 DEF Requested
<1>10. QuietInit(c)
  BY <1>1, <1>2, <1>3, SubmitsOther DEF STOP, INIT
<1>11. NotAdded(c) /\ Announced(c)' = Announced(c) /\ SignalsToCome(c)' <= SignalsToCome(c)
  BY <1>2, SignalsLess DEF NotAdded, Announced
<1>12. PStopping(c)'
  BY <1>4 DEF PStopping
<1>13. PClient(c)'
  BY <1>1, <1>2, <1>4, <1>10, <1>11, <1>12, PLaterInv
<1> QED BY <1>2, <1>6, <1>7, <1>8, <1>9, <1>13, PClientStepInv

LEMMA PClientInv ==
  ASSUME PosixInv, NEW c \in Clients, Posix!ClientStep(c)
  PROVE  PosixInv'
<1>1. Posix!GetMessage(c) => PosixInv'
  BY PosixClientSteps, PGetMessageInv
<1> QED BY <1>1, POpenInv, PCreateInv, PSendInitInv, PReceiveInitInv, PNotifyInv, PChatLineInv,
           PReadInv, PStopInv, PSendStopInv, PCloseInv DEF Posix!ClientStep

----------------------------------------------------------------------------
LEMMA PosixInitInv ==
  ASSUME Init
  PROVE  PosixInv
<1> USE DEF Init
<1>1. 0 \in Slots(MAX_NO_USERS) /\ MaxCommands \in Nat /\ MAX_NO_USERS \in Nat
  BY ChatAssumption DEF Slots
<1>2. TypeOK
  <2>1. server \in SV
    BY <1>1 DEF SV, ServerLabels
  <2>2. <<>> \in Seq(RQ) /\ <<>> \in Seq(LT)
    OBVIOUS
  <2>3. requests \in Seq(RQ) /\ inbox \in [Clients -> Seq(LT)]
    BY <2>2
  <2>4. /\ pc \in [Clients -> ClientLabels] /\ my_id \in [Clients -> Slots(MAX_NO_USERS)]
        /\ clients \in [Slots(MAX_NO_USERS) -> Clients \cup {Nobody}]
    BY <1>1 DEF ClientLabels
  <2>5. typed \in 0 .. MaxCommands
    BY <1>1
  <2> QED BY <2>1, <2>3, <2>4, <2>5 DEF TypeOK, SV, RQ, LT
<1>3. DOMAIN requests = {}
  OBVIOUS
<1>4. Busy /\ Told /\ StopLast
  BY <1>3 DEF Busy, Told, StopLast, Handles
<1>5. ASSUME NEW c \in Clients PROVE PClient(c)
  <2>1. \A t : Asked(c, t) = {} /\ ~Handled(c, t) /\ ~Sent(c, t)
    BY <1>3 DEF Asked, Handled, Handles, Sent
  <2>2. /\ SignalsToCome(c) = 0 /\ Announced(c) = 0 /\ Spent(c) = 0
        /\ inbox[c] = <<>> /\ pc[c] = "create"
    BY DEF SignalsToCome, Announced, Spent
  <2>3. ~Registered(c)
    BY ChatAssumption DEF Registered
  <2>4. NewInv(c)
    BY <2>1, <2>2, <2>3 DEF NewInv
  <2>5. PStopping(c) /\ PNotified(c) /\ PExists(c)
    BY <2>1, <2>2 DEF PStopping, PNotified, PExists
  <2>6. PCovered(c)
    BY ChatAssumption DEF PCovered
  <2> QED BY <2>4, <2>5, <2>6 DEF PClient
<1> QED BY <1>2, <1>4, <1>5 DEF PosixInv

LEMMA PosixStutter ==
  ASSUME PosixInv, UNCHANGED vars
  PROVE  PosixInv'
<1> USE DEF vars, queues, signals, clientOwn
<1>1. /\ TypeOK /\ Busy /\ Told /\ StopLast
      /\ \A c \in Clients : PClient(c) /\ NewInv(c)
  BY PParts
<1>2. TypeOK' /\ Busy'
  BY <1>1 DEF TypeOK, Busy
<1>3. Told' /\ StopLast'
  BY <1>1 DEF Told, IsTold, Alive, StopLast, Handles
<1>4. ASSUME NEW c \in Clients PROVE PClient(c)'
  <2>1. NotAdded(c) /\ Same(c) /\ SameNotify(c)
    BY DEF NotAdded, Same, SameNotify
  <2>2. Quiet(c) /\ Announced(c)' <= Announced(c)
    BY <1>1, PClientCalm, SignalsNumber
  <2> QED BY <1>1, <2>1, <2>2, PBystander
<1> QED BY <1>2, <1>3, <1>4, PTogether

LEMMA PosixSpec ==
  /\ Posix!Init => Init
  /\ UNCHANGED Posix!vars => UNCHANGED vars
<1>1. Posix!Init => Init
  BY DEF Posix!Init, Init, Posix!Slots, Slots
<1>2. UNCHANGED Posix!vars => UNCHANGED vars
  BY DEF Posix!vars, vars, Posix!queues, queues, Posix!signals, signals, Posix!clientOwn, clientOwn
<1> QED BY <1>1, <1>2

\* The inductive invariant of zad2.
THEOREM PosixInductive == Posix!Spec => []Posix!IInv
<1>1. Posix!Init => PosixInv
  BY PosixSpec, PosixInitInv
<1>2. PosixInv /\ [Posix!Next]_Posix!vars => PosixInv'
  <2> SUFFICES ASSUME PosixInv, Posix!Next PROVE PosixInv'
    BY PosixSpec, PosixStutter
  <2> QED BY PServerInv, PClientInv DEF Posix!Next
<1> QED BY <1>1, <1>2, PosixInvIs, PTL DEF Posix!Spec

\* Every state of zad2 has values of the types declared for it.
THEOREM PosixTypeCorrect == Posix!Spec => []TypeOK
<1>1. Posix!IInv => TypeOK
  BY PosixInvIs, PParts
<1> QED BY <1>1, PosixInductive, PTL

\* In zad2, where STOP has the lowest priority, the server handles the STOP of a client
\* when nothing but STOP is left in its queue of what that client has sent.
THEOREM PosixStopComesLast == Posix!Spec => []StopLast
<1>1. Posix!IInv => StopLast
  BY PosixInvIs, PParts
<1> QED BY <1>1, PosixInductive, PTL

\* In zad2 destroy_queue reaches every client that is still listed.
THEOREM PosixEverybodyIsTold == Posix!Spec => []StopReachesAll
<1>1. Posix!IInv => StopReachesAll
  <2> SUFFICES ASSUME PosixInv, server.at = "dead", NEW c \in Clients, Registered(c), Alive(c)
               PROVE  <<c, "INT">> \in pending \cup blocked
    BY PosixInvIs DEF StopReachesAll
  <2>1. PICK i \in DOMAIN clients : clients[i] = c
    BY DEF Registered
  <2>2. IsTold(clients[i])
    BY PParts DEF Told
  <2> QED BY <2>1, <2>2, ChatAssumption DEF IsTold
<1> QED BY <1>1, PosixInductive, PTL

\* In zad2 no handler of SIGUSR1 waits for a message that is not there, but the one that
\* mq_notify calls.
THEOREM PosixNoHandlerWaits == Posix!Spec => []SignalsCovered
<1>1. Posix!IInv => SignalsCovered
  <2> SUFFICES ASSUME PosixInv, NEW c \in existing \cap Clients, SignalsToCome(c) > 0
               PROVE  SignalsToCome(c) <= Readable(c) + (IF c \in notify.spent THEN 1 ELSE 0)
    BY PosixInvIs DEF SignalsCovered
  <2>1. TypeOK /\ PClient(c)
    BY PParts
  <2>2. /\ SignalsToCome(c) + Announced(c) <= Len(inbox[c]) + Spent(c)
        /\ Owed(c) => SignalsToCome(c) + Announced(c) < Len(inbox[c])
    BY <2>1 DEF PClient, PCovered
  <2>3. /\ SignalsToCome(c) \in 0 .. 2 /\ Announced(c) \in 0 .. 1 /\ Len(inbox[c]) \in Nat
        /\ Spent(c) \in 0 .. 1
    BY <2>1, SignalsNumber, InboxIs DEF Spent
  <2>4. CASE pc[c] = "wait_init"
    <3>1. Owed(c) /\ Readable(c) = Len(inbox[c]) - 1
      BY <2>4 DEF Owed, Readable
    <3>2. SignalsToCome(c) <= Readable(c) + Spent(c)
      BY <2>2, <2>3, <3>1
    <3> QED BY <3>2 DEF Spent
  <2>5. CASE pc[c] # "wait_init"
    <3>1. Readable(c) = Len(inbox[c]) - 0
      BY <2>5 DEF Readable
    <3>2. SignalsToCome(c) <= Readable(c) + Spent(c)
      BY <2>2, <2>3, <3>1
    <3> QED BY <3>2 DEF Spent
  <2> QED BY <2>4, <2>5
<1> QED BY <1>1, PosixInductive, PTL
=============================================================================
