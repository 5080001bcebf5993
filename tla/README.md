# Models of the Operating Systems course programs

The repository holds the programs of a course on operating systems, one
directory per laboratory (`cw01` to `cw10`) and one of exam exercises
(`kolosy`): some 10,500 lines of C, with comments in Polish and no test suite.
The programs are small but concurrent: processes, threads, signals, message
queues, semaphores, shared memory, sockets. This directory models the ones whose
correctness depends on interleavings, checks them with TLC and proves the most
important facts with TLAPS.

## Inventory

| Part | State | Operations | Interaction | What is hard | What makes it correct |
|---|---|---|---|---|---|
| Santa Claus, `cw09/zad` | two counters, a flag, the elves' queue, five mutexes, three condition variables | threads `santa`, `reindeer`, `elf` | shared variables, locks, broadcasts | counters read without their lock, nested locks, wake-ups | no lost wake-up, no deadlock, counters and queue agree, deliveries with the whole herd |
| Pizzeria, `cw07/zad1` (System V), `cw07/zad2` (POSIX) | slots of oven and table in shared memory, two semaphores | cooks: push into the oven, remove, put on the table; deliverers: take off the table; SIGINT handlers | semaphores, shared memory, signals | scans and writes of several processes, removal of objects in use | a slot has one user, no pizza is lost or delivered twice, Ctrl-C ends everybody |
| Signals, `cw04/zad3a` (burst), `zad3b` (handshake) | counters and flags written by handlers | `sender`, `catcher`, two handlers each | signals | merging of pending signals, order of numbers, test and sleep | the counts, the end of both programs |
| Signal demonstrations, `cw04/zad1`, `zad2` | signal dispositions | one program each | none | nothing beyond the kernel | - |
| Chat, `cw06/zad1` (System V), `zad2` (POSIX queues) | slots of the users in the server, a queue per process | INIT, LIST, TO_ALL, TO_ONE, STOP, handlers | queues, SIGUSR1, SIGINT | STOP twice, removed queues, merged SIGUSR1, full table, priorities | messages reach the user they are for, one client's end leaves the others alone |
| Tic-tac-toe, `cw10/zad1` (streams), `zad2` (datagrams) | table of clients with opponents, boards in the clients | `initialization`, `move`, `quit`, `game_over`, `ping` | sockets, a mutex between two threads in each program | ping against answer, reuse of slots, stale opponents, lost datagrams | opponents point to each other, a move reaches the opponent, both boards agree |
| Pipelines, `cw05/zad1` | descriptors | `parse_command`, `execute_command` | pipes, fork | who holds which end open | each command reads its predecessor only |
| FIFO transfer, `cw05/zad3` | the FIFO, the output file | producer, consumer | FIFO, `flock` | buffers flushed after the lock is given up | no line is lost |
| Mail, `cw05/zad2` | - | one `popen` | - | - | - |
| Image negative, `cw08/zad1` | the image | `numbers_mode`, `block_mode` | threads over shares of the image | rounding at the boundary | every pixel is changed once |
| Array of blocks, `cw01` | an array that grows and shrinks | create, remove, count | - | indices while the array changes | no block leaks |
| Copying, filtering, directory walks, `cw02` | - | the readers of two variants | - | chunks across lines | - |
| Processes, `cw03` | files of parts | fork, wait, sums | exit and files | split into shares | the shares cover the interval |
| Exam exercises, `kolosy` | - | fifty unrelated programs | - | - | - |

`PROJECT.json` lists the hazards of each part at the line where they bite, and the
properties that are aimed at them.

## Plan

In this order, the most concurrent and most intricate first:

1. `Santa` with `SantaProofs` (done): locks, waits, wake-ups.
2. `Kitchen`, `PizzeriaSysV`, `PizzeriaPosix` against the abstract `PizzaFlow`, with
   `PizzeriaSysVProofs` (mutual exclusion, the ownership of slots, the refinement) and
   `PizzeriaPosixProofs` (done).
3. `Signals`, `SignalBurst`, `SignalHandshake` with `BurstProofs`, `SignalProofs` (done).
4. `Chat`, `ChatSysV`, `ChatPosix` with `ChatProofs` for both programs (done).
5. `GameNet`, `GameServer`, `GameClient` and `Game` with `GameProofs` (done).
6. `FifoTransfer`: locks, buffers and files of `cw05/zad3` (done).
7. `Board`, `Negative`, `BlocksArray`, `Pipeline`, and with them and `FifoTransfer`
   `LabProofs` (done).

| Modules | What they model | Instance for TLC |
|---|---|---|
| `Santa` | `cw09/zad` | `MCSanta` |
| `Kitchen`, `PizzeriaSysV`, `PizzeriaPosix`; abstract `PizzaFlow` | `cw07` | `MCPizzeriaSysV`, `MCPizzeriaPosix`, `MCPizzeria` |
| `Signals`, `SignalBurst`, `SignalHandshake` | `cw04/zad3a`, `zad3b` | `MCLabs`, `MCSignalBurst` |
| `Chat`, `ChatSysV`, `ChatPosix` | `cw06` | `MCChat` |
| `GameNet`, `GameServer`, `GameClient`, `Game` | `cw10` | `MCGame` |
| `Board`, `Negative`, `BlocksArray`, `Pipeline`, `FifoTransfer` | boards of `cw10`; `cw08`; `cw01`; `cw05/zad1`; `cw05/zad3` | `MCLabs`, `MCPipeline` |
| `SantaProofs`, `PizzeriaSysVProofs`, `PizzeriaPosixProofs`, `BurstProofs`, `SignalProofs`, `ChatProofs`, `GameProofs`, `LabProofs` | proofs | - |

## Santa (`cw09/zad/main.c`)

`Santa.tla` has one action per access to shared state or call of pthreads:
`SantaLock` to `SantaUnlocksElves` follow `santa()` (lines 50-111), `ReindeerLocksWait` to
`ReindeerUnlocks` follow `reindeer()` (113-140), `ElfLocksWait` to `ElfUnlocks` follow `elf()`
(143-177). `pcS`, `pcR` and `pcE` say where each thread is; the names of the
other variables are those of the program, and `mutex` gives the holder of each
mutex. `back` is not in the program: it remembers which reindeer the counter
counts, and no guard reads it. Santa's test of the two counters is two steps
(`SantaReadsElves`, `SantaReadsReindeer`) because he holds neither of their mutexes.
Waiting can end without a broadcast (`SpuriousWakeup`), as POSIX allows. The
number of reindeer, elves, the size of a group and the number of deliveries are
constants (9, 10, 3 and 3 in the program).

What is checked:

- `SantaSafety`: 3 reindeer, 3 elves, groups of 2, 2 deliveries, so that a group can
  leave an elf over, herd and group are complete at once, and a second round
  starts from what the first has left. `NoLostWakeup`: with a complete group, Santa
  waits only if somebody is on the way to wake him. `NoCircularWait`: no set of
  threads waits for locks held inside the set, although they take `mutex_santa`
  nested in two others. `QueueMatchesCount`: the queue is filled as far as its
  counter says. `OneReturnPerRound`, `DeliveryNeedsHerd`: no reindeer is counted twice
  and none is missing when toys are delivered.
- `SantaLiveness`: 2 reindeer, 2 elves. Whoever is in a complete group is served, and
  an elf he has served goes on. Fairness is weak for the steps of each thread, which is
  what a scheduler gives; no property relies on who of several gets a mutex.
- `SantaStuck` finds that the program may not come to its end: a reindeer that comes
  to the test of `reindeer_are_waiting` (line 119) after another has set it (129) waits
  without having been counted, and a herd is then never complete.

An elf goes back to work (147) without waiting to be helped and can be in the
queue twice; the model has this, and the properties hold nevertheless.

`SantaProofs.tla` proves all the safety properties of `SantaSafety` for any finite
herd, any set of elves, any size of groups and any number of deliveries, from
the assumptions named in `Santa.tla`. None of them is inductive. `IInv` adds to the
types who holds which mutex at which label (`LockInv`), which reindeer the counter
and the flag stand for (`RoundInv`, `DeliveryInv`), what the queue holds (`QueueInv`)
and where a wake-up can be under way (`WakeInv`). The proof has one lemma for each
of these parts, with a case for each action.

## Pizzeria (`cw07`)

`Kitchen.tla` is what the processes of both programs do: each step is one
semaphore operation or one access to the slots, `Prepare` to `PostOven` for
`push_into_the_oven`, `Baked` to `PostOvenOut` for `remove_from_the_oven`, `Carry` to
`PostTable` for `put_on_the_table`, and the same for the deliverers. `idx` is the
variable `i` of a scan, `place_in_oven` what a cook remembers of it. Then the
life of the processes: `Fork`, `Start` (exec and the attaching of the objects), `Exit`
(the handlers of SIGINT), `MainKillsAll`, `MainRemoves`. `removed` are the objects some
handler has removed. In System V a removed semaphore set fails at once, unnoticed
since nobody looks at the result of `semop`, and a removed segment can be attached
only while another process has it; in POSIX unlinking takes nothing from a
process that has the object open. The constant `SYSV` tells these apart.
Counting and printing of pizzas and the sleeps are left out.

`PizzeriaSysV` starts the semaphores at 1 (`zad1/main.c`, 30-48) and `PizzeriaPosix` at the
number of slots (`zad2/main.c`, 10-32). `PizzaFlow` is what the pizzeria promises:
whole pizzas that are made, baked in a slot of the cook's own, laid on a free
slot of the table and delivered once, each in one step. `ImplementsFlow` checks that
`PizzeriaSysV` does that, under a mapping that reads `oven` and `table` off the
memory and the labels; the constant `Empty` stands for a free slot of `PizzaFlow` and may
be anything that is neither a cook nor a type.

- `PizzeriaSysVWork`: 2 cooks, 2 deliverers, 2 slots each, 2 types: enough for a full oven, a full
  table and two processes of each kind in each other's way.
- `Pizzeria` runs either program, chosen in the initial state, with two cooks and one
  deliverer and SIGINT at any time.
  In `zad1` there is one slot each, so that cooks wait for room all the time.
  `KeepsDelivering` is about its behaviours without SIGINT, `EverybodyStops` about the
  others, of both programs: main may send SIGINT while a process is between fork, exec
  and `signal()`, and the first handler removes what the others use. Fairness is weak for
  start and handlers; in `zad1` it is strong for the work of each process, because the
  kernel serves the processes that wait on a System V semaphore in turn. In `zad2` only
  the handlers and the start of processes are fair, so `EverybodyStops` does not rely on
  the work going on. The oven of `zad2` has two slots: there is no mutual exclusion, but
  `MarkedHasCook` still holds: a slot that is marked belongs to a cook who will clear it,
  so the oven does not fill up with pizzas nobody takes out.
- `PizzeriaPosixFree` finds two processes at the same slot.

`PizzeriaSysVProofs.tla` proves, for any cooks, deliverers and types and any size of oven
and table, that the pizzeria of `zad1` at work (`Spec`, without SIGINT) has the type invariant,
`Exclusive`, `FreePlace` and `OvenOwnership`, and that it implements `PizzaFlow`. None of the
invariants is inductive alone. `Exclusive` needs `SemInv`: the semaphore is 0 while anybody
is between its wait and its post, which holds only while nothing is removed (`WorkInv`).
`FreePlace` needs `Exclusive`, or another process would write the slot between scan and write, and
`OvenOwnership` needs `FreePlace`, since a cook who marked another's slot would clear it
later. `MarkedFirst` is for the table, whose slots are marked before their type is written.
`LockStep`, `PlaceStep`, `OwnershipStep` and `TypeStep` prove these parts, one case per action;
`FlowStep` maps each action to one of `PizzaFlow` or to a stutter. The write of a slot's type
lays the pizza on the table, and the clearing of the slot takes it off.

`PizzeriaPosixProofs.tla` proves the type invariant and `MarkedHasCook` for `zad2`, with SIGINT
at any time. There the semaphores exclude nobody, so the argument is another one: a cook clears
the slot it remembers before it forgets it, and a slot that two of them have marked is cleared
by the first, and stays unmarked. `BeforeStop` says that no object is removed and nobody is
stopped before main handles SIGINT.

## Signals (`cw04/zad3a`, `cw04/zad3b`)

Pending signals are counters; `kind` is the argument both programs are started with
(`Signals.tla`), and `QUEUED` tells the SIGRT mode, where every signal is queued, from the
others, where one that is pending absorbs the next.
`SignalBurst` handles whatever is pending in one step: the kernel runs the
handlers of all pending signals before the program goes on, in either order,
and these handlers only write their variables. In `SignalHandshake` the handlers of
catcher raise signals, so they are steps of their own, during which a signal of
the same number is blocked and one of the other number interrupts.

Both pairs of programs are checked in the run `Labs` (see Small programs), with eight
signals in each mode.

- `CatcherCount` and `SenderCount` say what either program of the burst has counted when it
  acts on the count.
- `OneUnderWay`: no signal of the handshake can be absorbed. `Lossless`, `HandshakeEnds`: both
  programs end, and with the right count. Fairness is weak for each of the two processes
  (`SenderStep`, `CatcherStep`).
- `SignalBurstHangs` is a run of its own: the flag is tested and then `sigsuspend` is called
  with the signals unblocked in between; an end signal handled there is missed for good.
  Fairness is weak for handlers and for both main programs, so it is not the scheduler.

`BurstProofs` and `SignalProofs` prove the safety properties for every `COUNT` and both kinds
of signals. The invariant of the burst is conservation (`Conserved`: raised signals
are pending or counted) with what the whereabouts of the end signals say of
the loops; the one of the handshake says, for each phase of sender, where the
one signal under way is (`Phase1`, `Phase2`).

## Chat (`cw06`)

A step is one call on a queue, one signal sent, or the entry of one handler, so that a
signal can come between any two of them. `Chat.tla` has the server's table, the queues,
the signals and what both programs do alike; `ChatSysV` and `ChatPosix` add how each
sends and receives, starts and stops. `server` is where the server is in
`message_handler` or `destroy_queue`, with the request it handles and its loop index; `pc`
is where a client's `main` is, or the `stop()` that has interrupted it, and `reading` has the
clients in whose frame `get_message` is on top. Standard signals merge: `pending` is a set.

Facts of the code that are in the model, and that make its properties less than obvious:

- `stop()` of `zad1` runs from the handler of SIGINT and again from `atexit`: STOP is sent
  twice, and the second can disconnect the client that got the slot in between. A client
  that stops before it has read its number sends STOP with 0.
- A client removes its queue before its STOP is handled. The server exits when it cannot
  send, from wherever it is in a loop over the users.
- With 0 in an empty slot `kill` reaches the process group, the server itself included.
- The keys of `zad1` are made of the PID modulo six, so a client's queue may be refused.
- In `zad2` requests come by priority, and STOP has the lowest; a queue holds five
  messages and who finds it full waits, the server too; `mq_notify` signals once, and
  `main` may find the answer to INIT taken by its own handler.

`Chat` checks both programs with two clients, room for one of them or for both, one or two
lines typed and POSIX queues of two messages: enough for a full table, a slot that is used
again, two STOPs around it, a full queue and merged signals. The clients are symmetric.
`StopLast`: no request of a client is handled after its own STOP; the STOP of somebody else,
with 0 or a second one, may free a number that is in use. `StopReachesAll`: a server that has
gone through `destroy_queue`, wherever SIGINT or a failed call found it, has told every listed
client to stop. One that a signal to the whole group has ended inside its own handler has not.
`SignalsCovered`: although one signal may stand for several messages, `get_message` is never
called for a message that is not there (in `zad2` but for the one call that `mq_notify`
causes). `ReplyNotStolen`, in `zad1` only: the handler does not take the answer that `main`
waits for, though both read the same queue.

`notify` is in `Chat` though only `zad2` uses it, so that `SignalsCovered` is one property of
both; `my_queue` and `zero` are of `zad1` alone. `MCChat` extends `ChatSysV` with the constants
of the setting with room for both clients, and takes the other three settings as instances.

`ChatProofs.tla` proves these properties and the types for any number of clients, any size of
the table, any number of lines and, in `zad2`, any size of the queues. The two programs need
different invariants, because they put the same things in order by different means:

- Both (`ChatInv` in `Chat.tla`): `Told`, whoever `destroy_queue` has passed has a SIGINT to handle,
  or handles it; `NewInv`, until the one INIT of a client has been handled nothing is
  listed, sent or signalled for it, so that the answer comes into an empty queue.
- `StopLast`: in `zad1` the queue is in order, so the invariant has to say that nothing but
  STOP follows a STOP in it (`StopsInOrder`), and that who has sent one sends nothing else
  (`Stopping`). In `zad2` only `Stopping` is needed for what comes after; what was sent before
  is taken out first, because STOP has the lowest priority.
- `SignalsCovered`: messages are counted before the signal for them is sent (`Announced`), and
  the answer to INIT, which is not signalled, is set apart. In `zad1` it can be told by its
  type (`Covered`, `Answered`): the handler takes the lowest type first and there is another
  message for each of its signals, hence `ReplyNotStolen`. In `zad2` the handler may take the
  answer, so the invariant only counts: while `main` waits and anything has come there is one
  message more than signals. `Notified` says that the signal of `mq_notify` is raised once,
  after `main` has received the answer.

The steps that both programs have in common are dealt with once; for `zad2` the operators of
the instance are first shown to be those of `Chat` (`PosixHelpers`, `PosixServerSteps`,
`PosixClientSteps`), and the parts of its invariant are named again with a `P` in front.
Then there is one lemma for each step of the server and of a client; `Bystander` and
`PBystander` say that what happens to others harms nobody.

## Tic-tac-toe (`cw10`)

`GameServer` has the server's two threads: the main one with each look at the table outside
the mutex as a step (`CountFds` to `Scan` follow `get_client_descriptor`) and each handler,
which holds the mutex, as one; `ping`; and SIGINT. `GameClient` has the main thread and the
game thread of a player, which share `current_game_status` and `command_args` and read them
partly without the mutex. `GameNet` is what lies between them, `Game` joins the three.
The constant `STREAM` tells `zad1` from `zad2`. The data of a move is whether the
game goes on or ends; `Board` has the moves themselves.

Facts of the code that are in the model:

- A message from somebody who is not in the table, for instance an answer to a ping that
  comes after the removal, indexes `clients[-1]`; the server may crash (`UnknownSender`).
- The array for `poll` is allocated for one number of clients, filled for a second and
  scanned for a third. A scan that ends early leaves `client_id` as it was on the stack.
- A stream whose client has gone raises SIGPIPE, on a local socket at once.
- `close_server` runs without the mutex beside the pinging thread.
- In `zad2` clients are found by name alone: the quit of a client that was refused for its
  name removes the player who has it.
- `game_over` removes the sender only. The comments at `zad1/server.c:368` and
  `zad2/server.c:327` speak of both players; the opponent's index then names an empty slot, or
  the next client's.
- A client of `zad2` sends its name while it connects (lines 46 and 77) and gives SIGINT its
  handler afterwards (line 400): between the two it is `"connecting"`, and SIGINT ends it without
  a word (`Killed`). The server then has a ghost in its table, which only a ping without an
  answer removes. In `zad1` the handler comes first (386-391), so `InstallsHandler` is a step of
  `zad2` only.
- A client's `command_args` may be overwritten before the game thread has read it, and the
  opponent's move may be overwritten in the status: `differ` says that some board has
  missed a move, and from then on its owner may take the game for anything.

The run `Game` has six settings, chosen in the initial state: `pings` (two players, two
rounds of pings), `moves` (two moves of each), `full` (room for one of two), `names` (three
clients, two of one name, datagrams), `loss` (one datagram lost, a round of pings) and
`both` (a move and a round of pings, datagrams). Each is as small as the case it is for
allows; together they let removals, re-use of a slot, stale opponents, answers after
the time and all ends of the server happen. After the server has ended only how it ended
is told apart (`VIEW`), and the two players that are alike in every setting are
symmetric; no property can tell what these identify.

The constants of `MCGame` are those of `pings`, and the other settings are instances of `Game` with
other values; the invariants but for the types say nothing that depends on those values.

`OneWaiting`: at most one client in the table has no opponent, whatever order quits, ends of
games and removals come in. `PairsUntilGameOver`: opponents point to each other until a
`game_over` has been handled, from when on they need not. `PollInBounds`: the array for
`poll` is never overrun, in spite of the three counts. `NoGhost`: while nothing is lost, nobody
holds a slot whose process has ended by itself without having told the server; a client killed
before its handler is installed does. There is no
liveness here: with a lost datagram, a lost move or a dead server a player waits for good.

`GameProofs.tla` proves these four and the type invariant for any number of clients, any
names and any size of the table, over streams and datagrams, with any number of pings,
moves and losses. The invariant `IInv` of `Game.tla` speaks of the server's table and of
what is on its way:

- `NamesDiffer`, `OneWaits`, `PairsUntilGameOver`: a removal takes a client with its opponent,
  so that those who stay keep theirs, and a client that enters meets the one who waits or waits
  alone. This is only so if nobody enters twice, which is not a fact about the table.
- `GreetsFirst`, `Unknown`: a client's name is its first message, and until it has been handled
  the server holds nothing of that client, nor does the client hold anything from the server.
- `DismissedOut`: who has been refused or told to quit is not in the table, in spite of what it
  still sends. Such a client exits without a word to the server.
- `SaysSo`: who exits in any other way, and is not killed, has a quit or a `game_over` on its
  way, behind its name if that is still unread. Together with `DismissedOut` this is `NoGhost`.
- `InHand`, `Collected`: what the main thread of the server holds at each point; the second
  says that between collecting and placing the sockets clients can only have gone, which
  `PollInBounds` needs.

The lemmas for messages and removal (`ReceiveKeeps`, `ClientKeeps`, `RemovalStep`,
`EnterKeeps`) are stated once for any handler, and there is one lemma for each handler and each
step of a client.

Abstractions: a client does nothing while the server counts and collects,
because those steps and a client's touch nothing in common; SIGINT reaches the server's
main thread outside its critical sections; datagrams between processes of one machine are lost but
neither doubled nor reordered; a client runs once.

## Small programs (`cw01`, `cw05`, `cw08`, boards of `cw10`)

Five modules that share nothing; `MCLabs` picks one of them, or one of the two pairs of
signalling programs, in the initial state, and the run `Labs` checks them all.

- `Board`: `check_move`, `check_end` and the two boards of a game, every game there is.
  `EndsTogether`: with no move under way both boards are the same, and both players hold the
  game for over exactly when three in a line (here: three that add up to fifteen in a magic
  square, which is not how the code looks for them) or no field is left. Messages
  arrive.
  TLC visits every game; `LabProofs` says why the property holds. `check_end` looks for the
  lines of the mover only, and that is enough because the game was running before the
  move (`OverAfter`), so the other player had none; `WinsIt` shows that the eight lines of the
  code are the triples of the magic square. The invariant `BoardInv` adds what is known while a
  move is under way: it is one field that the opponent has free, in a game the
  opponent holds for running.
- `Negative`: threads of both modes, pixel by pixel; images of up to four columns and two rows
  with any of two values in each pixel, up to three threads. `EachPixelOnce`: nothing is
  written outside or twice, the output is the negative where something was written, and
  every pixel is inverted in numbers mode, and in block mode when the width is a multiple of
  the number of threads. It need not be otherwise: `ceil` is given an integer quotient, so that
  a share is smaller than the comment at line 97 says, and columns at the right are left to
  nobody. The run `NegativeShares` states the comment (`BlockShares`) and finds an image whose
  threads do not get those shares.
  `LabProofs` proves `EachPixelOnce` for any image and number of threads. `NegInv` derives what
  has been written from how far each thread has come; the arithmetic is that the shares of two
  threads do not overlap and leave nothing between them, in integer division.
- `BlocksArray`: seven commands of any kind, sizes of up to two, so that the array is doubled
  twice. `removeArrayOfBlocks` is a loop of frees (`RemoveTurn`), and to free a block that is
  not allocated is a state of its own. `BlocksLive`: each pointer is to a block of its own that
  is still allocated, and nothing is freed twice, although the loop walks up while the array
  gets shorter and so leaves every second block allocated. The code writes past the end of
  blocks: the zero behind the text of a result, a name of a file that is longer than `temp.txt`
  (`mylib.c`, 127-137), and `times` into room for a pointer. From then on the heap is
  `"damaged"`, and the process may stop at any later step (`Aborts`) or go on as if nothing had
  happened; what a damaged allocator may do besides that is not modelled. A table of size 0 or
  none crashes. `LabProofs` proves this for every `MaxCommands` and `MaxTable`; the invariant
  `BlocksInv` adds that blocks are numbered as they are allocated, so that a new one differs
  from all there are.
- `Pipeline`: `execute_command`, the descriptors of up to five commands and three lines in a
  row. `prev` is not initialised and the first turn of each line closes what it holds: any pair
  of the numbers of `Rubbish`, in the run no descriptor, the standard input and the two that
  the first pipe gets. `pipe` and `fork` may fail (`Exits`). `EndsInOneProcess`: no end of a
  pipe is open in a command other than the one it is meant for, and main keeps none that output
  goes into, so nobody waits for the end of an input that is kept open; and if `prev[0]` held
  no descriptor each command reads from the pipe before it. Its output is another matter: a
  child closes `prev[1]`, a number its parent has closed and that pipe has given out again.
  From the third command on it is the number of the child's own end, and the output of such a
  command does not go into its pipe. The run `PipelineChain` states what the notation of a line
  stands for (`ChainJoined`) and finds a line of four commands that is not joined, with nothing
  in `prev` but -1. The last pipe of a line stays open in the parent. `LabProofs` proves
  `EndsInOneProcess` for lines of any number of commands, any number of lines, of descriptors
  (from four on) and any contents of `prev`. The invariant `PipeInv` says that the process has
  the ends of its line's pipes only under the numbers that its two arrays hold, and that
  nothing is missing of what is to be read unless `prev[0]` held a descriptor.
- `FifoTransfer`: two producers for lines 1 and 3, two pieces each, two consumers. A piece is
  so many characters of a file, and where the file has several lines (`newlines`) the ends of
  lines among them; the consumer finds the line of a piece by counting these. All that is sent
  fits into one buffer: a producer sends everything when it closes the FIFO, and a read takes
  whole pieces. `EveryPieceInItsLine`: at every step each line holds the pieces received for it
  behind its label, under three conditions (`Reliable`). The producers' files have no ends of
  lines, or pieces go into other lines than their producer's. The file fits into the buffer of
  `BUFF_SIZE`, or writing back loses the cell behind what was read. And no consumer locks the
  file before the one before it has closed it (`raced`): the lock does not cover `fclose`,
  which writes the buffer, so that two consumers overwrite each other's pieces. All of this
  happens in the model. It is what the authors saw (`wnioski.txt`): five consumers with one
  producer work, since one consumer gets all it sends; with five producers they sometimes do
  not. A line is at most 99 (`FifoAssumption`), because the label of a longer one does not fit
  into `str[5]`. `LabProofs` proves it for any number of producers, consumers and pieces and
  any lines up to 99. The invariant `FifoInv` says that whoever is at the file is alone, and
  what it is about to write back: the file from the end of the piece's line on, with the piece
  in front, and this of the file as it now is (`BeforeTheEnd`), because nobody else writes it
  in between. Two lemmas carry the rest: a piece put before the end of a line moves the ends
  behind it by one cell, and changes the line of no other piece (`PutInKeeps`, by the bijection
  between the ends before and after); and the lines that are added for a higher number are
  empty ones, each with its label (`LinesAdded`). Where the end of a line is searched for, the
  least number with a property is taken by well-founded induction (`EndOfIt`).

## Proved and model-checked

Proved for all values of the constants: the safety properties of `Santa`, of both pizzerias, of
`SignalBurst` and `SignalHandshake`, of both chats, of the game and its boards, of `Negative`,
`BlocksArray`, `Pipeline` and `FifoTransfer`, and that the pizzeria of `zad1` implements
`PizzaFlow` (see `theorems` in `PROJECT.json`). The assumptions are those named in the modules:
finite or disjoint sets, sizes of at least one, initial values that no state tells from others,
lines up to 99 and four descriptors.

Model-checked only: the type invariants `MCChat!MCTypeOK`, `MCGame!MCTypeOK` and
`MCLabs!TypeOK`. The first two put together, for the settings of a run, invariants that are
proved of the modules; the third joins those of the small programs, of which `FifoTypeOK` is
proved but for its bound on the pieces received, a sum over the producers that would need
induction over data. Model-checked only, because TLAPS does not reach it: all liveness
properties under fairness (`GroupServed`, `WaitingElfResumes`, `HerdDelivered`,
`KeepsDelivering`, `EverybodyStops`, `HandshakeEnds`). Fairness is assumed only where a section
above says so; the chat, the game and the other small programs than the handshake have safety
properties only.

Bounds: the numbers of processes and slots are constants of the programs too. Bounds of the
models are `MaxCommands` and `CAPACITY` (chat), `MaxPings`, `MaxMoves` and `MaxLost` (game),
`MaxCommands` and `MaxTable` (blocks), `MaxWidth` and `MaxThreads` (negative), `MaxSeparated`
and `MaxLines`, `OPEN_MAX` and `Rubbish` (pipeline), `MaxPieces` and `BUFF_SIZE` (FIFO),
`COUNT` (signals); each is in the guard of one action or in the initial states. In `Santa` the
program itself stops after a number of deliveries.

## Not modelled

The parts marked `not_modelled` in `PROJECT.json`: the demonstrations of signals, the mail
program, the file and directory programs of `cw02`, the processes of `cw03` and the exam
exercises. They are single processes between a file and another, or parents
of children that share nothing, and keep no state or only hand over to the kernel.

Of the modelled parts: failing system calls at start-up, wrong arguments, output and times. Of
the chat: ill-formed lines and the end of input, SIGQUIT, which does what SIGINT does, PIDs and
queue numbers that are used again, numbers outside the table, the limits of System V queues,
the log. Of the game: quitting before the first message has been sent. Of the pipelines: the
text substitution that makes a line of commands (so the component is marked `partly`), and what
becomes of the file of commands if `prev` happens to hold its descriptor. Of the FIFO:
producers that send more than one buffer, whose pieces the writes may cut and other producers'
may divide, a last piece that is shorter than the others, and files that cannot be opened.
