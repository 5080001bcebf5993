----------------------------- MODULE GameClient -----------------------------
(***************************************************************************)
(* A player of cw10: the main thread receives messages, answers pings and  *)
(* sets the status of the game; the game thread, started by the first      *)
(* message, reads that status and command_args without the mutex and       *)
(* writes the status in its turn.  A step is one message received and      *)
(* dispatched, or what the game thread does from a read of the status to   *)
(* the next or to its next write of it.                                    *)
(***************************************************************************)
EXTENDS GameNet

CONSTANT MaxMoves          \* bound: moves of one player

ClientAssumption == MaxMoves \in Nat

VARIABLES
    main,      \* the main thread: "connecting" until SIGINT has a handler, "recv",
               \* "told" to quit by the server, or "quitting"
    args,      \* command_args
    status,    \* current_game_status
    game,      \* the game thread: where it is, and the status it will write
    moves,     \* moves made
    differ     \* whether some board has missed a move

clientVars == <<main, args, status, game, moves, differ>>

Status == {"GAME_NOT_STARTED", "LOOKING_FOR_OPPONENT", "OPPONENTS_TURN",
           "OPPONENTS_TURN_FINISHED", "MY_TURN", "GAME_OVER"}
MainAt == {"connecting", "recv", "told", "quitting"}
GameAt == {"none", "top", "looking", "waiting", "write", "moved", "over"}

NoThread == [at |-> "none", next |-> "GAME_NOT_STARTED"]

ClientInit ==
    /\ main = [c \in Clients |-> "recv"]
    /\ args = [c \in Clients |-> " "]
    /\ status = [c \in Clients |-> "GAME_NOT_STARTED"]
    /\ game = [c \in Clients |-> NoThread]
    /\ moves = [c \in Clients |-> 0]
    /\ differ = FALSE

Sent(c, m)    == toServer' = [toServer EXCEPT ![c] = Append(@, m)]
GameTo(c, l)  == game' = [game EXCEPT ![c].at = l]
GameWrites(c, l, s) == game' = [game EXCEPT ![c] = [at |-> l, next |-> s]]

----------------------------------------------------------------------------
(* The main thread *)

Opens(c) == conn[c] = "none" /\ conn' = [conn EXCEPT ![c] = "open"]

\* With datagrams the name is sent before SIGINT has its handler, with streams after it.
connect(c) ==
    /\ Opens(c)
    /\ Sent(c, Msg("initialization", " "))
    /\ main' = [main EXCEPT ![c] = IF STREAM THEN "recv" ELSE "connecting"]
    /\ UNCHANGED <<args, status, game, moves, differ, toClient, lost>>

InstallsHandler(c) ==
    /\ main[c] = "connecting"
    /\ main' = [main EXCEPT ![c] = "recv"]
    /\ UNCHANGED <<args, status, game, moves, differ, net>>

\* The next message, of action a, arrives and is dispatched.
recv(c, a, s) ==
    /\ conn[c] = "open" /\ main[c] = "recv"
    /\ toClient[c] # <<>> /\ Head(toClient[c]).action = a
    /\ toClient' = [toClient EXCEPT ![c] = Tail(@)]
    /\ args' = [args EXCEPT ![c] = Head(toClient[c]).args]
    /\ status' = [status EXCEPT ![c] = s]
    /\ UNCHANGED <<moves, differ, conn, lost>>

GameStarts(c) ==
    /\ recv(c, "initialization", "GAME_NOT_STARTED")
    /\ IF game[c].at = "none" THEN GameTo(c, "top") ELSE UNCHANGED game
    /\ UNCHANGED <<main, toServer>>

OpponentMoved(c) ==
    /\ recv(c, "opponent_move", "OPPONENTS_TURN_FINISHED")
    /\ UNCHANGED <<main, game, toServer>>

\* The mutex stays locked until the process exits.
Told(c) ==
    /\ recv(c, "quit", "GAME_OVER")
    /\ main' = [main EXCEPT ![c] = "told"]
    /\ UNCHANGED <<game, toServer>>

ping_reply(c) ==
    /\ recv(c, "ping", status[c])
    /\ Sent(c, Msg("ping", " "))
    /\ UNCHANGED <<main, game>>

\* Mutant of quit_game: the server is not told.
M_QuitsUntold(c) ==
    /\ conn[c] = "open" /\ main[c] = "recv"
    /\ main' = [main EXCEPT ![c] = "quitting"]
    /\ UNCHANGED <<args, status, game, moves, differ, net>>

\* SIGINT: quit runs in the main thread, and the game thread goes on until exit.
quit_game(c) ==
    /\ conn[c] = "open" /\ main[c] = "recv"
    /\ main' = [main EXCEPT ![c] = "quitting"]
    /\ Sent(c, Msg("quit", " "))
    /\ UNCHANGED <<args, status, game, moves, differ, toClient, conn, lost>>

\* The process ends, and with it both threads.
Ends(c, how) ==
    /\ conn' = [conn EXCEPT ![c] = how]
    /\ toClient' = [toClient EXCEPT ![c] = <<>>]
    /\ main' = [main EXCEPT ![c] = "recv"]
    /\ args' = [args EXCEPT ![c] = " "]
    /\ status' = [status EXCEPT ![c] = "GAME_NOT_STARTED"]
    /\ game' = [game EXCEPT ![c] = NoThread]
    /\ moves' = [moves EXCEPT ![c] = 0]
    /\ UNCHANGED <<differ, toServer, lost>>

Exits(c) == Ends(c, "closed")

\* SIGINT before it has a handler: the server is not told.
Killed(c) == main[c] = "connecting" /\ Ends(c, "killed")

close_connection(c) ==
    /\ conn[c] = "open"
    /\ main[c] \in {"told", "quitting"} \/ game[c].at = "over"
    /\ Exits(c)

----------------------------------------------------------------------------
(* The game thread *)

\* What the game thread finds in the status, at the top of its loop or when it wakes up.
Reads(c, s) ==
    /\ conn[c] = "open" /\ status[c] = s
    /\ \/ game[c].at = "top"
       \/ game[c].at = "looking" /\ s = "GAME_NOT_STARTED" /\ main[c] # "told"
       \/ game[c].at = "waiting" /\ s = "OPPONENTS_TURN_FINISHED" /\ main[c] # "told"

\* command_args changes before the status does, and is rubbish while recv fills the
\* buffer: the game thread may meet either with the status of before.
Argument(c, a) ==
    \/ a = args[c]
    \/ main[c] = "recv" /\ toClient[c] # <<>> /\ a \in {" ", Head(toClient[c]).args}

Turn(a) == IF a = "O" THEN "MY_TURN" ELSE "OPPONENTS_TURN"
Refused == {"username_in_use", "no_free_slot"}

Arguments == {m.args : m \in ClientMessages}

\* Also when an opponent has been found; only the first time are other answers looked for.
NotStarted(c) ==
    /\ Reads(c, "GAME_NOT_STARTED")
    /\ \E a \in Arguments :
         /\ Argument(c, a)
         /\ \/ game[c].at = "top" /\ a \in Refused /\ Exits(c)
            \/ /\ game[c].at = "top" => a \notin Refused
               /\ GameWrites(c, "write", IF a = "no_enemy_found" /\ game[c].at = "top"
                                          THEN "LOOKING_FOR_OPPONENT" ELSE Turn(a))
               /\ UNCHANGED <<main, args, status, moves, differ, net>>

\* A wait begins with the mutex.
Waits(c) ==
    /\ conn[c] = "open" /\ game[c].at = "top" /\ main[c] # "told"
    /\ \/ status[c] = "LOOKING_FOR_OPPONENT" /\ GameTo(c, "looking")
       \/ status[c] = "OPPONENTS_TURN" /\ GameTo(c, "waiting")
    /\ UNCHANGED <<main, args, status, moves, differ, net>>

\* The move is sent before the status is written.
MyTurn(c) ==
    /\ Reads(c, "MY_TURN") /\ moves[c] < MaxMoves
    /\ moves' = [moves EXCEPT ![c] = @ + 1]
    /\ \E r \in {"goes on", "ends"} :
         /\ Sent(c, Msg("move", r))
         /\ GameWrites(c, "moved", IF r = "ends" THEN "GAME_OVER" ELSE "OPPONENTS_TURN")
    /\ UNCHANGED <<main, args, status, differ, toClient, conn, lost>>

\* Once a board has missed a move, what its owner makes of the next one is anything.
TurnFinished(c) ==
    /\ Reads(c, "OPPONENTS_TURN_FINISHED")
    /\ \E a \in Arguments, r \in {"goes on", "ends"} :
         /\ Argument(c, a)
         /\ a = r \/ a \notin {"goes on", "ends"} \/ differ
         /\ differ' = (differ \/ a \notin {"goes on", "ends"})
         /\ GameWrites(c, "moved", IF r = "ends" THEN "GAME_OVER" ELSE "MY_TURN")
    /\ UNCHANGED <<main, args, status, moves, net>>

\* After a move GAME_OVER is kept; an opponent's move noted meanwhile is not.
WritesStatus(c) ==
    /\ conn[c] = "open" /\ game[c].at \in {"write", "moved"}
    /\ status' = [status EXCEPT ![c] = IF game[c].at = "moved" /\ @ = "GAME_OVER"
                                       THEN @ ELSE game[c].next]
    /\ differ' = (differ \/ (/\ status[c] = "OPPONENTS_TURN_FINISHED"
                            /\ game[c].next = "OPPONENTS_TURN"))
    /\ game' = [game EXCEPT ![c] = [NoThread EXCEPT !.at = "top"]]
    /\ UNCHANGED <<main, args, moves, net>>

game_over_sent(c) ==
    /\ Reads(c, "GAME_OVER")
    /\ Sent(c, Msg("game_over", " "))
    /\ GameTo(c, "over")
    /\ UNCHANGED <<main, args, status, moves, differ, toClient, conn, lost>>

----------------------------------------------------------------------------
play_game(c) ==
    \/ NotStarted(c) \/ Waits(c) \/ MyTurn(c) \/ TurnFinished(c)
    \/ WritesStatus(c) \/ game_over_sent(c)

main_loop(c) ==
    \/ connect(c) \/ InstallsHandler(c) \/ GameStarts(c) \/ OpponentMoved(c) \/ Told(c) \/ ping_reply(c)

ClientStep(c) == main_loop(c) \/ play_game(c) \/ quit_game(c) \/ Killed(c)
                 \/ close_connection(c)
=============================================================================
