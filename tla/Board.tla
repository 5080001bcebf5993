------------------------------- MODULE Board -------------------------------
(***************************************************************************)
(* The boards of the two players of cw10: each marks a move on its own     *)
(* board, the mover before sending it and the opponent when it arrives,    *)
(* and each looks for itself whether the game is over.  Messages arrive.   *)
(***************************************************************************)
EXTENDS Integers, Sequences, FiniteSets

VARIABLES
    fields,   \* game_board of the player of each sign
    turn,     \* current_game_status of each player
    sent      \* the move under way to the opponent of the player who sent it

boardVars == <<fields, turn, sent>>

Signs  == {"O", "X"}
Fields == 0 .. 8

create_new_board == [f \in Fields |-> "EMPTY"]
get_opposite_sign(sign) == IF sign = "O" THEN "X" ELSE "O"

BoardInit ==
    /\ fields = [s \in Signs |-> create_new_board]
    /\ turn = [s \in Signs |-> IF s = "O" THEN "MY_TURN" ELSE "OPPONENTS_TURN"]
    /\ sent = <<>>

check_move(b, f) == f \in Fields /\ b[f] = "EMPTY"

\* Mutant of Crosses: the second one begins in the first field.
M_CrossFromZero == {{0, 4, 8}, {f \in 0 .. 6 : f % 2 = 0}}

RowLines    == {{r * 3 + c : c \in 0 .. 2} : r \in 0 .. 2}
ColumnLines == {{r * 3 + c : r \in 0 .. 2} : c \in 0 .. 2}
Crosses     == {{f \in 0 .. 8 : f % 4 = 0}, {f \in 2 .. 6 : f % 2 = 0}}

\* 1: sign has won; 0: there is a free field; -1: neither.
check_end(b, sign) ==
    IF \E line \in RowLines \cup ColumnLines \cup Crosses : \A f \in line : b[f] = sign THEN 1
    ELSE IF \E f \in Fields : b[f] = "EMPTY" THEN 0 ELSE -1

After(b, sign, s) == IF check_end(b, sign) = 0 THEN s ELSE "GAME_OVER"

MyTurn(s) ==
    /\ turn[s] = "MY_TURN"
    /\ \E option \in 1 .. 9 :
         LET f == option - 1
             b == [fields[s] EXCEPT ![f] = s]
         IN /\ check_move(fields[s], f)
            /\ fields' = [fields EXCEPT ![s] = b]
            /\ sent' = <<s, f>>
            /\ turn' = [turn EXCEPT ![s] = After(b, s, "OPPONENTS_TURN")]

OpponentsTurnFinished(s) ==
    /\ turn[s] = "OPPONENTS_TURN" /\ sent # <<>> /\ sent[1] # s
    /\ LET o == get_opposite_sign(s)
           b == [fields[s] EXCEPT ![sent[2]] = o]
       IN /\ fields' = [fields EXCEPT ![s] = b]
          /\ turn' = [turn EXCEPT ![s] = After(b, o, "MY_TURN")]
    /\ sent' = <<>>

BoardNext == \E s \in Signs : MyTurn(s) \/ OpponentsTurnFinished(s)

BoardSpec == BoardInit /\ [][BoardNext]_boardVars

----------------------------------------------------------------------------
BoardTypeOK ==
    /\ fields \in [Signs -> [Fields -> Signs \cup {"EMPTY"}]]
    /\ turn \in [Signs -> {"MY_TURN", "OPPONENTS_TURN", "GAME_OVER"}]
    /\ sent \in {<<>>} \cup (Signs \X Fields)

\* The fields numbered as a magic square: three of them are in a line when they add up
\* to fifteen.
Magic == <<2, 7, 6, 9, 5, 1, 4, 3, 8>>
Wins(b, s) == \E f, g, h \in {x \in Fields : b[x] = s} :
                f < g /\ g < h /\ Magic[f + 1] + Magic[g + 1] + Magic[h + 1] = 15

Over(b) == Wins(b, "O") \/ Wins(b, "X") \/ \A f \in Fields : b[f] # "EMPTY"

\* When no move is under way the players see the same board, and either both hold the
\* game for over, with three in a line or no field left, or neither does and exactly
\* one is on turn.
EndsTogether ==
    sent = <<>> =>
        /\ fields["X"] = fields["O"]
        /\ \A s \in Signs : turn[s] = "GAME_OVER" <=> Over(fields["O"])
        /\ ~Over(fields["O"]) => {turn[s] : s \in Signs} = {"MY_TURN", "OPPONENTS_TURN"}

\* The inductive invariant: a move under way is one field that the opponent has free, in
\* a game that the opponent holds for running.
BoardInv ==
    /\ BoardTypeOK
    /\ EndsTogether
    /\ \A s \in Signs, f \in Fields :
         sent = <<s, f>> =>
           LET o == get_opposite_sign(s) IN
           /\ ~Over(fields[o]) /\ turn[o] = "OPPONENTS_TURN"
           /\ fields[s] = [fields[o] EXCEPT ![f] = s] /\ fields[o][f] = "EMPTY"
           /\ turn[s] = IF Over(fields[s]) THEN "GAME_OVER" ELSE "OPPONENTS_TURN"
=============================================================================
