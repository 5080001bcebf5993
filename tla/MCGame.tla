------------------------------- MODULE MCGame -------------------------------
(***************************************************************************)
(* Instances of the game: streams and datagrams; with two players of       *)
(* different names, with three of whom two have the same name, and with    *)
(* room for one.  Which one runs is chosen in the initial state.  The      *)
(* constants of this module are those of the setting "pings"; the          *)
(* invariants of Game ask for no constant that the settings differ in.     *)
(***************************************************************************)
EXTENDS Game, TLC

CONSTANTS p1, p2, p3

VARIABLE setting

Two == {p1, p2}
Own == [x \in Two |-> x]
Alike == (p1 :> 1) @@ (p2 :> 1) @@ (p3 :> 2)

\* Games to their end, a full table; a namesake, a loss, pings in a game.
Moves == INSTANCE Game WITH MaxPings <- 0, MaxMoves <- 2
Full  == INSTANCE Game WITH Clients <- {p1, p2, p3}, Name <- [x \in {p1, p2, p3} |-> x],
                            MaxPings <- 0
Names == INSTANCE Game WITH Clients <- {p1, p2, p3}, Name <- Alike, STREAM <- FALSE,
                            MaxPings <- 0
Loss  == INSTANCE Game WITH STREAM <- FALSE, MaxLost <- 1, MaxPings <- 1
Both  == INSTANCE Game WITH STREAM <- FALSE, MaxPings <- 1, MaxMoves <- 1

MCInit ==
    \/ setting = "pings" /\ Init
    \/ setting = "moves" /\ Moves!Init
    \/ setting = "full"  /\ Full!Init
    \/ setting = "names" /\ Names!Init
    \/ setting = "loss"  /\ Loss!Init
    \/ setting = "both"  /\ Both!Init

MCNext ==
    /\ UNCHANGED setting
    /\ \/ setting = "pings" /\ Next
       \/ setting = "moves" /\ Moves!Next
       \/ setting = "full"  /\ Full!Next
       \/ setting = "names" /\ Names!Next
       \/ setting = "loss"  /\ Loss!Next
       \/ setting = "both"  /\ Both!Next

MCSpec == MCInit /\ [][MCNext]_<<vars, setting>>

\* p1 and p2 are alike in every setting; how the server ends does not matter any more.
Symmetry == Permutations(Two)
View == IF Running THEN <<vars, setting>> ELSE <<setting, srv>>

----------------------------------------------------------------------------
\* Type invariant.
MCTypeOK ==
    CASE setting = "pings" -> TypeOK
      [] setting = "moves" -> Moves!TypeOK
      [] setting = "full"  -> Full!TypeOK
      [] setting = "names" -> Names!TypeOK
      [] setting = "loss"  -> Loss!TypeOK
      [] setting = "both"  -> Both!TypeOK
=============================================================================
