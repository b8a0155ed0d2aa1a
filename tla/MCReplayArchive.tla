--------------------------- MODULE MCReplayArchive ---------------------------
(***************************************************************************)
(* Instances for TLC: three runs and three manual replays of one player,   *)
(* one more of each than is kept, a styled run and a reported cheater; one *)
(* replay of each kind is there when the server starts.                    *)
(***************************************************************************)
EXTENDS ReplayArchive

CONSTANTS Fast, Medium, Slow, Fancy, Old, Recent, Latest, Caught, Ann

MCGroup == [r \in Replays |-> Ann]
MCTime == [r \in Replays |-> CASE r \in {Fast, Old} -> 1
                               [] r \in {Medium, Recent} -> 2
                               [] r \in {Slow, Latest} -> 3
                               [] OTHER -> 4]
MCPosition == [r \in Replays |-> CASE r = Slow -> 1
                                   [] r = Old -> 2
                                   [] r = Fast -> 3
                                   [] r = Latest -> 4
                                   [] r = Caught -> 5
                                   [] r = Medium -> 6
                                   [] OTHER -> 7]
=============================================================================
