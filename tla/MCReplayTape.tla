---------------------------- MODULE MCReplayTape ----------------------------
(***************************************************************************)
(* A small instance of ReplayTape for TLC.                                 *)
(***************************************************************************)
EXTENDS ReplayTape

CONSTANTS a, b, knife, usp

AnyPlace  == {a, b}
AnyWeapon == {knife, usp}

\* No file; a file that ends in the ticks, or in the moves; a whole one.
SomeReads == {-1, 0, 2, 4}

\* Places and weapons are interchangeable.
Interchangeable == Permutations(AnyPlace) \cup Permutations(AnyWeapon)

\* What tells two states apart.  Once a replay is saved nothing but the replay
\* and what its ticks were like matters, to the steps and to the properties; and
\* if a chunk was not read back whole, neither its events nor its playback do,
\* and if there is one, neither do its subtick moves.
View ==
    IF tape = NoTape THEN <<tapeVars>>
    ELSE <<[tape EXCEPT !.subticks = IF tape.chunks = 0 THEN @ ELSE <<>>,
                        !.events   = IF tape.whole THEN @ ELSE <<>>],
           IF tape.whole THEN replay ELSE NotPlaying,
           SelectSeq(seen, LAMBDA s : tape.ticks = <<>>
                            \/ s.tick.serverTick >= tape.ticks[1].serverTick)>>

=============================================================================
