---------------------------- MODULE MCSurfTimer ----------------------------
(***************************************************************************)
(* Instances for TLC: the main course has stages and one checkpoint, the   *)
(* bonus is an unstaged course with two checkpoints whose start zone       *)
(* overlaps the main one.                                                  *)
(* The first stage overlaps the checkpoint and the last one the end zone.  *)
(***************************************************************************)
EXTENDS SurfTimer

CONSTANTS Main, Bonus, FirstStage, LastStage

MCCheckpointCount == [c \in Course |-> IF c = Main THEN 1 ELSE 2]
MCStageZones == [c \in Course |-> IF c = Main THEN FirstStage .. LastStage ELSE {}]
MCStageCount == [c \in Course |-> Cardinality(MCStageZones[c])]
MCOverlaps == {{StageZone(Main, LastStage), EndZone(Main)},
               {StageZone(Main, FirstStage), CheckpointZone(Main, 1)},
               {StartZone(Main), StartZone(Bonus)}}

\* What tells two states apart.  The splits are read by nothing but the
\* property about them, which is about a plain run that is on (starting one on
\* the staged course clears them all); the clock is read while a run is on.
MCView ==
    <<pawnVars, zoneVars, paused, savedPosition, timerRunning, longest, currentCourseGUID,
      cpVars, currentStage, run,
      IF timerRunning THEN currentTime ELSE 0,
      IF timerRunning /\ run.plain THEN splitVars ELSE <<>> >>
=============================================================================
