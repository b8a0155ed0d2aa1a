--------------------------- MODULE SurfTimerProofs ---------------------------
(***************************************************************************)
(* Proofs about SurfTimer, for every map.                                  *)
(***************************************************************************)
EXTENDS SurfTimer, FiniteSetTheorems, TLAPS

(***************************************************************************)
(* Typing.                                                                 *)
(***************************************************************************)

\* Clearing or writing the storage of a stage vector leaves a vector.
LEMMA ClearedType ==
    ASSUME NEW v \in Times, NEW k \in Int
    PROVE  Cleared(v, k) \in Times
BY DEF Times, Cleared, NoTime

LEMMA WriteType ==
    ASSUME NEW v \in Times, NEW k \in Int, NEW t \in Int
    PROVE  Write(v, k, t) \in Times
BY DEF Times, Write

\* What the actions do to the history of a run leaves a history.
LEMMA HistoryType ==
    /\ NoRun \in History
    /\ \A c \in Course : [course |-> c, plain |-> TRUE, cps |-> {}, stages |-> {},
                         finished |-> FALSE] \in History
    /\ \A h \in History, n \in Nat : [h EXCEPT !.cps = @ \cup {n}] \in History
    /\ \A h \in History, S \in SUBSET Nat, b \in BOOLEAN :
          [h EXCEPT !.stages = S, !.plain = b] \in History
    /\ \A h \in History, b \in BOOLEAN : [h EXCEPT !.finished = b] \in History
    /\ \A h \in History : [h EXCEPT !.plain = FALSE] \in History
BY DEF NoRun, History

\* A zone is a zone.
LEMMA ZoneType ==
    ASSUME NEW c \in Course, NEW n \in Nat
    PROVE  {StartZone(c), EndZone(c), CheckpointZone(c, n), StageZone(c, n)} \subseteq Zone
BY DEF StartZone, EndZone, CheckpointZone, StageZone, Zone

\* Stopping the timer leaves a stopped timer, a stage and a history.
LEMMA StopType ==
    ASSUME TypeOK, NEW stage \in Nat
    PROVE  /\ TimerStopThenStage(stage) =>
                timerRunning' = FALSE /\ currentStage' \in Nat /\ run' \in History
           /\ TimerStop =>
                timerRunning' = FALSE /\ currentStage' \in Nat /\ run' \in History
<1> run \in History /\ NoRun \in History /\ currentStage \in Nat /\ timerRunning \in BOOLEAN
    BY HistoryType DEF TypeOK
<1> QED
    BY DEF TimerStop, TimerStopThenStage

\* Each action of the model preserves the type invariant.
LEMMA TypeStep == TypeOK /\ [Next]_vars => TypeOK'
<1> SUFFICES ASSUME TypeOK, [Next]_vars PROVE TypeOK'
    OBVIOUS
<1> USE DEF TypeOK, pawnVars, zoneVars, clockVars, cpVars, splitVars, runVars,
        AfterTimerStop, TeamType, MoveTypes
<1>1. ASSUME NEW c \in Course, StartZoneStartTouch(c) PROVE TypeOK'
    BY <1>1, ZoneType, HistoryType DEF StartZoneStartTouch, StartTouch, SetCourse
<1>2. ASSUME NEW c \in Course, StartZoneTouch(c) PROVE TypeOK'
    BY <1>2, HistoryType DEF StartZoneTouch, SetCourse
<1>3. ASSUME NEW c \in Course, NEW eligible \in BOOLEAN, StartZoneEndTouch(c, eligible)
      PROVE  TypeOK'
    <2>1. CASE UNCHANGED <<runVars, savedPosition>>
        BY <1>3, <2>1 DEF StartZoneEndTouch, EndTouch
    <2>2. CASE StartRun(c)
        <3>1. StageCount[c] \in Nat
            BY CourseAssumption
        <3>2. /\ Cleared(stageZoneTimes, StageCount[c]) \in Times
              /\ Cleared(stageEndTouchTimes, StageCount[c]) \in Times
            BY <3>1, ClearedType
        <3>3. Write(Cleared(stageEndTouchTimes, StageCount[c]), 1, 0)
                \in Times
            BY <3>2, WriteType
        <3>4. /\ stageZoneTimes' \in Times
              /\ stageEndTouchTimes' \in Times
            BY <2>2, <3>2, <3>3 DEF StartRun
        <3> QED
            BY <1>3, <2>2, <3>4, HistoryType DEF StartZoneEndTouch, EndTouch, StartRun
    <2> QED
        BY <1>3, <2>1, <2>2 DEF StartZoneEndTouch, TimerStart
<1>4. ASSUME NEW c \in Course, NEW n \in 1 .. CheckpointCount[c],
             CheckpointZoneStartTouch(c, n)
      PROVE  TypeOK'
    <2>1. n \in Nat
        BY CourseAssumption
    <2>2. CheckpointZone(c, n) \in Zone
        BY <2>1, ZoneType
    <2>3. run' \in History
        BY <1>4, <2>1, HistoryType DEF CheckpointZoneStartTouch
    <2>4. cpReached' \subseteq Nat /\ reachedCheckpoints' \in Nat
        BY <1>4, <2>1 DEF CheckpointZoneStartTouch
    <2> QED
        BY <1>4, <2>2, <2>3, <2>4 DEF CheckpointZoneStartTouch, StartTouch
<1>5. ASSUME NEW c \in Course, NEW n \in StageZones[c], StageZoneStartTouch(c, n)
      PROVE  TypeOK'
    <2>1. n \in Nat /\ StageZone(c, n) \in Zone
        BY CourseAssumption, ZoneType
    <2>2. CreditStage(c, n) \in History
        <3> DEFINE S == IF \A m \in StageZones[c] : m < n => m \in run.stages
                        THEN run.stages \cup {n} ELSE run.stages
                   b == run.plain /\ \A z \in touching : z.kind # "stage"
        <3>1. S \in SUBSET Nat /\ b \in BOOLEAN
            BY <2>1 DEF History
        <3>2. [run EXCEPT !.stages = S, !.plain = b] \in History
            BY <3>1, HistoryType
        <3> QED
            BY <3>2 DEF CreditStage
    <2>3. stageZoneTimes' \in Times
        <3>1. CASE currentStage \in 1 .. MaxZones
            <4>1. currentTime - stageEndTouchTimes[currentStage] \in Int
                BY <3>1 DEF Times
            <4>2. Write(stageZoneTimes, currentStage,
                        currentTime - stageEndTouchTimes[currentStage]) \in Times
                BY <4>1, WriteType
            <4> QED
                BY <1>5, <3>1, <4>2 DEF StageZoneStartTouch
        <3> QED
            BY <1>5, <3>1 DEF StageZoneStartTouch
    <2> QED
        BY <1>5, <2>1, <2>2, <2>3 DEF StageZoneStartTouch, StartTouch
<1>6. ASSUME NEW c \in Course, NEW n \in StageZones[c], StageZoneEndTouch(c, n)
      PROVE  TypeOK'
    <2>1. Write(stageEndTouchTimes, currentStage, currentTime) \in Times
        BY WriteType
    <2>2. stageEndTouchTimes' \in Times
        BY <1>6, <2>1 DEF StageZoneEndTouch
    <2> QED
        BY <1>6, <2>2 DEF StageZoneEndTouch, EndTouch
<1>7. ASSUME NEW c \in Course, TimerEnd(c) PROVE TypeOK'
    <2>1. EndZone(c) \in Zone
        BY ZoneType
    <2>2. CASE FinishRun
        <3>1. run' \in History
            BY <2>2, HistoryType DEF FinishRun
        <3>2. currentTime' \in Nat /\ longest' \in Nat
            BY <2>2 DEF FinishRun, Longest
        <3>3. timerRunning' = FALSE /\ currentStage' = 0
            BY <2>2 DEF FinishRun
        <3> QED
            BY <1>7, <2>1, <3>1, <3>2, <3>3 DEF TimerEnd, StartTouch
    <2>3. CASE UNCHANGED <<clockVars, currentStage, run>>
        BY <1>7, <2>1, <2>3 DEF TimerEnd, StartTouch
    <2> QED
        BY <1>7, <2>2, <2>3 DEF TimerEnd
<1>8. CASE StopRun
    BY <1>8, StopType DEF StopRun
<1>9. CASE RestartStage
    BY <1>9, StopType DEF RestartStage
<1>10. ASSUME NEW c \in Course, NEW stage \in StageZones[c] \cup {1}, TeleportToStage(stage)
       PROVE  TypeOK'
  <2>1. stage \in Nat
      BY <1>10, CourseAssumption
  <2> QED
      BY <1>10, <2>1, StopType DEF TeleportToStage
<1>11. ASSUME NEW found \in BOOLEAN, RestartBonus(found) PROVE TypeOK'
    BY <1>11, HistoryType DEF RestartBonus
<1>12. ASSUME NEW clearStage \in BOOLEAN, TeleportToCourse(clearStage) PROVE TypeOK'
    BY <1>12, StopType DEF TeleportToCourse, SetMoveType, Enter
<1>13. ASSUME NEW still \in BOOLEAN, Pause(still) PROVE TypeOK'
    BY <1>13 DEF Pause
<1>14. ASSUME NEW still \in BOOLEAN, JoinSpectators(still) PROVE TypeOK'
    BY <1>14, StopType DEF JoinSpectators
<1>15. CASE Resume
    BY <1>15 DEF Resume
<1>16. CASE ToggleNoclip
    BY <1>16 DEF ToggleNoclip
<1>17. CASE JoinGame
    BY <1>17, StopType DEF JoinGame, Enter
<1>18. CASE SwitchSides
    BY <1>18, StopType DEF SwitchSides, Enter
<1>19. CASE OnPhysicsSimulatePost
    BY <1>19 DEF OnPhysicsSimulatePost, Longest
<1>20. CASE OnStartTouchGround
    BY <1>20 DEF OnStartTouchGround
<1>21. CASE EscapePause
    BY <1>21 DEF EscapePause, SetMoveType
<1>22. CASE HandleNoclip
    BY <1>22, StopType DEF HandleNoclip, SetMoveType
<1>23. CASE OnPlayerDeath
    BY <1>23, StopType DEF OnPlayerDeath
<1>24. CASE OnPlayerSpawn
    BY <1>24 DEF OnPlayerSpawn
<1>25. CASE OnClientDisconnect
    BY <1>25, StopType DEF OnClientDisconnect
<1>26. ASSUME NEW z \in touching, EndTouchOnly(z) PROVE TypeOK'
    BY <1>26 DEF EndTouchOnly, EndTouch
<1>27. ASSUME NEW onLadder \in BOOLEAN, DoTeleport(onLadder) PROVE TypeOK'
    <2>1. /\ alive' \in BOOLEAN /\ team' \in TeamType /\ inNoclip' \in BOOLEAN
          /\ moveType' \in MoveTypes /\ paused' \in BOOLEAN /\ savedPosition' \in BOOLEAN
          /\ touching' \subseteq Zone /\ touchedGroundSinceTouchingStartZone' \in BOOLEAN
        BY <1>27 DEF DoTeleport, SetMoveType
    <2>2. CASE UNCHANGED <<runVars, restored>>
        BY <2>1, <2>2
    <2>3. ASSUME NEW time \in 0 .. longest, SetTime(time) PROVE TypeOK'
        <3>1. time \in Nat
            OBVIOUS
        <3>2. run' \in History
            BY <2>3, HistoryType DEF SetTime
        <3> QED BY <2>1, <2>3, <3>1, <3>2 DEF SetTime
    <2> QED BY <1>27, <2>2, <2>3 DEF DoTeleport
<1>28. CASE UNCHANGED vars
    BY <1>28 DEF vars
<1> QED
    BY <1>1, <1>2, <1>3, <1>4, <1>5, <1>6, <1>7, <1>8, <1>9, <1>10, <1>11, <1>12,
       <1>13, <1>14, <1>15, <1>16, <1>17, <1>18, <1>19, <1>20, <1>21, <1>22, <1>23,
       <1>24, <1>25, <1>26, <1>27, <1>28 DEF Next, TouchZones, Commands, Engine

\* The variables of the timer keep their types, for every map.
THEOREM TypeCorrect == Spec => []TypeOK
<1>1. Init => TypeOK
    <2> SUFFICES ASSUME Init PROVE TypeOK
        OBVIOUS
    <2>1. [s \in 1 .. MaxZones |-> 0] \in Times
        BY DEF Times
    <2> QED
        BY <2>1, HistoryType DEF Init, TypeOK, TeamType, MoveTypes
<1> QED
    BY <1>1, TypeStep, PTL DEF Spec

(***************************************************************************)
(* The pawn and the timer.  The three properties that relate them become   *)
(* inductive with the team: who is alive plays, who has no team has no run.*)
(***************************************************************************)
PawnInv ==
    /\ alive => team = "ct"
    /\ team = "none" => ~timerRunning
    /\ DeadRunIsResumable
    /\ PausedIsFrozen
    /\ NoRunInNoclip

\* Touching zones moves nobody: a run that it starts is the run of a living
\* player out of noclip, anything else it does to the timer stops it.
RunStartsOrStops ==
    \/ alive /\ moveType # "noclip"
    \/ timerRunning' = FALSE
    \/ timerRunning' = timerRunning /\ savedPosition' = savedPosition

LEMMA TouchKeepsPawn ==
    ASSUME TouchZones
    PROVE  UNCHANGED <<pawnVars, paused>> /\ RunStartsOrStops
<1> USE DEF pawnVars, clockVars, runVars, RunStartsOrStops
<1>1. ASSUME NEW c \in Course, NEW eligible \in BOOLEAN, StartZoneEndTouch(c, eligible)
      PROVE  UNCHANGED <<pawnVars, paused>> /\ RunStartsOrStops
    BY <1>1 DEF StartZoneEndTouch, TimerStart, CanStart
<1>2. ASSUME NEW c \in Course, TimerEnd(c)
      PROVE  UNCHANGED <<pawnVars, paused>> /\ RunStartsOrStops
    BY <1>2 DEF TimerEnd, FinishRun
<1>3. ASSUME NEW c \in Course,
             StartZoneStartTouch(c) \/ StartZoneTouch(c)
      PROVE  UNCHANGED <<pawnVars, paused>> /\ RunStartsOrStops
    BY <1>3 DEF StartZoneStartTouch, StartZoneTouch
<1>4. ASSUME NEW c \in Course, NEW n,
             \/ CheckpointZoneStartTouch(c, n)
             \/ StageZoneStartTouch(c, n)
             \/ StageZoneEndTouch(c, n)
      PROVE  UNCHANGED <<pawnVars, paused>> /\ RunStartsOrStops
    BY <1>4 DEF CheckpointZoneStartTouch, StageZoneStartTouch, StageZoneEndTouch
<1> QED
    BY <1>1, <1>2, <1>3, <1>4 DEF TouchZones

\* Each action preserves the invariant of the pawn and the timer.
LEMMA PawnStep == TypeOK /\ PawnInv /\ [Next]_vars => PawnInv'
<1> SUFFICES ASSUME TypeOK, PawnInv, [Next]_vars PROVE PawnInv'
    OBVIOUS
<1> USE DEF PawnInv, DeadRunIsResumable, PausedIsFrozen, NoRunInNoclip, pawnVars,
        zoneVars, clockVars, runVars
<1>1. CASE TouchZones
    <2>1. UNCHANGED <<alive, team, moveType, inNoclip, restored, paused>> /\ RunStartsOrStops
        BY <1>1, TouchKeepsPawn
    <2>2. CASE alive /\ moveType # "noclip"
        BY <2>1, <2>2
    <2>3. CASE timerRunning' = FALSE
        BY <2>1, <2>3
    <2>4. CASE timerRunning' = timerRunning /\ savedPosition' = savedPosition
        BY <2>1, <2>4
    <2> QED
        BY <2>1, <2>2, <2>3, <2>4 DEF RunStartsOrStops
<1>2. CASE StopRun \/ RestartStage
    BY <1>2 DEF StopRun, RestartStage, TimerStop, TimerStopThenStage
<1>3. ASSUME NEW stage, TeleportToStage(stage) PROVE PawnInv'
    BY <1>3 DEF TeleportToStage, TimerStopThenStage
<1>4. ASSUME NEW found \in BOOLEAN, RestartBonus(found) PROVE PawnInv'
    BY <1>4 DEF RestartBonus
<1>5. ASSUME NEW clearStage \in BOOLEAN, TeleportToCourse(clearStage) PROVE PawnInv'
    <2>1. timerRunning' = FALSE
        BY <1>5 DEF TeleportToCourse, TimerStopThenStage
    <2>2. CASE alive /\ inNoclip
        BY <1>5, <2>1, <2>2 DEF TeleportToCourse, SetMoveType
    <2>3. CASE ~alive /\ team # "ct"
        BY <1>5, <2>1, <2>3 DEF TeleportToCourse, Enter
    <2>4. CASE UNCHANGED <<pawnVars, paused, savedPosition>>
        BY <2>1, <2>4
    <2> QED
        BY <1>5, <2>2, <2>3, <2>4 DEF TeleportToCourse
<1>6. ASSUME NEW still \in BOOLEAN, Pause(still) PROVE PawnInv'
    BY <1>6 DEF Pause
<1>7. ASSUME NEW still \in BOOLEAN, JoinSpectators(still) PROVE PawnInv'
    BY <1>7 DEF JoinSpectators, TimerStop, TimerStopThenStage
<1>8. CASE Resume
    BY <1>8 DEF Resume
<1>9. CASE ToggleNoclip
    BY <1>9 DEF ToggleNoclip
<1>10. CASE JoinGame
    BY <1>10 DEF JoinGame, Enter, TimerStop, TimerStopThenStage
<1>11. CASE SwitchSides
    BY <1>11 DEF SwitchSides, Enter, TimerStop, TimerStopThenStage
<1>12. CASE OnPhysicsSimulatePost
    BY <1>12 DEF OnPhysicsSimulatePost
<1>13. CASE OnStartTouchGround
    BY <1>13 DEF OnStartTouchGround
<1>14. CASE EscapePause
    BY <1>14 DEF EscapePause, SetMoveType
<1>15. CASE HandleNoclip
    <2>1. alive /\ alive' /\ team' = team /\ savedPosition' = savedPosition
        BY <1>15 DEF HandleNoclip
    <2>2. \/ SetMoveType(moveType') /\ moveType' \in {"noclip", "walk"} /\ ~timerRunning'
          \/ UNCHANGED <<moveType, paused, timerRunning>> /\ moveType # "noclip"
        BY <1>15 DEF HandleNoclip, SetMoveType, TimerStop, TimerStopThenStage
    <2>3. CASE SetMoveType(moveType') /\ moveType' \in {"noclip", "walk"} /\ ~timerRunning'
        <3>1. ~paused'
            BY <2>1, <2>3 DEF SetMoveType
        <3> QED BY <2>1, <2>3, <3>1
    <2>4. CASE UNCHANGED <<moveType, paused, timerRunning>> /\ moveType # "noclip"
        BY <2>1, <2>4
    <2> QED BY <2>2, <2>3, <2>4
<1>16. CASE OnPlayerDeath
    BY <1>16 DEF OnPlayerDeath, TimerStop, TimerStopThenStage
<1>17. CASE OnPlayerSpawn
    BY <1>17 DEF OnPlayerSpawn
<1>18. CASE OnClientDisconnect
    BY <1>18 DEF OnClientDisconnect, TimerStop, TimerStopThenStage
<1>19. ASSUME NEW z, EndTouchOnly(z) PROVE PawnInv'
    BY <1>19 DEF EndTouchOnly
<1>20. CASE UNCHANGED vars
    BY <1>20 DEF vars
<1>21. ASSUME NEW onLadder \in BOOLEAN, DoTeleport(onLadder) PROVE PawnInv'
    <2>1. /\ alive /\ alive' /\ UNCHANGED <<team, savedPosition>>
          /\ \/ UNCHANGED <<moveType, paused>>
             \/ moveType' = "walk" /\ ~paused /\ ~paused'
        BY <1>21 DEF DoTeleport, SetMoveType
    <2>2. \/ UNCHANGED <<timerRunning, restored>>
          \/ restored' = (moveType' = "noclip")
        BY <1>21 DEF DoTeleport, SetTime
    <2>3. alive' /\ paused' => moveType' = "none"
        BY <2>1
    <2>4. moveType' = "noclip" /\ timerRunning' => restored'
        <3>1. CASE UNCHANGED <<timerRunning, restored>>
            <4>1. moveType' = "noclip" => moveType = "noclip"
                BY <2>1
            <4>2. moveType = "noclip" /\ timerRunning => restored
                BY <2>1
            <4> QED BY <3>1, <4>1, <4>2, Zenon
        <3>2. CASE restored' = (moveType' = "noclip")
            BY <3>2
        <3> QED BY <2>2, <3>1, <3>2
    <2> QED BY <2>1, <2>3, <2>4
<1> QED
    BY <1>1, <1>2, <1>3, <1>4, <1>5, <1>6, <1>7, <1>8, <1>9, <1>10, <1>11, <1>12,
       <1>13, <1>14, <1>15, <1>16, <1>17, <1>18, <1>19, <1>20, <1>21 DEF Next, Commands, Engine

\* The pawn and the timer agree in every reachable state.
LEMMA PawnInvariant == Spec => []PawnInv
<1>1. Init => PawnInv
    BY DEF Init, PawnInv, DeadRunIsResumable, PausedIsFrozen, NoRunInNoclip
<1> QED
    BY <1>1, PawnStep, TypeCorrect, PTL DEF Spec

\* A run that outlives its pawn is paused and has a position to return to.
THEOREM DeadRunsAreResumable == Spec => []DeadRunIsResumable
BY PawnInvariant, PTL DEF PawnInv

\* A paused living player cannot move.
THEOREM PausedPlayersAreFrozen == Spec => []PausedIsFrozen
BY PawnInvariant, PTL DEF PawnInv

\* A noclipping player has no run on, but for one that a saved location has
\* turned on again since the last HandleMoveCollision.
THEOREM NoRunsInNoclip == Spec => []NoRunInNoclip
BY PawnInvariant, PTL DEF PawnInv

\* How a player moves fits his run: paused, he is frozen; in noclip, he has
\* none, or one that the next HandleMoveCollision stops.
THEOREM MoveTypesFit == Spec => []MoveTypeFits
BY PawnInvariant, PTL DEF PawnInv, MoveTypeFits

(***************************************************************************)
(* What a run has visited.  TimerEnd compares two counters with the size   *)
(* of the course; the invariant says what the counters stand for while an  *)
(* untampered run is on.  The stages count only because a course with n    *)
(* stage triggers has at most n stage numbers: a run that has come to      *)
(* stage n + 1 has met all of 2 .. n + 1, so those are all there are.      *)
(***************************************************************************)
CheckpointsCounted(c) ==
    /\ run.cps = cpReached \cap (1 .. CheckpointCount[c])
    /\ reachedCheckpoints = Cardinality(run.cps)

StagesInOrder(c) ==
    /\ currentStage >= 1
    /\ 2 .. currentStage \subseteq StageZones[c]
    /\ run.stages \subseteq StageZones[c]
    /\ 1 \notin StageZones[c] => 2 .. currentStage \subseteq run.stages

RunInv ==
    /\ FinishCoversCourse
    /\ timerRunning => ~run.finished
    /\ timerRunning /\ run.course # NoCourse =>
         /\ currentCourseGUID = run.course
         /\ CheckpointsCounted(run.course)
         /\ StageCount[run.course] > 0 => StagesInOrder(run.course)

\* A set of checkpoints as large as the course's is all of them.
LEMMA AllCheckpoints ==
    ASSUME NEW n \in Nat, NEW S \in SUBSET (1 .. n), Cardinality(S) = n
    PROVE  S = 1 .. n
<1>1. IsFiniteSet(1 .. n) /\ Cardinality(1 .. n) = n
    BY FS_Interval
<1> QED
    BY <1>1, FS_Subset

\* Stages that follow each other from 2 fit in the course, and when they are
\* as many as the course has triggers there are no others.
LEMMA StagesFit ==
    ASSUME NEW c \in Course, StageCount[c] > 0,
           NEW s \in Nat, s >= 1, 2 .. s \subseteq StageZones[c]
    PROVE  /\ s - 1 <= StageCount[c]
           /\ s - 1 = StageCount[c] => StageZones[c] = 2 .. s
<1>1. IsFiniteSet(StageZones[c]) /\ Cardinality(StageZones[c]) <= StageCount[c]
    BY CourseAssumption
<1>2. StageCount[c] \in Nat /\ Cardinality(StageZones[c]) \in Nat
    BY <1>1, CourseAssumption, FS_CardinalityType
<1>3. Cardinality(2 .. s) = s - 1
    BY FS_Interval
<1>4. /\ Cardinality(2 .. s) <= Cardinality(StageZones[c])
      /\ Cardinality(StageZones[c]) = Cardinality(2 .. s) => StageZones[c] = 2 .. s
    BY <1>1, FS_Subset
<1> QED
    BY <1>1, <1>2, <1>3, <1>4

\* A step that touches none of a run's variables keeps the invariant.
LEMMA RunKept ==
    ASSUME RunInv,
           UNCHANGED <<timerRunning, currentCourseGUID, cpReached, reachedCheckpoints,
                       currentStage, run>>
    PROVE  RunInv'
BY DEF RunInv, FinishCoversCourse, CheckpointsCounted, StagesInOrder

\* So does one that stops the timer: what was on is forgotten, what had
\* finished stays.
LEMMA RunStopped ==
    ASSUME RunInv, timerRunning' = FALSE, run' = IF timerRunning THEN NoRun ELSE run
    PROVE  RunInv'
BY DEF RunInv, FinishCoversCourse, NoRun

\* TimerStart opens a run that has visited nothing.
LEMMA RunStarted ==
    ASSUME TypeOK, NEW c \in Course, StartRun(c)
    PROVE  RunInv'
<1>1. /\ timerRunning' = TRUE
      /\ run' = [course |-> c, plain |-> TRUE, cps |-> {}, stages |-> {},
                 finished |-> FALSE]
      /\ currentCourseGUID' = c
      /\ reachedCheckpoints' = 0
      /\ cpReached' = cpReached \ (1 .. CheckpointCount[c])
      /\ StageCount[c] > 0 => currentStage' = 1
    BY DEF StartRun
<1>2. CheckpointsCounted(c)'
    BY <1>1, FS_EmptySet DEF CheckpointsCounted
<1>3. StageCount[c] > 0 => StagesInOrder(c)'
    BY <1>1 DEF StagesInOrder
<1> QED
    BY <1>1, <1>2, <1>3 DEF RunInv, FinishCoversCourse

\* A checkpoint zone counts once.
LEMMA RunCheckpoint ==
    ASSUME TypeOK, RunInv, NEW c \in Course, NEW n \in 1 .. CheckpointCount[c],
           CheckpointZoneStartTouch(c, n)
    PROVE  RunInv'
<1>1. UNCHANGED <<timerRunning, currentCourseGUID, currentStage>>
    BY DEF CheckpointZoneStartTouch, clockVars
<1>2. CASE timerRunning /\ run.course = c
    <2>1. c # NoCourse
        BY CourseAssumption
    <2>2. currentCourseGUID = c /\ CheckpointsCounted(c) /\ ~run.finished
        BY <1>2, <2>1 DEF RunInv
    <2>3. /\ run'.cps = run.cps \cup {n}
          /\ run'.course = c /\ run'.stages = run.stages /\ ~run'.finished
        BY <1>2, <2>2 DEF CheckpointZoneStartTouch, TypeOK, History
    <2>4. CheckpointsCounted(c)'
        <3>1. IsFiniteSet(run.cps)
            <4>1. run.cps \in SUBSET (1 .. CheckpointCount[c])
                BY <2>2 DEF CheckpointsCounted
            <4>2. IsFiniteSet(1 .. CheckpointCount[c])
                BY CourseAssumption, FS_Interval
            <4> QED
                BY <4>1, <4>2, FS_Subset
        <3>2. CASE n \in cpReached
            <4>1. UNCHANGED <<cpReached, reachedCheckpoints>>
                BY <3>2 DEF CheckpointZoneStartTouch, cpVars
            <4>2. run'.cps = run.cps
                BY <2>2, <2>3, <3>2 DEF CheckpointsCounted
            <4> QED
                BY <2>2, <4>1, <4>2 DEF CheckpointsCounted
        <3>3. CASE n \notin cpReached
            <4>1. cpReached' = cpReached \cup {n} /\ reachedCheckpoints' = reachedCheckpoints + 1
                BY <1>2, <2>2, <3>3 DEF CheckpointZoneStartTouch, OnCourse
            <4>2. n \notin run.cps
                BY <2>2, <3>3 DEF CheckpointsCounted
            <4>3. Cardinality(run'.cps) = Cardinality(run.cps) + 1
                BY <2>3, <3>1, <4>2, FS_AddElement
            <4> QED
                BY <2>2, <2>3, <4>1, <4>3 DEF CheckpointsCounted
        <3> QED
            BY <3>2, <3>3
    <2>5. StageCount[c] > 0 => StagesInOrder(c)'
        BY <1>1, <1>2, <2>1, <2>3 DEF RunInv, StagesInOrder
    <2> QED
        BY <1>1, <2>1, <2>2, <2>3, <2>4, <2>5 DEF RunInv, FinishCoversCourse
<1>3. CASE ~timerRunning
    BY <1>1, <1>3 DEF CheckpointZoneStartTouch, RunInv, FinishCoversCourse
<1>4. CASE timerRunning /\ run.course # c
    <2>1. run' = run
        BY <1>4 DEF CheckpointZoneStartTouch
    <2>2. run.course # NoCourse => UNCHANGED <<cpReached, reachedCheckpoints>>
        BY <1>4 DEF CheckpointZoneStartTouch, OnCourse, RunInv, cpVars
    <2> QED
        BY <1>1, <1>4, <2>1, <2>2
        DEF RunInv, FinishCoversCourse, CheckpointsCounted, StagesInOrder
<1> QED
    BY <1>2, <1>3, <1>4

\* A stage zone moves the run on only when its number is the next one.
LEMMA RunStage ==
    ASSUME TypeOK, RunInv, NEW c \in Course, NEW n \in StageZones[c],
           StageZoneStartTouch(c, n)
    PROVE  RunInv'
<1>1. UNCHANGED <<timerRunning, currentCourseGUID, cpReached, reachedCheckpoints>>
    BY DEF StageZoneStartTouch, clockVars, cpVars
<1>2. run' = CreditStage(c, n)
    BY DEF StageZoneStartTouch
<1>3. CASE timerRunning /\ run.course = c
    <2>1. /\ c # NoCourse /\ currentCourseGUID = c /\ ~run.finished
          /\ CheckpointsCounted(c)
          /\ StageCount[c] > 0 => StagesInOrder(c)
        BY <1>3, CourseAssumption DEF RunInv
    <2>2. /\ run'.course = c /\ run'.cps = run.cps /\ run'.finished = run.finished
          /\ run'.stages = IF \A m \in StageZones[c] : m < n => m \in run.stages
                           THEN run.stages \cup {n} ELSE run.stages
        BY <1>2, <1>3 DEF CreditStage, TypeOK, History
    <2>3. CheckpointsCounted(c)'
        BY <1>1, <2>1, <2>2 DEF CheckpointsCounted
    <2>4. ASSUME StageCount[c] > 0 PROVE StagesInOrder(c)'
        <3>1. StagesInOrder(c) /\ currentStage \in Nat
            BY <2>1, <2>4 DEF TypeOK
        <3>2. CASE n = currentStage + 1
            <4>1. currentStage' = currentStage + 1
                BY <1>3, <2>1, <3>2 DEF StageZoneStartTouch, OnCourse
            <4>2. 2 .. currentStage' = (2 .. currentStage) \cup {n}
                BY <3>1, <3>2, <4>1 DEF StagesInOrder
            <4>3. ASSUME 1 \notin StageZones[c]
                  PROVE  2 .. currentStage' \subseteq run'.stages
                <5>1. \A m \in StageZones[c] : m < n => m \in 2 .. currentStage
                    BY <3>1, <3>2, <4>3, CourseAssumption
                <5>2. \A m \in StageZones[c] : m < n => m \in run.stages
                    BY <3>1, <4>3, <5>1 DEF StagesInOrder
                <5> QED
                    BY <2>2, <3>1, <4>2, <4>3, <5>2 DEF StagesInOrder
            <4> QED
                BY <2>2, <3>1, <4>1, <4>2, <4>3 DEF StagesInOrder
        <3>3. CASE n # currentStage + 1
            <4>1. currentStage' = currentStage
                BY <3>3 DEF StageZoneStartTouch
            <4> QED
                BY <2>2, <3>1, <4>1 DEF StagesInOrder
        <3> QED
            BY <3>2, <3>3
    <2> QED
        BY <1>1, <2>1, <2>2, <2>3, <2>4 DEF RunInv, FinishCoversCourse
<1>4. CASE ~(timerRunning /\ run.course = c)
    <2>1. run' = run
        BY <1>2, <1>4 DEF CreditStage
    <2>2. timerRunning /\ run.course # NoCourse => currentStage' = currentStage
        BY <1>4 DEF StageZoneStartTouch, OnCourse, RunInv
    <2> QED
        BY <1>1, <2>1, <2>2 DEF RunInv, FinishCoversCourse, CheckpointsCounted, StagesInOrder
<1> QED
    BY <1>3, <1>4

\* An untampered run that may end has visited everything.
LEMMA RunFinished ==
    ASSUME TypeOK, RunInv, NEW c \in Course, CanEnd(c), FinishRun
    PROVE  RunInv'
<1>1. /\ timerRunning' = FALSE
      /\ run' = [run EXCEPT !.finished = (run.course # NoCourse)]
    BY DEF FinishRun
<1>2. /\ run'.course = run.course /\ run'.cps = run.cps /\ run'.stages = run.stages
      /\ run'.finished => run.course # NoCourse
    BY <1>1 DEF TypeOK, History
<1>3. ASSUME run.course # NoCourse
      PROVE  /\ run.cps = 1 .. CheckpointCount[run.course]
             /\ StageCount[run.course] > 0 => run.stages = StageZones[run.course]
    <2>1. run.course = c /\ CheckpointsCounted(c) /\ (StageCount[c] > 0 => StagesInOrder(c))
        BY <1>3 DEF CanEnd, OnCourse, RunInv
    <2>2. run.cps = 1 .. CheckpointCount[c]
        <3>1. CheckpointCount[c] \in Nat /\ run.cps \in SUBSET (1 .. CheckpointCount[c])
            BY <2>1, CourseAssumption DEF CheckpointsCounted
        <3>2. Cardinality(run.cps) = CheckpointCount[c]
            BY <2>1 DEF CanEnd, CheckpointsCounted
        <3> QED
            BY <3>1, <3>2, AllCheckpoints
    <2>3. ASSUME StageCount[c] > 0 PROVE run.stages = StageZones[c]
        <3>1. StagesInOrder(c) /\ currentStage \in Nat /\ currentStage - 1 = StageCount[c]
            BY <2>1, <2>3 DEF CanEnd, TypeOK
        <3>2. StageZones[c] = 2 .. currentStage
            BY <2>3, <3>1, StagesFit DEF StagesInOrder
        <3>3. 1 \notin StageZones[c]
            BY <3>2
        <3> QED
            BY <3>1, <3>2, <3>3 DEF StagesInOrder
    <2> QED
        BY <2>1, <2>2, <2>3
<1> QED
    BY <1>1, <1>2, <1>3 DEF RunInv, FinishCoversCourse

\* Setting the clock leaves what a run that is on has visited; a run that it
\* turns on is not followed.
LEMMA RunSetBack ==
    ASSUME TypeOK, RunInv, NEW time, SetTime(time)
    PROVE  RunInv'
<1>1. /\ timerRunning' = (time > 0)
      /\ run' = IF timerRunning = (time > 0) THEN [run EXCEPT !.plain = FALSE] ELSE NoRun
      /\ UNCHANGED <<currentCourseGUID, cpReached, reachedCheckpoints, currentStage>>
    BY DEF SetTime, cpVars
<1>2. CASE run' = NoRun
    BY <1>2 DEF RunInv, FinishCoversCourse, NoRun
<1>3. CASE run' = [run EXCEPT !.plain = FALSE] /\ timerRunning' = timerRunning
    <2>1. /\ run'.course = run.course /\ run'.cps = run.cps /\ run'.stages = run.stages
          /\ run'.finished = run.finished
        BY <1>3 DEF TypeOK, History
    <2> QED BY <1>1, <1>3, <2>1 DEF RunInv, FinishCoversCourse, CheckpointsCounted, StagesInOrder
<1> QED BY <1>1, <1>2, <1>3 DEF TypeOK

\* Each action preserves the invariant of the run.
LEMMA RunStep == TypeOK /\ RunInv /\ [Next]_vars => RunInv'
<1> SUFFICES ASSUME TypeOK, RunInv, [Next]_vars PROVE RunInv'
    OBVIOUS
<1> DEFINE Kept == UNCHANGED <<timerRunning, currentCourseGUID, cpReached,
                               reachedCheckpoints, currentStage, run>>
           Stopped == timerRunning' = FALSE /\ run' = IF timerRunning THEN NoRun ELSE run
<1>k. Kept \/ Stopped => RunInv'
    BY RunKept, RunStopped
<1> HIDE DEF Kept, Stopped
<1>1. ASSUME NEW c \in Course, StartZoneStartTouch(c) \/ StartZoneTouch(c) PROVE RunInv'
    <2>1. /\ SetCourse(c)
          /\ UNCHANGED <<timerRunning, cpReached, reachedCheckpoints, currentStage>>
        BY <1>1 DEF StartZoneStartTouch, StartZoneTouch, clockVars, cpVars
    <2>2. CASE timerRunning /\ currentCourseGUID # c
        BY <2>1, <2>2 DEF SetCourse, RunInv, FinishCoversCourse, NoRun
    <2>3. CASE timerRunning /\ currentCourseGUID = c
        BY <1>k, <2>1, <2>3 DEF SetCourse, Kept
    <2>4. CASE ~timerRunning
        BY <2>1, <2>4 DEF SetCourse, RunInv, FinishCoversCourse
    <2> QED
        BY <2>2, <2>3, <2>4
<1>2. ASSUME NEW c \in Course, NEW eligible \in BOOLEAN, StartZoneEndTouch(c, eligible)
      PROVE  RunInv'
    <2>1. CASE StartRun(c)
        BY <2>1, RunStarted
    <2>2. CASE UNCHANGED runVars
        BY <1>k, <2>2 DEF Kept, runVars, clockVars, cpVars
    <2> QED
        BY <1>2, <2>1, <2>2 DEF StartZoneEndTouch, TimerStart
<1>3. ASSUME NEW c \in Course, NEW n \in 1 .. CheckpointCount[c],
             CheckpointZoneStartTouch(c, n)
      PROVE  RunInv'
    BY <1>3, RunCheckpoint
<1>4. ASSUME NEW c \in Course, NEW n \in StageZones[c], StageZoneStartTouch(c, n)
      PROVE  RunInv'
    BY <1>4, RunStage
<1>5. ASSUME NEW c \in Course, NEW n, StageZoneEndTouch(c, n) PROVE RunInv'
    BY <1>k, <1>5 DEF StageZoneEndTouch, Kept, clockVars, cpVars
<1>6. ASSUME NEW c \in Course, TimerEnd(c) PROVE RunInv'
    <2>1. CASE CanEnd(c) /\ FinishRun
        BY <2>1, RunFinished
    <2>2. CASE UNCHANGED <<clockVars, currentStage, run>>
        BY <1>k, <1>6, <2>2 DEF TimerEnd, Kept, clockVars, cpVars
    <2> QED
        BY <1>6, <2>1, <2>2 DEF TimerEnd
<1>7. CASE StopRun \/ RestartStage \/ SwitchSides \/ OnPlayerDeath \/ OnClientDisconnect
    BY <1>k, <1>7 DEF Stopped, StopRun, RestartStage, SwitchSides, OnPlayerDeath,
       OnClientDisconnect, TimerStop, TimerStopThenStage
<1>8. ASSUME NEW stage, TeleportToStage(stage) PROVE RunInv'
    BY <1>k, <1>8 DEF Stopped, TeleportToStage, TimerStopThenStage
<1>9. ASSUME NEW found \in BOOLEAN, RestartBonus(found) PROVE RunInv'
    BY <1>9 DEF RestartBonus, RunInv, FinishCoversCourse, NoRun
<1>10. ASSUME NEW clearStage \in BOOLEAN, TeleportToCourse(clearStage) PROVE RunInv'
    BY <1>k, <1>10 DEF Stopped, TeleportToCourse, TimerStopThenStage
<1>11. ASSUME NEW still \in BOOLEAN, JoinSpectators(still) PROVE RunInv'
    <2>1. Kept \/ Stopped
        BY <1>11 DEF Kept, Stopped, JoinSpectators, TimerStop, TimerStopThenStage,
           AfterTimerStop, cpVars
    <2> QED
        BY <1>k, <2>1
<1>12. CASE JoinGame
    <2>1. Kept \/ Stopped
        BY <1>12 DEF Kept, Stopped, JoinGame, TimerStop, TimerStopThenStage,
           AfterTimerStop, cpVars
    <2> QED
        BY <1>k, <2>1
<1>13. CASE HandleNoclip
    BY <1>k, <1>13 DEF Kept, Stopped, HandleNoclip, TimerStop, TimerStopThenStage,
       AfterTimerStop, cpVars
<1>14. CASE OnPhysicsSimulatePost
    BY <1>k, <1>14 DEF Kept, OnPhysicsSimulatePost, cpVars
<1>15. CASE Resume \/ ToggleNoclip \/ OnStartTouchGround \/ EscapePause \/ OnPlayerSpawn
    BY <1>k, <1>15 DEF Kept, Resume, ToggleNoclip, OnStartTouchGround, EscapePause,
       OnPlayerSpawn, runVars, clockVars, cpVars
<1>16. ASSUME NEW still \in BOOLEAN, Pause(still) PROVE RunInv'
    BY <1>k, <1>16 DEF Kept, Pause, runVars, clockVars, cpVars
<1>17. ASSUME NEW z, EndTouchOnly(z) PROVE RunInv'
    BY <1>k, <1>17 DEF Kept, EndTouchOnly, runVars, clockVars, cpVars
<1>18. CASE UNCHANGED vars
    BY <1>k, <1>18 DEF Kept, vars, runVars, clockVars, cpVars
<1>19. ASSUME NEW onLadder \in BOOLEAN, DoTeleport(onLadder) PROVE RunInv'
    <2>1. CASE UNCHANGED runVars
        BY <1>k, <2>1 DEF Kept, runVars, clockVars, cpVars
    <2>2. ASSUME NEW time \in 0 .. longest, SetTime(time) PROVE RunInv'
        BY <2>2, RunSetBack
    <2> QED BY <1>19, <2>1, <2>2 DEF DoTeleport
<1> QED
    BY <1>1, <1>2, <1>3, <1>4, <1>5, <1>6, <1>7, <1>8, <1>9, <1>10, <1>11, <1>12,
       <1>13, <1>14, <1>15, <1>16, <1>17, <1>18, <1>19 DEF Next, TouchZones, Commands, Engine

\* The counters of a run stand for what it visited in every reachable state.
LEMMA RunInvariant == Spec => []RunInv
<1>1. Init => RunInv
    BY DEF Init, RunInv, FinishCoversCourse, NoRun
<1> QED
    BY <1>1, RunStep, TypeCorrect, PTL DEF Spec

\* A finished untampered run visited every checkpoint and every stage zone.
THEOREM FinishedRunsAreComplete == Spec => []FinishCoversCourse
BY RunInvariant, PTL DEF RunInv

\* The stage counter stays within the course.
THEOREM StagesInRange == Spec => []StageInRange
<1>1. TypeOK /\ RunInv => StageInRange
    <2> SUFFICES ASSUME TypeOK, RunInv, timerRunning, run.course # NoCourse,
                        StageCount[run.course] > 0
                 PROVE  currentStage \in 1 .. StageCount[run.course] + 1
        BY DEF StageInRange
    <2>1. run.course \in Course /\ currentStage \in Nat
        BY DEF TypeOK, History
    <2>2. currentStage >= 1 /\ 2 .. currentStage \subseteq StageZones[run.course]
        BY DEF RunInv, StagesInOrder
    <2>3. currentStage - 1 <= StageCount[run.course] /\ StageCount[run.course] \in Nat
        BY <2>1, <2>2, StagesFit, CourseAssumption
    <2> QED
        BY <2>1, <2>2, <2>3
<1> QED
    BY <1>1, RunInvariant, TypeCorrect, PTL

(***************************************************************************)
(* The splits.  A split is what has passed since the player left a zone of *)
(* the stage before; it lies after the moment that stage was reached, since*)
(* a player who stands in no stage zone of his course has left one since,  *)
(* or has just started.                                                    *)
(***************************************************************************)
OnStage(c) == \E z \in touching : z.kind = "stage" /\ z.course = c

\* The moments the stages were reached at, between which the splits lie; the
\* stage under way began after the last of them.
Parts(reached) ==
    /\ reached \in [0 .. currentStage - 1 -> 0 .. currentTime]
    /\ \A s \in 1 .. currentStage - 1 :
          0 <= stageZoneTimes[s] /\ stageZoneTimes[s] <= reached[s] - reached[s - 1]
    /\ currentStage <= StageCount[run.course] /\ ~OnStage(run.course) =>
          /\ reached[currentStage - 1] <= stageEndTouchTimes[currentStage]
          /\ stageEndTouchTimes[currentStage] <= currentTime

Split == timerRunning /\ run.course # NoCourse /\ run.plain /\ StageCount[run.course] > 0

SplitInv == Split => \E reached : Parts(reached)

\* A step that leaves the clock, the stage, the splits and the zones as they
\* are keeps the invariant, and so does one after which no run is split.
LEMMA SplitsKept ==
    ASSUME SplitInv,
           \/ UNCHANGED <<timerRunning, currentTime, currentStage, splitVars, touching, run>>
           \/ ~timerRunning' \/ run' = NoRun
    PROVE  SplitInv'
<1>1. CASE ~timerRunning' \/ run' = NoRun
    BY <1>1 DEF SplitInv, Split, NoRun
<1>2. CASE UNCHANGED <<timerRunning, currentTime, currentStage, splitVars, touching, run>>
    <2>1. Split' => Split
        BY <1>2 DEF Split
    <2>2. \A reached : Parts(reached) => Parts(reached)'
        BY <1>2 DEF Parts, OnStage, splitVars
    <2> QED BY <2>1, <2>2 DEF SplitInv
<1> QED BY <1>1, <1>2

\* A step that touches no stage zone and lets time pass at most.
LEMMA SplitsWait ==
    ASSUME TypeOK, RunInv, SplitInv, currentTime' \in Nat, currentTime <= currentTime',
           UNCHANGED <<timerRunning, currentStage, splitVars, run>>,
           \A z \in touching : z.kind = "stage" => z \in touching'
    PROVE  SplitInv'
<1> SUFFICES ASSUME Split' PROVE \E reached : Parts(reached)'
    BY DEF SplitInv
<1>1. PICK reached : Parts(reached)
    BY DEF SplitInv, Split
<1>2. reached \in [0 .. currentStage' - 1 -> 0 .. currentTime']
    BY <1>1 DEF Parts, TypeOK
<1>3. OnStage(run.course) => OnStage(run.course)'
    BY DEF OnStage
<1>4. ASSUME currentStage <= StageCount[run.course], ~OnStage(run.course)'
      PROVE  /\ reached[currentStage - 1] <= stageEndTouchTimes[currentStage]
             /\ stageEndTouchTimes[currentStage] <= currentTime'
    <2>1. /\ reached[currentStage - 1] <= stageEndTouchTimes[currentStage]
          /\ stageEndTouchTimes[currentStage] <= currentTime
        BY <1>1, <1>3, <1>4 DEF Parts
    <2>2. run.course \in Course /\ StageCount[run.course] \in Nat
        BY CourseAssumption DEF Split, TypeOK, History
    <2>3. currentStage >= 1
        BY DEF Split, RunInv, StagesInOrder
    <2>4. currentStage \in 1 .. MaxZones
        BY <1>4, <2>2, <2>3, BoundAssumption DEF TypeOK
    <2>5. stageEndTouchTimes[currentStage] \in Int /\ currentTime \in Nat
        BY <2>4 DEF TypeOK, Times
    <2> QED BY <2>1, <2>5
<1> QED BY <1>1, <1>2, <1>4 DEF Parts, splitVars

\* A run starts in its first stage, which begins with it.
LEMMA SplitsStart ==
    ASSUME TypeOK, NEW c \in Course, StartRun(c)
    PROVE  SplitInv'
<1> SUFFICES ASSUME StageCount[c] > 0 PROVE \E reached : Parts(reached)'
    BY DEF SplitInv, Split, StartRun
<1> DEFINE reached == [i \in 0 .. 0 |-> 0]
<1>1. 1 \in 1 .. MaxZones
    BY CourseAssumption, BoundAssumption
<1>2. stageEndTouchTimes' = Write(Cleared(stageEndTouchTimes, StageCount[c]), 1, 0)
    BY DEF StartRun
<1>3. currentStage' = 1 /\ currentTime' = 0 /\ stageEndTouchTimes'[1] = 0
    BY <1>1, <1>2 DEF StartRun, Write
<1>4. Parts(reached)'
    BY <1>3 DEF Parts
<1> QED BY <1>4

\* Whoever touches a stage zone of a course is on a stage of it.
LEMMA TouchedStage ==
    ASSUME NEW c \in Course, NEW n \in Nat, StageZone(c, n) \in touching'
    PROVE  OnStage(c)'
<1>1. StageZone(c, n).kind = "stage" /\ StageZone(c, n).course = c
    BY DEF StageZone
<1> QED BY <1>1 DEF OnStage

\* The next stage is reached now: its split lies between the last moment and now.
LEMMA SplitsStage ==
    ASSUME TypeOK, RunInv, SplitInv, NEW c \in Course, NEW n \in StageZones[c],
           StageZoneStartTouch(c, n)
    PROVE  SplitInv'
<1>1. /\ UNCHANGED <<timerRunning, currentTime, currentCourseGUID, stageEndTouchTimes>>
      /\ touching' = touching \cup {StageZone(c, n)} /\ run' = CreditStage(c, n)
    BY DEF StageZoneStartTouch, StartTouch, clockVars
<1>2. currentStage \in Nat /\ n \in Nat /\ currentTime \in Nat
    BY CourseAssumption DEF TypeOK
<1>3. CASE ~(OnCourse(c) /\ n = currentStage + 1)
    <2>1. UNCHANGED <<currentStage, stageZoneTimes>>
        BY <1>3 DEF StageZoneStartTouch
    <2>2. CASE timerRunning /\ run.course = c
        <3>1. run'.course = c /\ (run'.plain => run.plain)
            BY <1>1, <2>2 DEF CreditStage, TypeOK, History
        <3>2. OnStage(c)'
            BY <1>1, <1>2, TouchedStage
        <3> QED BY <1>1, <2>1, <2>2, <3>1, <3>2 DEF SplitInv, Split, Parts
    <2>3. CASE ~(timerRunning /\ run.course = c)
        <3>1. run' = run
            BY <1>1, <2>3 DEF CreditStage
        <3> QED BY <1>1, <1>2, <2>1, <3>1, SplitsWait DEF splitVars
    <2> QED BY <2>2, <2>3
<1>4. CASE OnCourse(c) /\ n = currentStage + 1
    <2> SUFFICES ASSUME Split' PROVE \E reached : Parts(reached)'
        BY DEF SplitInv
    <2>1. run.course = c
        BY <1>1, <1>4 DEF Split, OnCourse, RunInv, CreditStage, TypeOK, History
    <2>2. /\ run'.course = c /\ run.plain /\ ~OnStage(c)
          /\ StageCount[c] > 0 /\ c # NoCourse /\ timerRunning
        BY <1>1, <1>4, <2>1 DEF Split, CreditStage, OnStage, TypeOK, History, OnCourse
    <2>3. currentStage >= 1 /\ 2 .. currentStage + 1 \subseteq StageZones[c]
        <3>1. currentStage >= 1 /\ 2 .. currentStage \subseteq StageZones[c]
            BY <2>1, <2>2 DEF RunInv, StagesInOrder
        <3> QED BY <1>2, <1>4, <3>1
    <2>4. currentStage <= StageCount[c] /\ StageCount[c] \in Nat
        <3>1. currentStage + 1 \in Nat /\ currentStage + 1 >= 1 /\ StageCount[c] \in Nat
            BY <1>2, CourseAssumption
        <3>2. (currentStage + 1) - 1 <= StageCount[c]
            BY <2>2, <2>3, <3>1, StagesFit
        <3> QED BY <1>2, <3>1, <3>2
    <2>5. currentStage \in 1 .. MaxZones
        BY <1>2, <2>3, <2>4, BoundAssumption
    <2>6. PICK reached : Parts(reached)
        BY <2>1, <2>2 DEF SplitInv, Split
    <2>7. /\ reached \in [0 .. currentStage - 1 -> 0 .. currentTime]
          /\ reached[currentStage - 1] <= stageEndTouchTimes[currentStage]
          /\ stageEndTouchTimes[currentStage] <= currentTime
        BY <2>1, <2>2, <2>4, <2>6 DEF Parts
    <2> DEFINE next == [i \in 0 .. currentStage |-> IF i = currentStage THEN currentTime ELSE reached[i]]
    <2>8. /\ currentStage' = currentStage + 1
          /\ stageZoneTimes' = Write(stageZoneTimes, currentStage,
                                     currentTime - stageEndTouchTimes[currentStage])
        BY <1>4, <2>5 DEF StageZoneStartTouch
    <2>9. /\ stageZoneTimes'[currentStage] = currentTime - stageEndTouchTimes[currentStage]
          /\ \A s \in 1 .. currentStage - 1 : stageZoneTimes'[s] = stageZoneTimes[s]
        <3>1. \A s \in 1 .. currentStage - 1 : s \in 1 .. MaxZones /\ s # currentStage
            BY <1>2, <2>5, BoundAssumption
        <3> QED BY <2>5, <2>8, <3>1 DEF Write
    <2>10. next \in [0 .. currentStage -> 0 .. currentTime]
        BY <1>2, <2>7
    <2>11. stageEndTouchTimes[currentStage] \in Int
        BY <2>5 DEF TypeOK, Times
    <2>12. ASSUME NEW s \in 1 .. currentStage
           PROVE  0 <= stageZoneTimes'[s] /\ stageZoneTimes'[s] <= next[s] - next[s - 1]
        <3>1. CASE s = currentStage
            <4>1. next[s] = currentTime /\ next[s - 1] = reached[currentStage - 1]
                BY <1>2, <2>3, <3>1
            <4>2. reached[currentStage - 1] \in 0 .. currentTime
                BY <1>2, <2>3, <2>7
            <4> QED BY <1>2, <2>7, <2>9, <2>11, <3>1, <4>1, <4>2
        <3>2. CASE s \in 1 .. currentStage - 1
            <4>1. next[s] = reached[s] /\ next[s - 1] = reached[s - 1]
                BY <1>2, <3>2
            <4> QED BY <2>6, <2>9, <3>2, <4>1 DEF Parts
        <3> QED BY <1>2, <3>1, <3>2
    <2>13. OnStage(c)'
        BY <1>1, <1>2, TouchedStage
    <2> HIDE DEF next
    <2>14. currentStage' - 1 = currentStage /\ currentTime' = currentTime
        BY <1>1, <1>2, <2>8
    <2>15. \A r : r = next => Parts(r)'
        BY <2>2, <2>10, <2>12, <2>13, <2>14 DEF Parts
    <2> QED BY <2>15
<1> QED BY <1>3, <1>4

\* The stage under way begins anew when the player leaves a stage zone.
LEMMA SplitsLeave ==
    ASSUME TypeOK, RunInv, SplitInv, NEW c \in Course, NEW n \in StageZones[c],
           StageZoneEndTouch(c, n)
    PROVE  SplitInv'
<1>1. /\ UNCHANGED <<timerRunning, currentTime, currentStage, stageZoneTimes, run>>
      /\ touching' = touching \ {StageZone(c, n)}
    BY DEF StageZoneEndTouch, EndTouch, clockVars
<1>2. currentTime \in Nat /\ currentStage \in Nat
    BY DEF TypeOK
<1> SUFFICES ASSUME Split PROVE \E reached : Parts(reached)'
    BY <1>1 DEF SplitInv, Split
<1>3. PICK reached : Parts(reached)
    BY DEF SplitInv
<1>4. /\ currentCourseGUID = run.course /\ run.course \in Course
      /\ currentStage >= 1 /\ StageCount[run.course] \in Nat
    BY CourseAssumption DEF Split, RunInv, StagesInOrder, TypeOK, History
<1>5. CASE c = run.course
    <2>1. stageEndTouchTimes' = Write(stageEndTouchTimes, currentStage, currentTime)
        BY <1>4, <1>5 DEF StageZoneEndTouch, OnCourse, Split
    <2>2. currentStage <= StageCount[c] =>
             stageEndTouchTimes'[currentStage] = currentTime
        BY <1>2, <1>4, <1>5, <2>1, BoundAssumption DEF Write
    <2>3. reached[currentStage - 1] \in 0 .. currentTime
        BY <1>2, <1>3, <1>4 DEF Parts
    <2>4. Parts(reached)'
        BY <1>1, <1>2, <1>3, <1>5, <2>2, <2>3 DEF Parts
    <2> QED BY <2>4
<1>6. CASE c # run.course
    <2>1. stageEndTouchTimes' = stageEndTouchTimes
        BY <1>4, <1>6 DEF StageZoneEndTouch, OnCourse
    <2>2. OnStage(run.course) => OnStage(run.course)'
        BY <1>1, <1>6 DEF OnStage, StageZone
    <2>3. Parts(reached)'
        BY <1>1, <1>3, <2>1, <2>2 DEF Parts
    <2> QED BY <2>3
<1> QED BY <1>5, <1>6

\* Each action preserves the invariant of the splits.
LEMMA SplitStep == TypeOK /\ RunInv /\ SplitInv /\ [Next]_vars => SplitInv'
<1> SUFFICES ASSUME TypeOK, RunInv, SplitInv, [Next]_vars PROVE SplitInv'
    OBVIOUS
<1> DEFINE Kept == UNCHANGED <<timerRunning, currentTime, currentStage, splitVars, touching, run>>
           Stopped == ~timerRunning'
<1>k. Kept \/ Stopped => SplitInv'
    BY SplitsKept
<1> HIDE DEF Kept, Stopped
<1>1. ASSUME NEW c \in Course, StartZoneStartTouch(c) \/ StartZoneTouch(c) PROVE SplitInv'
    <2>1. /\ run' = run \/ run' = NoRun
          /\ UNCHANGED <<timerRunning, currentTime, currentStage, splitVars>>
          /\ touching \subseteq touching'
        BY <1>1 DEF StartZoneStartTouch, StartZoneTouch, SetCourse, StartTouch, clockVars, zoneVars
    <2>2. currentTime \in Nat
        BY DEF TypeOK
    <2> QED BY <2>1, <2>2, SplitsKept, SplitsWait
<1>2. ASSUME NEW c \in Course, NEW eligible \in BOOLEAN, StartZoneEndTouch(c, eligible)
      PROVE  SplitInv'
    <2>1. CASE StartRun(c)
        BY <2>1, SplitsStart
    <2>2. CASE UNCHANGED runVars
        <3>1. touching' = touching \ {StartZone(c)} /\ StartZone(c).kind # "stage"
            BY <1>2 DEF StartZoneEndTouch, EndTouch, StartZone
        <3>2. /\ UNCHANGED <<timerRunning, currentTime, currentStage, splitVars, run>>
              /\ currentTime \in Nat
            BY <2>2 DEF runVars, clockVars, TypeOK
        <3> QED BY <3>1, <3>2, SplitsWait
    <2> QED BY <1>2, <2>1, <2>2 DEF StartZoneEndTouch, TimerStart
<1>3. ASSUME NEW c \in Course, NEW n \in 1 .. CheckpointCount[c],
             CheckpointZoneStartTouch(c, n)
      PROVE  SplitInv'
    <2>1. /\ UNCHANGED <<timerRunning, currentTime, currentStage, splitVars>>
          /\ touching' = touching \cup {CheckpointZone(c, n)}
          /\ run'.course = run.course /\ run'.plain = run.plain
        BY <1>3 DEF CheckpointZoneStartTouch, StartTouch, clockVars, TypeOK, History
    <2>2. OnStage(run.course)' <=> OnStage(run.course)
        BY <2>1 DEF OnStage, CheckpointZone
    <2> QED BY <2>1, <2>2 DEF SplitInv, Split, Parts, splitVars
<1>4. ASSUME NEW c \in Course, NEW n \in StageZones[c], StageZoneStartTouch(c, n)
      PROVE  SplitInv'
    BY <1>4, SplitsStage
<1>5. ASSUME NEW c \in Course, NEW n \in StageZones[c], StageZoneEndTouch(c, n)
      PROVE  SplitInv'
    BY <1>5, SplitsLeave
<1>6. ASSUME NEW c \in Course, TimerEnd(c) PROVE SplitInv'
    <2>1. CASE FinishRun
        BY <1>k, <2>1 DEF FinishRun, Stopped
    <2>2. CASE UNCHANGED <<clockVars, currentStage, run>>
        <3>1. /\ UNCHANGED <<timerRunning, currentTime, currentStage, splitVars, run>>
              /\ touching \subseteq touching' /\ currentTime \in Nat
            BY <1>6, <2>2 DEF TimerEnd, StartTouch, clockVars, TypeOK
        <3> QED BY <3>1, SplitsWait
    <2> QED BY <1>6, <2>1, <2>2 DEF TimerEnd
<1>7. CASE StopRun \/ RestartStage \/ SwitchSides \/ OnPlayerDeath \/ OnClientDisconnect
    BY <1>k, <1>7 DEF Stopped, StopRun, RestartStage, SwitchSides, OnPlayerDeath,
       OnClientDisconnect, TimerStop, TimerStopThenStage
<1>8. ASSUME NEW stage, TeleportToStage(stage) PROVE SplitInv'
    BY <1>k, <1>8 DEF Stopped, TeleportToStage, TimerStopThenStage
<1>9. ASSUME NEW found \in BOOLEAN, RestartBonus(found) PROVE SplitInv'
    <2>1. ~timerRunning' \/ run' = NoRun
        BY <1>9 DEF RestartBonus
    <2> QED BY <2>1, SplitsKept
<1>10. ASSUME NEW clearStage \in BOOLEAN, TeleportToCourse(clearStage) PROVE SplitInv'
    BY <1>k, <1>10 DEF Stopped, TeleportToCourse, TimerStopThenStage
<1>11. ASSUME NEW still \in BOOLEAN, JoinSpectators(still) PROVE SplitInv'
    <2>1. Kept \/ Stopped
        BY <1>11 DEF Kept, Stopped, JoinSpectators, TimerStop, TimerStopThenStage,
           AfterTimerStop, zoneVars
    <2> QED BY <1>k, <2>1
<1>12. CASE JoinGame
    <2>1. Kept \/ Stopped
        BY <1>12 DEF Kept, Stopped, JoinGame, TimerStop, TimerStopThenStage,
           AfterTimerStop, zoneVars
    <2> QED BY <1>k, <2>1
<1>13. CASE HandleNoclip
    BY <1>k, <1>13 DEF Kept, Stopped, HandleNoclip, TimerStop, TimerStopThenStage,
       AfterTimerStop, zoneVars
<1>14. CASE OnPhysicsSimulatePost
    <2>1. /\ currentTime \in Nat /\ currentTime' = currentTime + 1
          /\ UNCHANGED <<timerRunning, currentStage, splitVars, run, touching>>
        BY <1>14 DEF OnPhysicsSimulatePost, zoneVars, TypeOK
    <2> QED BY <2>1, SplitsWait
<1>15. CASE Resume \/ ToggleNoclip \/ OnStartTouchGround \/ EscapePause \/ OnPlayerSpawn
    BY <1>k, <1>15 DEF Kept, Resume, ToggleNoclip, OnStartTouchGround, EscapePause,
       OnPlayerSpawn, runVars, clockVars, zoneVars
<1>16. ASSUME NEW still \in BOOLEAN, Pause(still) PROVE SplitInv'
    BY <1>k, <1>16 DEF Kept, Pause, runVars, clockVars, zoneVars
<1>17. ASSUME NEW z, EndTouchOnly(z) PROVE SplitInv'
    <2>1. /\ UNCHANGED <<timerRunning, currentTime, currentStage, splitVars, run>>
          /\ touching' = touching \ {z} /\ z.kind # "stage" /\ currentTime \in Nat
        BY <1>17 DEF EndTouchOnly, EndTouch, runVars, clockVars, TypeOK
    <2> QED BY <2>1, SplitsWait
<1>18. CASE UNCHANGED vars
    BY <1>k, <1>18 DEF Kept, vars, runVars, clockVars, zoneVars
<1>19. ASSUME NEW onLadder \in BOOLEAN, DoTeleport(onLadder) PROVE SplitInv'
    <2>1. CASE UNCHANGED runVars
        BY <1>k, <1>19, <2>1 DEF Kept, DoTeleport, runVars, clockVars, zoneVars
    <2>2. ASSUME NEW time \in 0 .. longest, SetTime(time) PROVE SplitInv'
        <3>1. run' = NoRun \/ ~run'.plain
            BY <2>2 DEF SetTime, TypeOK, History
        <3> QED BY <3>1 DEF SplitInv, Split, NoRun
    <2> QED BY <1>19, <2>1, <2>2 DEF DoTeleport
<1> QED
    BY <1>1, <1>2, <1>3, <1>4, <1>5, <1>6, <1>7, <1>8, <1>9, <1>10, <1>11, <1>12,
       <1>13, <1>14, <1>15, <1>16, <1>17, <1>18, <1>19 DEF Next, TouchZones, Commands, Engine

\* The stage splits of a run whose player never stood in two stage zones at
\* once and never set the clock are parts of it that follow each other, on any
\* map and for a run of any length.
THEOREM SplitsFit == Spec => []SplitsFitTheRun
<1>1. Init => SplitInv
    BY DEF Init, SplitInv, Split
<1>2. SplitInv => SplitsFitTheRun
    BY DEF SplitInv, Split, Parts, SplitsFitTheRun
<1> QED BY <1>1, <1>2, SplitStep, RunInvariant, TypeCorrect, PTL DEF Spec

(***************************************************************************)
(* A run that visited everything.  TimerEnd asks for one stage more than   *)
(* there are stage triggers, so a course can be finished when its stages   *)
(* are numbered from 2 on, one trigger for each number: the start zone is  *)
(* its first stage.  Of such a course no stage is credited that the run    *)
(* has not come to.                                                        *)
(***************************************************************************)
NumberedFromTwo == \A c \in Course : StageCount[c] > 0 => StageZones[c] = 2 .. StageCount[c] + 1

NoneAhead ==
    timerRunning /\ run.course # NoCourse /\ StageCount[run.course] > 0
        => run.stages \subseteq 2 .. currentStage

\* Only a start, a checkpoint, a stage and a saved time change the run that is on.
LEMMA RunSteps ==
    ASSUME TypeOK, [Next]_vars
    PROVE  \/ UNCHANGED <<timerRunning, currentStage, run>>
           \/ ~timerRunning' \/ run' = NoRun
           \/ UNCHANGED <<timerRunning, currentStage>> /\ run' = [run EXCEPT !.plain = FALSE]
           \/ \E c \in Course : StartRun(c)
           \/ \E c \in Course : \E n \in 1 .. CheckpointCount[c] : CheckpointZoneStartTouch(c, n)
           \/ \E c \in Course : \E n \in StageZones[c] : StageZoneStartTouch(c, n)
<1> USE DEF runVars, clockVars
<1>1. ASSUME NEW c \in Course, NEW eligible \in BOOLEAN, StartZoneEndTouch(c, eligible)
      PROVE  StartRun(c) \/ UNCHANGED <<timerRunning, currentStage, run>>
    BY <1>1 DEF StartZoneEndTouch, TimerStart
<1>2. ASSUME NEW c \in Course, \/ StartZoneStartTouch(c) \/ StartZoneTouch(c) \/ TimerEnd(c)
                               \/ \E n \in StageZones[c] : StageZoneEndTouch(c, n)
      PROVE  UNCHANGED <<timerRunning, currentStage, run>> \/ ~timerRunning' \/ run' = NoRun
    BY <1>2 DEF StartZoneStartTouch, StartZoneTouch, SetCourse, StageZoneEndTouch, TimerEnd, FinishRun
<1>3. ASSUME Commands \/ Engine, ~\E onLadder \in BOOLEAN : DoTeleport(onLadder)
      PROVE  UNCHANGED <<timerRunning, currentStage, run>> \/ ~timerRunning' \/ run' = NoRun
    BY <1>3 DEF Commands, StopRun, RestartStage, TeleportToStage, RestartBonus, TeleportToCourse,
       Pause, JoinSpectators, Resume, ToggleNoclip, JoinGame, SwitchSides, Engine,
       OnPhysicsSimulatePost, OnStartTouchGround, EscapePause, HandleNoclip, OnPlayerDeath,
       OnPlayerSpawn, OnClientDisconnect, EndTouchOnly, TimerStop, TimerStopThenStage
<1>4. CASE UNCHANGED vars
    BY <1>4 DEF vars
<1>5. ASSUME NEW onLadder \in BOOLEAN, DoTeleport(onLadder)
      PROVE  \/ UNCHANGED <<timerRunning, currentStage, run>> \/ run' = NoRun
             \/ UNCHANGED <<timerRunning, currentStage>> /\ run' = [run EXCEPT !.plain = FALSE]
    <2>1. ASSUME NEW time, SetTime(time)
          PROVE  \/ run' = NoRun
                 \/ UNCHANGED <<timerRunning, currentStage>> /\ run' = [run EXCEPT !.plain = FALSE]
        BY <2>1 DEF SetTime, TypeOK
    <2> QED BY <1>5, <2>1 DEF DoTeleport
<1> QED BY <1>1, <1>2, <1>3, <1>4, <1>5 DEF Next, TouchZones, Commands

\* Each action keeps the stages credited behind the stage the run has come to.
LEMMA AheadStep ==
    ASSUME NumberedFromTwo, TypeOK, RunInv, NoneAhead, [Next]_vars
    PROVE  NoneAhead'
<1>1. CASE UNCHANGED <<timerRunning, currentStage, run>>
    BY <1>1 DEF NoneAhead
<1>2. CASE ~timerRunning' \/ run' = NoRun
    BY <1>2 DEF NoneAhead, NoRun
<1>3. ASSUME NEW c \in Course, StartRun(c) PROVE NoneAhead'
    BY <1>3 DEF StartRun, NoneAhead
<1>4. ASSUME NEW c \in Course, NEW n \in 1 .. CheckpointCount[c], CheckpointZoneStartTouch(c, n)
      PROVE  NoneAhead'
    <2>1. /\ UNCHANGED <<timerRunning, currentStage>>
          /\ run'.course = run.course /\ run'.stages = run.stages
        BY <1>4 DEF CheckpointZoneStartTouch, clockVars, TypeOK, History
    <2> QED BY <2>1 DEF NoneAhead
<1>5. ASSUME NEW c \in Course, NEW n \in StageZones[c], StageZoneStartTouch(c, n)
      PROVE  NoneAhead'
    <2>1. timerRunning' = timerRunning /\ run' = CreditStage(c, n)
        BY <1>5 DEF StageZoneStartTouch, clockVars
    <2>2. CASE timerRunning /\ run.course = c /\ StageCount[c] > 0
        <3>1. /\ c # NoCourse /\ currentCourseGUID = c /\ currentStage >= 1 /\ currentStage \in Nat
              /\ run.stages \subseteq 2 .. currentStage
            BY <2>2, CourseAssumption DEF RunInv, StagesInOrder, NoneAhead, TypeOK
        <3>2. n \in Nat /\ StageCount[c] \in Nat /\ StageZones[c] = 2 .. StageCount[c] + 1
            BY <2>2, CourseAssumption DEF NumberedFromTwo
        <3>3. /\ run'.course = c
              /\ run'.stages = IF \A m \in StageZones[c] : m < n => m \in run.stages
                               THEN run.stages \cup {n} ELSE run.stages
            BY <2>1, <2>2 DEF CreditStage, TypeOK, History
        <3>4. CASE n > currentStage + 1
            <4>1. currentStage + 1 \in StageZones[c] /\ currentStage + 1 \notin run.stages
                BY <3>1, <3>2, <3>4
            <4>2. run'.stages = run.stages
                BY <3>1, <3>2, <3>3, <3>4, <4>1
            <4>3. currentStage' = currentStage
                BY <1>5, <3>1, <3>2, <3>4 DEF StageZoneStartTouch
            <4> QED BY <2>1, <3>1, <3>3, <4>2, <4>3 DEF NoneAhead
        <3>5. CASE n <= currentStage + 1
            <4>1. currentStage' = IF n = currentStage + 1 THEN currentStage + 1 ELSE currentStage
                BY <1>5, <2>2, <3>1 DEF StageZoneStartTouch, OnCourse
            <4>2. run'.stages \subseteq run.stages \cup {n} /\ n \in 2 .. currentStage'
                BY <3>1, <3>2, <3>3, <3>5, <4>1
            <4>3. 2 .. currentStage \subseteq 2 .. currentStage'
                BY <3>1, <4>1
            <4> QED BY <3>1, <3>3, <4>2, <4>3 DEF NoneAhead
        <3> QED BY <3>1, <3>2, <3>4, <3>5
    <2>3. CASE timerRunning /\ run.course = c /\ ~(StageCount[c] > 0)
        <3>1. run'.course = c
            BY <2>1, <2>3 DEF CreditStage, TypeOK, History
        <3> QED BY <2>3, <3>1 DEF NoneAhead
    <2>4. CASE ~(timerRunning /\ run.course = c)
        <3>1. run' = run
            BY <2>1, <2>4 DEF CreditStage
        <3>2. timerRunning /\ run.course # NoCourse => currentStage' = currentStage
            BY <1>5, <2>4 DEF StageZoneStartTouch, OnCourse, RunInv
        <3> QED BY <2>1, <3>1, <3>2 DEF NoneAhead
    <2> QED BY <2>2, <2>3, <2>4
<1>6. CASE UNCHANGED <<timerRunning, currentStage>> /\ run' = [run EXCEPT !.plain = FALSE]
    <2>1. run'.course = run.course /\ run'.stages = run.stages
        BY <1>6 DEF TypeOK, History
    <2> QED BY <1>6, <2>1 DEF NoneAhead
<1> QED BY <1>1, <1>2, <1>3, <1>4, <1>5, <1>6, RunSteps

\* On a map whose stages are numbered as TimerEnd counts them, a run that
\* visited every checkpoint and every stage in order is ended by the end zone.
THEOREM CompletedRunsEnd ==
    ASSUME NumberedFromTwo
    PROVE  Spec => CompletedRunEnds
<1>1. Init => NoneAhead
    BY DEF Init, NoneAhead
<1>2. TypeOK /\ RunInv /\ NoneAhead /\ [Next]_vars => NoneAhead'
    BY AheadStep
<1>3. ASSUME TypeOK, RunInv, NoneAhead, NEW c \in Course, TimerEnd(c), timerRunning,
             run.course = c, run.cps = 1 .. CheckpointCount[c], run.stages = StageZones[c]
      PROVE  ~timerRunning'
    <2>1. /\ currentCourseGUID = c /\ CheckpointsCounted(c)
          /\ StageCount[c] > 0 => StagesInOrder(c) /\ StageZones[c] \subseteq 2 .. currentStage
        BY <1>3, CourseAssumption DEF RunInv, NoneAhead
    <2>2. reachedCheckpoints = CheckpointCount[c]
        <3>1. CheckpointCount[c] \in Nat
            BY CourseAssumption
        <3>2. Cardinality(1 .. CheckpointCount[c]) = CheckpointCount[c]
            BY <3>1, FS_Interval
        <3> QED BY <1>3, <2>1, <3>2 DEF CheckpointsCounted
    <2>3. StageCount[c] > 0 => currentStage - 1 = StageCount[c]
        <3> SUFFICES ASSUME StageCount[c] > 0 PROVE currentStage - 1 = StageCount[c]
            OBVIOUS
        <3>1. /\ StageCount[c] \in Nat /\ StageZones[c] = 2 .. StageCount[c] + 1
              /\ currentStage \in Nat /\ currentStage >= 1
              /\ 2 .. currentStage \subseteq StageZones[c]
              /\ StageZones[c] \subseteq 2 .. currentStage
            BY <2>1, <1>3, CourseAssumption DEF NumberedFromTwo, StagesInOrder, TypeOK
        <3>2. StageCount[c] + 1 \in 2 .. currentStage
            BY <3>1
        <3>3. currentStage \in 2 .. StageCount[c] + 1
            BY <3>1, <3>2
        <3> QED BY <3>1, <3>2, <3>3
    <2>4. CanEnd(c)
        BY <1>3, <2>1, <2>2, <2>3 DEF CanEnd, OnCourse
    <2> QED BY <1>3, <2>4 DEF TimerEnd, FinishRun
<1>4. TypeOK /\ RunInv /\ NoneAhead =>
          [\A c \in Course :
              TimerEnd(c) /\ timerRunning /\ run.course = c
              /\ run.cps = 1 .. CheckpointCount[c] /\ run.stages = StageZones[c]
              => ~timerRunning']_vars
    BY <1>3
<1> QED BY <1>1, <1>2, <1>4, RunInvariant, TypeCorrect, PTL DEF Spec, CompletedRunEnds
=============================================================================
