------------------------------ MODULE SurfTimer ------------------------------
(***************************************************************************)
(* The run timer of one player: SurfTimerService (surf/timer/surf_timer),  *)
(* driven by the mapping-API zones the player touches (surf/trigger), by   *)
(* the chat commands that stop or move a run (surf/misc), by pausing and   *)
(* spectating (surf/spec, surf/misc) and by noclip (surf/noclip).          *)
(*                                                                         *)
(* Timers of different players share no state, so one player is enough.    *)
(* A unit of time is one tick (ENGINE_FIXED_TICK_INTERVAL).  The answers   *)
(* of the cooldown and physics tests the code makes (just teleported, just *)
(* landed, airborne without a valid jump, just resumed, not standing       *)
(* still) are chosen freely: they refuse a start or a pause, and nothing   *)
(* else depends on them.                                                   *)
(*                                                                         *)
(* A definition marked "Defect" is not part of the model: it is the next   *)
(* definition with a bug in it, which the properties must tell apart.      *)
(***************************************************************************)
EXTENDS Integers, FiniteSets

CONSTANTS
    Course,             \* the guids of the map's course descriptors
    NoCourse,           \* currentCourseGUID = 0
    CheckpointCount,    \* course -> SurfCourseDescriptor::checkpointCount
    StageCount,         \* course -> SurfCourseDescriptor::stageCount
    StageZones,         \* course -> the numbers its stage triggers carry
    MaxZones,           \* SURF_MAX_STAGE_ZONES: storage of the stage vectors
    Overlaps,           \* the pairs of zones that overlap: the map's geometry
    MaxTime             \* bound: ticks a run may take

\* stageCount counts triggers, so a staged course has no more numbers than that.
ASSUME CourseAssumption ==
    /\ NoCourse \notin Course
    /\ CheckpointCount \in [Course -> Nat]
    /\ StageCount \in [Course -> Nat]
    /\ StageZones \in [Course -> SUBSET (Nat \ {0})]
    /\ \A c \in Course : StageCount[c] > 0 =>
          IsFiniteSet(StageZones[c]) /\ Cardinality(StageZones[c]) <= StageCount[c]

\* A course with more stage zones than that is taken out of the map.
ASSUME BoundAssumption ==
    /\ MaxZones \in Nat
    /\ \A c \in Course : StageCount[c] <= MaxZones
    /\ MaxTime \in Nat

VARIABLES
    \* the pawn and its controller
    alive, team, moveType, inNoclip,
    touching,               \* the zones whose StartTouch fired and EndTouch has not
    \* SurfTimerService
    timerRunning, currentTime, currentCourseGUID,
    touchedGroundSinceTouchingStartZone,
    reachedCheckpoints,
    cpReached,              \* the n for which cpZoneTimes[n - 1] >= 0
    currentStage, stageZoneTimes, stageEndTouchTimes,
    paused,
    savedPosition,          \* SurfSpecService::savedPosition
    run,                    \* history of a run nothing tampered with, see below
    longest,                \* history: the longest time shown since TimerStart
    restored                \* history: noclipping, he went back to a saved time,
                            \* and HandleMoveCollision has not run since

pawnVars  == <<alive, team, moveType, inNoclip, restored>>
zoneVars  == <<touchedGroundSinceTouchingStartZone, touching>>
clockVars == <<timerRunning, currentTime, longest>>
cpVars    == <<reachedCheckpoints, cpReached>>
splitVars == <<stageZoneTimes, stageEndTouchTimes>>
runVars   == <<clockVars, currentCourseGUID, cpVars, currentStage, splitVars, run>>
vars      == <<pawnVars, zoneVars, runVars, paused, savedPosition>>

(***************************************************************************)
(* Zones.  A zone is a timer trigger together with the number it carries.  *)
(***************************************************************************)
StartZone(c)         == [kind |-> "start", course |-> c, number |-> 0]
EndZone(c)           == [kind |-> "end", course |-> c, number |-> 0]
CheckpointZone(c, n) == [kind |-> "checkpoint", course |-> c, number |-> n]
StageZone(c, n)      == [kind |-> "stage", course |-> c, number |-> n]

Zone == [kind : {"start", "end", "checkpoint", "stage"}, course : Course, number : Nat]

TeamType  == {"none", "ct", "spec"}
MoveTypes == {"walk", "none", "noclip"}   \* walk stands for WALK and LADDER

NoTime == -1                              \* invalidTime
Times  == [1 .. MaxZones -> Int]          \* a vector of stage times

History == [course : Course \cup {NoCourse}, plain : BOOLEAN,
            cps : SUBSET Nat, stages : SUBSET Nat, finished : BOOLEAN]

\* What the player did since TimerStart: the course started, whether the run is
\* plain (he was never in two stage zones at once and never set the clock to a
\* saved time), the zones visited, whether the run ended.  NoRun when the run
\* was stopped, or its course or stage changed under it; a stopped run that a
\* saved time turns on again is not followed either.
NoRun == [course |-> NoCourse, plain |-> FALSE,
          cps |-> {}, stages |-> {}, finished |-> FALSE]

Init ==
    /\ alive = FALSE /\ team = "none" /\ moveType = "walk" /\ inNoclip = FALSE
    /\ touching = {}
    /\ timerRunning = FALSE /\ currentTime = 0 /\ currentCourseGUID = NoCourse
    /\ touchedGroundSinceTouchingStartZone = FALSE
    /\ reachedCheckpoints = 0 /\ cpReached = {}
    /\ currentStage = 0
    /\ stageZoneTimes = [s \in 1 .. MaxZones |-> 0]
    /\ stageEndTouchTimes = [s \in 1 .. MaxZones |-> 0]
    /\ paused = FALSE /\ savedPosition = FALSE
    /\ run = NoRun /\ longest = 0 /\ restored = FALSE

(***************************************************************************)
(* Steps of the service that several handlers share.                       *)
(***************************************************************************)

\* SetCourse while a run is on makes it a run of another course.
SetCourse(c) ==
    /\ currentCourseGUID' = c
    /\ run' = IF timerRunning /\ currentCourseGUID # c THEN NoRun ELSE run

\* TimerStop, followed by SetStage(stage) where the caller does that.
TimerStopThenStage(stage) ==
    /\ timerRunning' = FALSE
    /\ currentStage' = stage
    /\ run' = IF timerRunning THEN NoRun ELSE run

TimerStop == TimerStopThenStage(IF timerRunning THEN 0 ELSE currentStage)

AfterTimerStop == <<currentTime, longest, currentCourseGUID, cpVars, splitVars>>

Longest(time) == IF time > longest THEN time ELSE longest

\* Defect: OnChangeMoveType does not end a pause.
SetMoveTypeOnly(type) == moveType' = type /\ UNCHANGED paused

\* OnChangeMoveType: leaving MOVETYPE_NONE ends a pause.
SetMoveType(type) ==
    /\ moveType' = type
    /\ paused' = (paused /\ (type = moveType \/ type = "none"))

\* The vectors are resized to the course and cleared; what lies beyond the
\* new size keeps its old contents.
Cleared(times, size) == [s \in 1 .. MaxZones |-> IF s <= size THEN NoTime ELSE times[s]]

\* Defect: vector[index] = time.
WriteNext(times, index, time) ==
    [s \in 1 .. MaxZones |-> IF s = index + 1 THEN time ELSE times[s]]

\* vector[index - 1] = time.  Index 0, or one past the storage, lands
\* outside the vector.
Write(times, index, time) == [s \in 1 .. MaxZones |-> IF s = index THEN time ELSE times[s]]

(***************************************************************************)
(* TimerStart.                                                             *)
(***************************************************************************)
CanStart(c) ==
    /\ alive
    /\ ~(timerRunning /\ currentTime = 0)                  \* JustStartedTimer
    /\ moveType # "noclip"                                 \* HasValidMoveType
    /\ ~(timerRunning /\ currentCourseGUID = c)

StartRun(c) ==
    /\ timerRunning' = TRUE
    /\ currentTime' = 0
    /\ reachedCheckpoints' = 0
    /\ cpReached' = cpReached \ (1 .. CheckpointCount[c])
    /\ stageZoneTimes' = Cleared(stageZoneTimes, StageCount[c])
    /\ stageEndTouchTimes' = IF StageCount[c] > 0
                             THEN Write(Cleared(stageEndTouchTimes, StageCount[c]), 1, 0)
                             ELSE stageEndTouchTimes
    /\ currentStage' = IF StageCount[c] > 0 THEN 1 ELSE 0
    /\ currentCourseGUID' = c
    /\ savedPosition' = FALSE                              \* OnTimerStartPost
    /\ longest' = 0                     \* the saved locations are dropped
    /\ run' = [course |-> c, plain |-> TRUE,
               cps |-> {}, stages |-> {}, finished |-> FALSE]

\* eligible: not just teleported, noclipped or landed, and on the ground or
\* in a valid jump.
TimerStart(c, eligible) ==
    IF eligible /\ CanStart(c)
    THEN StartRun(c)
    ELSE UNCHANGED <<runVars, savedPosition>>

(***************************************************************************)
(* Touching zones.  A player who is dead or noclipping starts no touch.    *)
(***************************************************************************)
StartTouch(z) ==
    /\ alive /\ ~inNoclip
    /\ z \notin touching
    /\ \A y \in touching : {y, z} \in Overlaps
    /\ touching' = touching \cup {z}

EndTouch(z) ==
    /\ z \in touching
    /\ touching' = touching \ {z}

OnCourse(c) == timerRunning /\ currentCourseGUID = c

\* StartTouch calls Touch at once, which makes c the current course.
StartZoneStartTouch(c) ==
    /\ StartTouch(StartZone(c))
    /\ touchedGroundSinceTouchingStartZone' \in BOOLEAN    \* FL_ONGROUND
    /\ SetCourse(c)
    /\ UNCHANGED <<pawnVars, clockVars, cpVars, currentStage, splitVars, paused, savedPosition>>

\* Every tick the touched start zones set the course again.
StartZoneTouch(c) ==
    /\ StartZone(c) \in touching
    /\ SetCourse(c)
    /\ UNCHANGED <<pawnVars, zoneVars, clockVars, cpVars, currentStage, splitVars,
                   paused, savedPosition>>

StartZoneEndTouch(c, eligible) ==
    /\ EndTouch(StartZone(c))
    /\ IF touchedGroundSinceTouchingStartZone /\ ~timerRunning
       THEN TimerStart(c, eligible)
       ELSE UNCHANGED <<runVars, savedPosition>>
    /\ UNCHANGED <<pawnVars, touchedGroundSinceTouchingStartZone, paused>>

OnStartTouchGround ==
    /\ touchedGroundSinceTouchingStartZone' = TRUE
    /\ UNCHANGED <<pawnVars, touching, runVars, paused, savedPosition>>

CheckpointZoneStartTouch(c, n) ==
    /\ StartTouch(CheckpointZone(c, n))
    /\ IF OnCourse(c) /\ n \notin cpReached
       THEN /\ cpReached' = cpReached \cup {n}
            /\ reachedCheckpoints' = reachedCheckpoints + 1
       ELSE UNCHANGED cpVars
    /\ run' = IF timerRunning /\ run.course = c
              THEN [run EXCEPT !.cps = @ \cup {n}] ELSE run
    /\ UNCHANGED <<pawnVars, touchedGroundSinceTouchingStartZone, clockVars,
                   currentCourseGUID, currentStage, splitVars, paused, savedPosition>>

\* The history credits a stage zone once every lower-numbered one is credited.
CreditStage(c, n) ==
    IF timerRunning /\ run.course = c
    THEN [run EXCEPT !.stages = IF \A m \in StageZones[c] : m < n => m \in @
                                THEN @ \cup {n} ELSE @,
                     !.plain = @ /\ \A z \in touching : z.kind # "stage"]
    ELSE run

StageZoneStartTouch(c, n) ==
    /\ StartTouch(StageZone(c, n))
    /\ IF OnCourse(c) /\ n = currentStage + 1
       THEN /\ currentStage' = currentStage + 1
            /\ stageZoneTimes' =
                 IF currentStage \in 1 .. MaxZones
                 THEN Write(stageZoneTimes, currentStage,
                            currentTime - stageEndTouchTimes[currentStage])
                 ELSE stageZoneTimes
       ELSE UNCHANGED <<currentStage, stageZoneTimes>>
    /\ run' = CreditStage(c, n)
    /\ UNCHANGED <<pawnVars, touchedGroundSinceTouchingStartZone, clockVars,
                   currentCourseGUID, cpVars, stageEndTouchTimes, paused, savedPosition>>

\* Whichever stage zone of the course is left, the current stage restarts.
StageZoneEndTouch(c, n) ==
    /\ EndTouch(StageZone(c, n))
    /\ stageEndTouchTimes' = IF OnCourse(c)
                             THEN Write(stageEndTouchTimes, currentStage, currentTime)
                             ELSE stageEndTouchTimes
    /\ UNCHANGED <<pawnVars, touchedGroundSinceTouchingStartZone, clockVars,
                   currentCourseGUID, cpVars, currentStage, stageZoneTimes, paused,
                   savedPosition, run>>

EndTouchOnly(z) ==
    /\ z.kind \in {"end", "checkpoint"}
    /\ EndTouch(z)
    /\ UNCHANGED <<pawnVars, touchedGroundSinceTouchingStartZone, runVars,
                   paused, savedPosition>>

(***************************************************************************)
(* TimerEnd, on touching an end zone.                                      *)
(***************************************************************************)
\* Defects: the checkpoints are not counted; the last stage is not asked for.
CanEndUncounted(c) ==
    /\ OnCourse(c)
    /\ StageCount[c] > 0 => currentStage - 1 = StageCount[c]
CanEndOneStageEarly(c) ==
    /\ OnCourse(c)
    /\ StageCount[c] > 0 => currentStage = StageCount[c]
    /\ reachedCheckpoints = CheckpointCount[c]

CanEnd(c) ==
    /\ OnCourse(c)
    /\ StageCount[c] > 0 => currentStage - 1 = StageCount[c]
    /\ reachedCheckpoints = CheckpointCount[c]

FinishRun ==
    /\ currentTime' = currentTime + 1                      \* + frametime
    /\ longest' = Longest(currentTime + 1)
    /\ timerRunning' = FALSE
    /\ currentStage' = 0
    /\ run' = [run EXCEPT !.finished = (run.course # NoCourse)]

TimerEnd(c) ==
    /\ StartTouch(EndZone(c))
    /\ IF CanEnd(c)
       THEN FinishRun
       ELSE UNCHANGED <<clockVars, currentStage, run>>
    /\ UNCHANGED <<pawnVars, touchedGroundSinceTouchingStartZone,
                   currentCourseGUID, cpVars, splitVars, paused, savedPosition>>

(***************************************************************************)
(* The tick, and everything that stops a run.                              *)
(***************************************************************************)
\* HandleMoveCollision has run in the tick that this ends.
OnPhysicsSimulatePost ==
    /\ alive /\ timerRunning /\ ~paused /\ ~restored
    /\ currentTime < MaxTime
    /\ currentTime' = currentTime + 1
    /\ longest' = Longest(currentTime + 1)
    /\ UNCHANGED <<pawnVars, zoneVars, timerRunning, currentCourseGUID, cpVars,
                   currentStage, splitVars, paused, savedPosition, run>>

\* surf_stop, a mode or style switch, a teleport trigger into a start zone,
\* invalid client cvars, a new round.
StopRun ==
    /\ timerRunning
    /\ TimerStop
    /\ UNCHANGED <<pawnVars, zoneVars, AfterTimerStop, paused, savedPosition>>

\* surf_stage stops the run and shows the stage it moved the player to; the
\* start zone of a map without the mapping API is its stage 1.
TeleportToStage(stage) ==
    /\ TimerStopThenStage(stage)
    /\ UNCHANGED <<pawnVars, zoneVars, AfterTimerStop, paused, savedPosition>>

\* surf_rs stops the run only in the first stage.
RestartStage ==
    /\ currentStage = 1
    /\ TimerStop
    /\ UNCHANGED <<pawnVars, zoneVars, AfterTimerStop, paused, savedPosition>>

\* surf_bonus clears the stage before it looks for the bonus; the run is
\* stopped only when the bonus is found.
RestartBonus(found) ==
    /\ timerRunning' = (timerRunning /\ ~found)
    /\ currentStage' = 0
    /\ run' = IF timerRunning THEN NoRun ELSE run
    /\ UNCHANGED <<pawnVars, zoneVars, currentTime, longest, currentCourseGUID, cpVars,
                   splitVars, paused, savedPosition>>

(***************************************************************************)
(* Going back to a saved location (SavedLocations has the locations).      *)
(***************************************************************************)

\* The stage and what was visited stay as they are.
SetTime(time) ==
    /\ currentTime' = time
    /\ timerRunning' = (time > 0)
    /\ run' = IF timerRunning = (time > 0) THEN [run EXCEPT !.plain = FALSE] ELSE NoRun
    /\ restored' = (moveType' = "noclip")
    /\ UNCHANGED <<longest, currentCourseGUID, cpVars, currentStage, splitVars>>

\* The noclip flag is cleared, the move type is left to HandleMoveCollision,
\* unless the location is on a ladder.  On the very spot of the location the
\* clock shows its time again, one it has shown since the locations were last
\* dropped, whether the run is on or not.
DoTeleport(onLadder) ==
    /\ alive
    /\ inNoclip' = FALSE
    /\ IF onLadder /\ ~paused THEN SetMoveType("walk") ELSE UNCHANGED <<moveType, paused>>
    /\ \/ UNCHANGED <<runVars, restored>>
       \/ \E time \in 0 .. longest : time <= MaxTime /\ SetTime(time)
    /\ UNCHANGED <<alive, team, zoneVars, savedPosition>>

(***************************************************************************)
(* Pausing.                                                                *)
(***************************************************************************)

\* still: not resumed within the last second, and on the ground or not moving.
CanPause(still) == ~paused /\ (timerRunning => still)

Pause(still) ==
    /\ alive
    /\ CanPause(still)
    /\ paused' = TRUE
    /\ moveType' = "none"
    /\ UNCHANGED <<alive, team, inNoclip, restored, zoneVars, runVars, savedPosition>>

Resume ==
    /\ alive /\ paused
    /\ paused' = FALSE
    /\ moveType' = "walk"
    /\ UNCHANGED <<alive, team, inNoclip, restored, zoneVars, runVars, savedPosition>>

\* The engine takes the player out of MOVETYPE_NONE; the next
\* OnPhysicsSimulate notices before anything moves.
EscapePause ==
    /\ alive /\ moveType = "none"
    /\ SetMoveType("walk")
    /\ UNCHANGED <<alive, team, inNoclip, restored, zoneVars, runVars, savedPosition>>

(***************************************************************************)
(* Noclip: the command flips the flag, the tick carries it out.            *)
(***************************************************************************)
ToggleNoclip ==
    /\ inNoclip' = ~inNoclip
    /\ UNCHANGED <<alive, team, moveType, restored, zoneVars, runVars, paused, savedPosition>>

HandleNoclip ==
    /\ alive
    /\ \/ /\ inNoclip
          /\ SetMoveType("noclip")
          /\ TimerStop
       \/ /\ ~inNoclip /\ moveType = "noclip"
          /\ SetMoveType("walk")
          /\ TimerStop
       \/ /\ ~inNoclip /\ moveType # "noclip" /\ restored
          /\ UNCHANGED <<moveType, paused, timerRunning, currentStage, run>>
    /\ restored' = FALSE
    /\ UNCHANGED <<alive, team, inNoclip, zoneVars, AfterTimerStop, savedPosition>>

(***************************************************************************)
(* Deaths, spawns, teams, connections.                                     *)
(***************************************************************************)
\* Defect: the run is not stopped.
DieRunning ==
    /\ alive
    /\ alive' = FALSE
    /\ inNoclip' = FALSE
    /\ UNCHANGED <<team, moveType, restored, zoneVars, runVars, paused, savedPosition>>

OnPlayerDeath ==
    /\ alive
    /\ alive' = FALSE
    /\ inNoclip' = FALSE                                   \* HandleMoveCollision
    /\ TimerStop
    /\ UNCHANGED <<team, moveType, restored, zoneVars, AfterTimerStop, paused, savedPosition>>

\* The engine respawns a player who died in his team.
OnPlayerSpawn ==
    /\ ~alive /\ team = "ct"
    /\ alive' = TRUE /\ moveType' = "walk" /\ paused' = FALSE
    /\ UNCHANGED <<team, inNoclip, restored, zoneVars, runVars, savedPosition>>

\* JoinTeam(CS_TEAM_SPECTATOR), which ends in OnPlayerJoinTeam.
JoinSpectators(still) ==
    /\ team # "spec"
    /\ savedPosition' = (savedPosition \/ team # "none")
    /\ IF ~paused /\ ~CanPause(still)
       THEN TimerStop
       ELSE UNCHANGED <<timerRunning, currentStage, run>>
    /\ team' = "spec" /\ alive' = FALSE /\ inNoclip' = FALSE
    /\ paused' = TRUE
    /\ UNCHANGED <<moveType, restored, zoneVars, AfterTimerStop>>

\* Switched to a playing team and respawned, which ends a pause.
Enter ==
    /\ team' = "ct" /\ alive' = TRUE /\ moveType' = "walk"
    /\ paused' = FALSE
    /\ savedPosition' = FALSE

\* JoinTeam(CS_TEAM_CT): without a saved position to return to, the run stops.
JoinGame ==
    /\ team # "ct"
    /\ Enter
    /\ IF savedPosition
       THEN UNCHANGED <<timerRunning, currentStage, run>>
       ELSE TimerStop
    /\ UNCHANGED <<inNoclip, restored, zoneVars, AfterTimerStop>>

\* surf_r (which also clears the stage) and surf_end: the run stops, a
\* noclipping player leaves noclip, a spectator joins without his position.
TeleportToCourse(clearStage) ==
    /\ TimerStopThenStage(IF timerRunning \/ clearStage THEN 0 ELSE currentStage)
    /\ \/ /\ alive /\ inNoclip
          /\ inNoclip' = FALSE
          /\ SetMoveType(IF moveType = "noclip" THEN "walk" ELSE moveType)
          /\ UNCHANGED <<alive, team, restored, savedPosition>>
       \/ /\ ~alive /\ team # "ct"
          /\ Enter /\ UNCHANGED <<inNoclip, restored>>
       \/ /\ IF alive THEN ~inNoclip ELSE team = "ct"
          /\ UNCHANGED <<pawnVars, paused, savedPosition>>
    /\ UNCHANGED <<zoneVars, AfterTimerStop>>

\* Changing sides kills and respawns the player.
SwitchSides ==
    /\ team = "ct" /\ alive
    /\ TimerStop
    /\ Enter
    /\ UNCHANGED <<inNoclip, restored, zoneVars, AfterTimerStop>>

\* OnClientDisconnect, then Reset: the trackers are dropped without their
\* end touches, and the vectors and the stage are not reset.
OnClientDisconnect ==
    /\ team # "none"
    /\ alive' = FALSE /\ team' = "none" /\ moveType' = "walk" /\ inNoclip' = FALSE
    /\ touching' = {}
    /\ TimerStop
    /\ currentTime' = 0 /\ longest' = 0 /\ currentCourseGUID' = NoCourse
    /\ touchedGroundSinceTouchingStartZone' = FALSE
    /\ paused' = FALSE /\ savedPosition' = FALSE /\ restored' = FALSE
    /\ UNCHANGED <<cpVars, splitVars>>

(***************************************************************************)
(* The specification.                                                      *)
(***************************************************************************)
TouchZones ==
    \E c \in Course :
        \/ StartZoneStartTouch(c)
        \/ StartZoneTouch(c)
        \/ \E eligible \in BOOLEAN : StartZoneEndTouch(c, eligible)
        \/ \E n \in 1 .. CheckpointCount[c] : CheckpointZoneStartTouch(c, n)
        \/ \E n \in StageZones[c] : StageZoneStartTouch(c, n) \/ StageZoneEndTouch(c, n)
        \/ TimerEnd(c)

Commands ==
    \/ StopRun
    \/ RestartStage
    \/ \E c \in Course : \E stage \in StageZones[c] \cup {1} : TeleportToStage(stage)
    \/ \E found \in BOOLEAN : RestartBonus(found)
    \/ \E clearStage \in BOOLEAN : TeleportToCourse(clearStage)
    \/ \E still \in BOOLEAN : Pause(still) \/ JoinSpectators(still)
    \/ Resume
    \/ \E onLadder \in BOOLEAN : DoTeleport(onLadder)
    \/ ToggleNoclip
    \/ JoinGame
    \/ SwitchSides

Engine ==
    \/ OnPhysicsSimulatePost
    \/ OnStartTouchGround
    \/ EscapePause
    \/ HandleNoclip
    \/ OnPlayerDeath
    \/ OnPlayerSpawn
    \/ OnClientDisconnect
    \/ \E z \in touching : EndTouchOnly(z)

Next == TouchZones \/ Commands \/ Engine

Spec == Init /\ [][Next]_vars

-----------------------------------------------------------------------------
(***************************************************************************)
(* Properties.                                                             *)
(***************************************************************************)
TypeOK ==
    /\ alive \in BOOLEAN /\ inNoclip \in BOOLEAN
    /\ team \in TeamType /\ moveType \in MoveTypes
    /\ touching \subseteq Zone
    /\ timerRunning \in BOOLEAN /\ currentTime \in Nat
    /\ currentCourseGUID \in Course \cup {NoCourse}
    /\ touchedGroundSinceTouchingStartZone \in BOOLEAN
    /\ reachedCheckpoints \in Nat /\ cpReached \subseteq Nat
    /\ currentStage \in Nat
    /\ stageZoneTimes \in Times /\ stageEndTouchTimes \in Times
    /\ paused \in BOOLEAN /\ savedPosition \in BOOLEAN
    /\ run \in History /\ longest \in Nat /\ restored \in BOOLEAN

\* A run that ended visited, since its TimerStart, every checkpoint and every
\* stage zone of its course: TimerEnd counts, it keeps no set of zones.  A
\* run whose course or stage was changed while it was on is left out.
FinishCoversCourse ==
    run.finished =>
        /\ run.cps = 1 .. CheckpointCount[run.course]
        /\ StageCount[run.course] > 0 => run.stages = StageZones[run.course]

\* The other direction: an untampered run that visited everything, the stages in
\* their order, is never turned away at the end zone.
CompletedRunEnds ==
    [][\A c \in Course :
          TimerEnd(c) /\ timerRunning /\ run.course = c
          /\ run.cps = 1 .. CheckpointCount[c] /\ run.stages = StageZones[c]
          => ~timerRunning']_vars

\* A run that outlives its pawn is one a spectator can return to: it is
\* paused, and the position to come back to is saved.
DeadRunIsResumable == timerRunning /\ ~alive => paused /\ savedPosition

\* A paused living player cannot move, whatever resumed, noclipped or
\* respawned him in between.
PausedIsFrozen == alive /\ paused => moveType = "none"

\* No run is on while the player flies: the toggle, the tick, the teleports
\* out of noclip and the start zone's end touch may come in any order.  The
\* exception is a stopped run that a saved location turned on again: it is on
\* in noclip until the HandleMoveCollision of the next tick, which stops it
\* before the clock has counted a tick.
NoRunInNoclip == alive /\ moveType = "noclip" /\ timerRunning => restored

\* How the player moves fits the state of his run, both ways.
MoveTypeFits == PausedIsFrozen /\ NoRunInNoclip

\* The stage stays within the stages the course has.
StageInRange ==
    (timerRunning /\ run.course # NoCourse /\ StageCount[run.course] > 0)
        => currentStage \in 1 .. StageCount[run.course] + 1

\* The stage splits of a run are the lengths of parts of it that follow each
\* other: each fits between the moments its stage and the next were reached,
\* so they never add up to more than the run's time.  This is so when the
\* player never stands in two stage zones at once (StageZoneEndTouch takes
\* whatever zone is left for the current stage's) and never sets the clock to
\* a saved time (SetTime leaves the moments the stages began as they are).
SplitsFitTheRun ==
    timerRunning /\ run.course # NoCourse /\ run.plain /\ StageCount[run.course] > 0 =>
        \E reached \in [0 .. currentStage - 1 -> 0 .. currentTime] :
            \A s \in 1 .. currentStage - 1 :
                0 <= stageZoneTimes[s] /\ stageZoneTimes[s] <= reached[s] - reached[s - 1]
=============================================================================
