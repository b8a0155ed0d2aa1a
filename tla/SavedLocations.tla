--------------------------- MODULE SavedLocations ---------------------------
(***************************************************************************)
(* Saved locations (surf/checkpoint): a player's list of places to go back *)
(* to, the place his last teleport left from, the position he wants to     *)
(* start from, and what teleporting does to his run.                       *)
(*                                                                         *)
(* A location is where, at which time of the run, and whether on a ladder. *)
(* Velocities, angles, ground entities and ducking are left out; so is     *)
(* holding a teleported player still, which nothing calls.  Whether he     *)
(* stands on the ground is chosen when it is asked for.  The run timer is  *)
(* SurfTimer's; here it is a clock in ticks, and half a tick is none.  A   *)
(* dead player does not ask for locations.                                 *)
(*                                                                         *)
(* A definition marked "Defect" is not part of the model: it is the next   *)
(* definition with a bug in it, which the properties must tell apart.      *)
(***************************************************************************)
EXTENDS Integers, Sequences

CONSTANTS
    Place,
    Ladder, StartZone,  \* the places with a ladder, those in the start zone
    NoLocation,
    MaxCheckpoints,     \* bounds: saved locations,
    MaxTeleports,       \* teleports told apart (the count stays there),
    MaxTime             \* and ticks of a run

ASSUME LocationsAssumption ==
    /\ Ladder \subseteq Place /\ StartZone \subseteq Place
    /\ MaxCheckpoints \in Nat /\ MaxTeleports \in Nat \ {0} /\ MaxTime \in Nat

Time     == Int
Location == [origin : Place, onLadder : BOOLEAN, time : Time]

ASSUME NoLocationAssumption == NoLocation \notin Location \cup Place

VARIABLES
    pawn,               \* alive, origin, moveType, and the service's inNoclip
    tas,                \* he has the style TAS
    timer,              \* timerRunning, currentTime, paused, pausedOnLadder
    checkpoints, currentCpIndex, tpCount,
    undoTeleportData, teleportOnGround,
    customStart,        \* customStartPosition, if hasCustomStartPosition
    age                 \* history: ticks counted since TimerStart, TimerEnd's included

locations    == <<checkpoints, currentCpIndex, tpCount, undoTeleportData, teleportOnGround>>
locationVars == <<pawn, tas, timer, locations, customStart, age>>

InitLocations ==
    /\ \E place \in Place :
          pawn = [alive |-> TRUE, origin |-> place, moveType |-> "walk", inNoclip |-> FALSE]
    /\ tas = FALSE
    /\ timer = [running |-> FALSE, time |-> 0, paused |-> FALSE, onLadder |-> FALSE]
    /\ checkpoints = <<>> /\ currentCpIndex = 0 /\ tpCount = 0
    /\ undoTeleportData = NoLocation /\ teleportOnGround = FALSE
    /\ customStart = NoLocation
    /\ age = 0

Here(time) == [origin |-> pawn.origin, onLadder |-> pawn.moveType = "ladder", time |-> time]

ResetCheckpoints ==
    /\ checkpoints' = <<>> /\ currentCpIndex' = 0 /\ tpCount' = 0
    /\ undoTeleportData' = NoLocation /\ teleportOnGround' = FALSE

(***************************************************************************)
(* Saving and teleporting.                                                 *)
(***************************************************************************)
SetCheckpoint ==
    /\ pawn.alive /\ Len(checkpoints) < MaxCheckpoints
    /\ checkpoints' = Append(checkpoints, Here(timer.time))
    /\ currentCpIndex' = Len(checkpoints)
    /\ UNCHANGED <<pawn, tas, timer, tpCount, undoTeleportData, teleportOnGround, customStart, age>>

OneMore(count) == IF count < MaxTeleports THEN count + 1 ELSE count

SetTime(t, time) == [t EXCEPT !.time = time, !.running = time > 0]

\* He is set onto the ladder of the location, when the pause ends if he is
\* paused.  His time goes back only if he is on the very spot already.
DoTeleport(location, respawn) ==
    /\ pawn.alive
    /\ undoTeleportData' = Here(IF respawn THEN 0 ELSE timer.time)
    /\ \E ground \in BOOLEAN : teleportOnGround' = (ground \/ pawn.moveType = "ladder")
    /\ pawn' = [pawn EXCEPT !.inNoclip = FALSE, !.origin = location.origin,
                   !.moveType = IF location.onLadder /\ ~timer.paused THEN "ladder" ELSE @]
    /\ LET timed == IF pawn.origin = location.origin /\ ~respawn
                    THEN SetTime(timer, location.time) ELSE timer
       IN  timer' = [timed EXCEPT !.onLadder = IF timer.paused THEN location.onLadder ELSE @]
    /\ tpCount' = OneMore(tpCount)
    /\ UNCHANGED <<tas, checkpoints, customStart, age>>

\* The location at the index, which moves whether he may teleport or not.
TeleportTo(index) ==
    /\ pawn.alive /\ checkpoints # <<>>
    /\ currentCpIndex' = index
    /\ IF tas
       THEN DoTeleport(checkpoints[index + 1], FALSE)
       ELSE UNCHANGED <<pawn, tas, timer, checkpoints, tpCount, undoTeleportData,
                        teleportOnGround, customStart, age>>

TpToCheckpoint == TeleportTo(currentCpIndex)
TpToPrevCp == TeleportTo(IF currentCpIndex = 0 THEN 0 ELSE currentCpIndex - 1)
TpToNextCp ==
    TeleportTo(IF currentCpIndex + 1 < Len(checkpoints) THEN currentCpIndex + 1 ELSE currentCpIndex)

\* Back to where the last teleport left from, unless that was in mid-air.
\* The style is not asked for.
UndoTeleport ==
    /\ checkpoints # <<>> /\ undoTeleportData # NoLocation /\ tpCount > 0
    /\ teleportOnGround
    /\ DoTeleport(undoTeleportData, FALSE)
    /\ UNCHANGED currentCpIndex

(***************************************************************************)
(* The position to start from.                                             *)
(***************************************************************************)
\* Nothing ever puts a start position onto a ladder.
SetStartPosition ==
    /\ pawn.alive /\ pawn.origin \in StartZone
    /\ customStart' = pawn.origin
    /\ UNCHANGED <<pawn, tas, timer, locations, age>>

ClearStartPosition ==
    /\ customStart' = NoLocation
    /\ UNCHANGED <<pawn, tas, timer, locations, age>>

\* The preferences arrive; without a position for this map his own stays.
LoadStartPosition(stored) ==
    /\ customStart' = IF stored = NoLocation THEN customStart ELSE stored
    /\ UNCHANGED <<pawn, tas, timer, locations, age>>

\* surf_r: the run stops, and a noclipping player leaves noclip at once.
Restart ==
    LET landed == [pawn EXCEPT !.inNoclip = FALSE,
                               !.moveType = IF @ = "noclip" THEN "walk" ELSE @]
    IN  /\ pawn.alive
        /\ IF customStart = NoLocation
           THEN /\ \E place \in Place : pawn' = [landed EXCEPT !.origin = place]
                /\ timer' = [timer EXCEPT !.running = FALSE]
                /\ UNCHANGED locations
           ELSE \* TpToStartPosition
                /\ undoTeleportData' = [Here(0) EXCEPT !.onLadder = landed.moveType = "ladder"]
                /\ \E ground \in BOOLEAN :
                      teleportOnGround' = (ground \/ landed.moveType = "ladder")
                /\ pawn' = [landed EXCEPT !.origin = customStart]
                /\ timer' = [timer EXCEPT !.running = FALSE, !.onLadder = @ /\ ~timer.paused]
                /\ tpCount' = OneMore(tpCount)
                /\ UNCHANGED <<checkpoints, currentCpIndex>>
        /\ UNCHANGED <<tas, customStart, age>>

(***************************************************************************)
(* The player and his run.                                                 *)
(***************************************************************************)
\* The engine's move: a ladder is left as soon as there is none.
Move(to) ==
    /\ pawn.alive /\ pawn.moveType # "none"
    /\ \E type \in {"walk"} \cup (IF to \in Ladder THEN {"ladder"} ELSE {}) :
          pawn' = [pawn EXCEPT !.origin = to, !.moveType = IF @ = "noclip" THEN @ ELSE type]
    /\ UNCHANGED <<tas, timer, locations, customStart, age>>

\* HandleNoclip, which stops the timer, before it counts the tick.
RunTick ==
    /\ pawn.alive /\ age < MaxTime
    /\ IF pawn.inNoclip \/ pawn.moveType = "noclip"
       THEN /\ pawn' = [pawn EXCEPT !.moveType = IF pawn.inNoclip THEN "noclip" ELSE "walk"]
            /\ timer' = [timer EXCEPT !.running = FALSE, !.paused = FALSE]
            /\ UNCHANGED age
       ELSE /\ timer.running /\ ~timer.paused
            /\ timer' = [timer EXCEPT !.time = @ + 1]
            /\ age' = age + 1
            /\ UNCHANGED pawn
    /\ UNCHANGED <<tas, locations, customStart>>

\* Defect: the locations of the run before are kept.
StartRunKeeping ==
    /\ pawn.alive /\ pawn.origin \in StartZone /\ pawn.moveType \in {"walk", "ladder"}
    /\ timer' = [timer EXCEPT !.running = TRUE, !.time = 0]
    /\ age' = 0
    /\ UNCHANGED <<pawn, tas, locations, customStart>>

StartRun ==
    /\ pawn.alive /\ pawn.origin \in StartZone /\ pawn.moveType \in {"walk", "ladder"}
    /\ timer' = [timer EXCEPT !.running = TRUE, !.time = 0]
    /\ age' = 0
    /\ ResetCheckpoints
    /\ UNCHANGED <<pawn, tas, customStart>>

\* TimerStop, whoever calls it: the time stays.
StopRun ==
    /\ timer.running
    /\ timer' = [timer EXCEPT !.running = FALSE]
    /\ UNCHANGED <<pawn, tas, locations, customStart, age>>

\* TimerEnd, where it is allowed: the tick under way counts whole.
FinishRun ==
    /\ pawn.alive /\ timer.running /\ age < MaxTime
    /\ timer' = [timer EXCEPT !.running = FALSE, !.time = @ + 1]
    /\ age' = age + 1
    /\ UNCHANGED <<pawn, tas, locations, customStart>>

Pause ==
    /\ pawn.alive /\ ~timer.paused
    /\ timer' = [timer EXCEPT !.paused = TRUE, !.onLadder = pawn.moveType = "ladder"]
    /\ pawn' = [pawn EXCEPT !.moveType = "none"]
    /\ UNCHANGED <<tas, locations, customStart, age>>

Resume ==
    /\ pawn.alive /\ timer.paused
    /\ timer' = [timer EXCEPT !.paused = FALSE]
    /\ pawn' = [pawn EXCEPT !.moveType = IF timer.onLadder THEN "ladder" ELSE "walk"]
    /\ UNCHANGED <<tas, locations, customStart, age>>

\* Adding a style stops the timer, removing it does not.
ToggleTAS ==
    /\ tas' = ~tas
    /\ timer' = IF tas THEN timer ELSE [timer EXCEPT !.running = FALSE]
    /\ UNCHANGED <<pawn, locations, customStart, age>>

ToggleNoclip ==
    /\ pawn' = [pawn EXCEPT !.inNoclip = ~@]
    /\ UNCHANGED <<tas, timer, locations, customStart, age>>

DieOrSpawn ==
    /\ IF pawn.alive
       THEN /\ pawn' = [pawn EXCEPT !.alive = FALSE, !.inNoclip = FALSE, !.moveType = "none"]
            /\ timer' = [timer EXCEPT !.running = FALSE]
       ELSE /\ \E place \in Place :
                  pawn' = [pawn EXCEPT !.alive = TRUE, !.moveType = "walk", !.origin = place]
            /\ timer' = [timer EXCEPT !.paused = FALSE]
    /\ UNCHANGED <<tas, locations, customStart, age>>

\* SurfPlayer::Reset: he leaves.
ResetLocations ==
    /\ timer' = [running |-> FALSE, time |-> 0, paused |-> FALSE, onLadder |-> FALSE]
    /\ pawn' = [pawn EXCEPT !.alive = FALSE, !.inNoclip = FALSE, !.moveType = "none"]
    /\ tas' = FALSE /\ age' = 0
    /\ customStart' = NoLocation
    /\ ResetCheckpoints

NextLocations ==
    \/ SetCheckpoint \/ TpToCheckpoint \/ TpToPrevCp \/ TpToNextCp \/ UndoTeleport
    \/ SetStartPosition \/ ClearStartPosition \/ Restart
    \/ \E stored \in StartZone \cup {NoLocation} : LoadStartPosition(stored)
    \/ \E place \in Place : Move(place)
    \/ RunTick \/ StartRun \/ StopRun \/ FinishRun \/ Pause \/ Resume
    \/ ToggleTAS \/ ToggleNoclip \/ DieOrSpawn \/ ResetLocations

SpecLocations == InitLocations /\ [][NextLocations]_locationVars

(***************************************************************************)
(* Properties.                                                             *)
(***************************************************************************)
TypeOKLocations ==
    /\ pawn \in [alive : BOOLEAN, origin : Place,
                 moveType : {"walk", "ladder", "noclip", "none"}, inNoclip : BOOLEAN]
    /\ tas \in BOOLEAN
    /\ timer \in [running : BOOLEAN, time : Time, paused : BOOLEAN, onLadder : BOOLEAN]
    /\ checkpoints \in Seq(Location) /\ currentCpIndex \in Nat /\ tpCount \in Nat
    /\ undoTeleportData \in Location \cup {NoLocation} /\ teleportOnGround \in BOOLEAN
    /\ customStart \in StartZone \cup {NoLocation}
    /\ age \in Nat

\* Whatever he saved, undid, stopped and started again: the clock of a run only
\* shows a time that this run has had (never one of the run before, and never
\* more ticks than it was on for), and the current location is one he has.
TimesAreOfThisRun ==
    /\ 0 <= timer.time /\ timer.time <= age
    /\ checkpoints # <<>> => currentCpIndex \in 0 .. Len(checkpoints) - 1

\* "You must be in the TAS style to teleport" (cs2surf-saveloc.phrases.txt:41):
\* true of the teleports to locations, not of undoing them.  See the README.
OnlyTASGoesBack ==
    [][timer.running' /\ timer'.time < timer.time => tas \/ age' = 0]_locationVars
=============================================================================
