---------------------------- MODULE PlayerProofs ----------------------------
(***************************************************************************)
(* Proofs about the models of one player: the hooks around his move        *)
(* (Movement), his saved locations (SavedLocations), the tick rate of his  *)
(* mode (TickRates), the triggers he touches (TriggerTouch), the rules he  *)
(* moves by (ModesStyles); and about his requests for records              *)
(* (RecordQueries).  The models share no variable; each has a              *)
(* specification of its own, and its theorems are about that one.          *)
(***************************************************************************)
EXTENDS Movement, SavedLocations, TickRates, TriggerTouch, ModesStyles, RecordQueries, ListProofs

(***************************************************************************)
(* Movement: what the services hear, and where a teleport leaves a player. *)
(***************************************************************************)

\* Between two moves the services know what the last move ended on; the flag it
\* left is what the next one compares the ground with.  A push is only unheard
\* while they still believe in the ground.
HearingInv ==
    /\ ~toldTwice
    /\ phase \in {"processed", "left"} => heard = (onGround \/ pushedOff)
    /\ phase # "processed" => heard = (flags.previousOnGround \/ pushedOff)
    /\ phase # "idle" \/ moveType = lastKnownMoveType =>
          heardType = moveType \/ (moveType = "ladder" /\ unheardLadder)

\* The engine works on the move data exactly during a move; before it they are
\* the pawn's.
PlaceInv ==
    /\ flags.processingMovement <=> phase = "processed"
    /\ phase = "set up" => moveData = pawnOrigin
    /\ TeleportSticks

MoveInv == TypeOKMoves /\ HearingInv /\ PlaceInv

\* The parts of the flags that the invariants are about.
LEMMA TakeoffFlags ==
    ASSUME NEW fl \in Flags, NEW jumped \in BOOLEAN, NEW ladder \in BOOLEAN
    PROVE  /\ RegisterTakeoff(fl, jumped, ladder) \in Flags
           /\ RegisterTakeoff(fl, jumped, ladder).processingMovement = fl.processingMovement
           /\ RegisterTakeoff(fl, jumped, ladder).previousOnGround = fl.previousOnGround
  BY DEF Flags, RegisterTakeoff

LEMMA LandingFlags ==
    ASSUME NEW fl \in Flags
    PROVE  /\ RegisterLanding(fl) \in Flags
           /\ RegisterLanding(fl).processingMovement = fl.processingMovement
           /\ RegisterLanding(fl).previousOnGround = fl.previousOnGround
  BY DEF Flags, RegisterLanding

LEMMA EndFlags ==
    ASSUME NEW fl \in Flags, NEW ground \in BOOLEAN
    PROVE  /\ EndProcessing(fl, ground) \in Flags
           /\ EndProcessing(fl, ground).processingMovement = FALSE
           /\ EndProcessing(fl, ground).previousOnGround = ground
  <1>1. EndProcessing(fl, ground) \in Flags
    BY DEF Flags, EndProcessing
  <1>2. /\ EndProcessing(fl, ground).processingMovement = FALSE
        /\ EndProcessing(fl, ground).previousOnGround = ground
    BY DEF Flags, EndProcessing
  <1> QED BY <1>1, <1>2

\* A change of the ground is heard by those who knew what it was before.
LEMMA GroundHeard ==
    ASSUME NEW fl \in Flags, NEW ground \in BOOLEAN, GroundChanged(fl, ground),
           ~toldTwice, heard = (~ground \/ pushedOff), {heard, pushedOff} \subseteq BOOLEAN
    PROVE  /\ flags' \in Flags /\ flags'.processingMovement = fl.processingMovement
           /\ flags'.previousOnGround = fl.previousOnGround
           /\ heard' = ground /\ pushedOff' = FALSE /\ toldTwice' = FALSE
  <1>1. /\ flags' \in Flags /\ flags'.processingMovement = fl.processingMovement
        /\ flags'.previousOnGround = fl.previousOnGround
    <2>1. CASE ground
      BY <2>1, LandingFlags DEF GroundChanged
    <2>2. CASE ~ground
      BY <2>2, TakeoffFlags DEF GroundChanged
    <2> QED BY <2>1, <2>2
  <1>2. heard' = ground /\ pushedOff' = FALSE
    BY DEF GroundChanged, Hear
  <1>3. ~(heard = ground /\ ~pushedOff)
    OBVIOUS
  <1>4. toldTwice' = FALSE
    BY <1>3 DEF GroundChanged, Hear
  <1> QED BY <1>1, <1>2, <1>4

\* Single flags set by an action.
LEMMA FlagSet ==
    ASSUME NEW fl \in Flags, NEW b \in BOOLEAN
    PROVE  /\ [fl EXCEPT !.walkMoved = b] \in Flags
           /\ [fl EXCEPT !.walkMoved = b].processingMovement = fl.processingMovement
           /\ [fl EXCEPT !.walkMoved = b].previousOnGround = fl.previousOnGround
           /\ [fl EXCEPT !.collidingWithWorld = b] \in Flags
           /\ [fl EXCEPT !.collidingWithWorld = b].processingMovement = fl.processingMovement
           /\ [fl EXCEPT !.collidingWithWorld = b].previousOnGround = fl.previousOnGround
           /\ [fl EXCEPT !.ignoreNextCategorizePosition = b] \in Flags
           /\ [fl EXCEPT !.ignoreNextCategorizePosition = b].processingMovement
                = fl.processingMovement
           /\ [fl EXCEPT !.ignoreNextCategorizePosition = b].previousOnGround
                = fl.previousOnGround
           /\ [fl EXCEPT !.processingDuck = b] \in Flags
           /\ [fl EXCEPT !.processingDuck = b].processingMovement = fl.processingMovement
           /\ [fl EXCEPT !.processingDuck = b].previousOnGround = fl.previousOnGround
           /\ [fl EXCEPT !.inPerf = b] \in Flags
           /\ [fl EXCEPT !.inPerf = b].processingMovement = fl.processingMovement
           /\ [fl EXCEPT !.inPerf = b].previousOnGround = fl.previousOnGround
  BY DEF Flags

LEMMA MoveStart == InitMoves => MoveInv
  <1> SUFFICES ASSUME InitMoves PROVE MoveInv
    OBVIOUS
  <1>1. /\ NoFlags \in Flags /\ NoFlags.processingMovement = FALSE
        /\ NoFlags.previousOnGround = FALSE
    BY DEF Flags, NoFlags
  <1>2. TypeOKMoves
    BY <1>1 DEF InitMoves, TypeOKMoves, Places, MoveTypes
  <1>3. HearingInv
    BY <1>1 DEF InitMoves, HearingInv
  <1>4. PlaceInv
    BY <1>1 DEF InitMoves, PlaceInv, TeleportSticks
  <1> QED BY <1>2, <1>3, <1>4 DEF MoveInv

\* Each step of the hooks and of the engine preserves the invariants.
LEMMA MoveStep == MoveInv /\ [NextMoves]_moveVars => MoveInv'
  <1> SUFFICES ASSUME MoveInv, [NextMoves]_moveVars PROVE MoveInv'
    OBVIOUS
  <1> USE DEF MoveInv, TypeOKMoves, HearingInv, PlaceInv, TeleportSticks, engine, places,
              hearing, typesHeard, heardVars, HearType
  <1>1. CASE PhysicsSimulate
    BY <1>1 DEF PhysicsSimulate
  <1>2. CASE SetupMove
    BY <1>2 DEF SetupMove
  <1>3. CASE OnProcessMovement
    <2> DEFINE fl == [flags EXCEPT !.duckBugged = FALSE, !.processingMovement = TRUE,
                                   !.walkMoved = FALSE, !.takeoffFromLadder = FALSE,
                                   !.collidingWithWorld = FALSE]
    <2>1. /\ fl \in Flags /\ fl.processingMovement = TRUE
          /\ fl.previousOnGround = flags.previousOnGround
      BY DEF Flags
    <2>2. /\ flags.previousOnGround \in BOOLEAN /\ phase = "set up" /\ phase' = "processed"
          /\ UNCHANGED <<engine, lastKnownMoveType, places, typesHeard>>
          /\ IF flags.previousOnGround # onGround THEN GroundChanged(fl, onGround)
             ELSE flags' = fl /\ UNCHANGED hearing
      BY <1>3 DEF OnProcessMovement, Flags
    <2>3. CASE flags.previousOnGround # onGround
      <3> HIDE DEF fl
      <3>1. GroundChanged(fl, onGround)
        BY <2>2, <2>3
      <3>4. flags.previousOnGround = ~onGround
        BY <2>2, <2>3
      <3>5. heard = (~onGround \/ pushedOff)
        BY <2>2, <3>4
      <3>2. /\ flags' \in Flags /\ flags'.processingMovement = TRUE
            /\ heard' = onGround /\ pushedOff' = FALSE /\ toldTwice' = FALSE
        BY <2>1, <3>1, <3>5, GroundHeard
      <3>3. /\ phase = "set up" /\ phase' = "processed"
            /\ UNCHANGED <<engine, lastKnownMoveType, places, typesHeard>>
        BY <2>2
      <3> QED BY <3>2, <3>3
    <2>4. CASE flags.previousOnGround = onGround
      BY <2>1, <2>2, <2>4
    <2> QED BY <2>3, <2>4
  <1>4. CASE WalkMove
    BY <1>4, FlagSet DEF WalkMove
  <1>5. CASE TryPlayerMove
    BY <1>5, FlagSet DEF TryPlayerMove, Nowhere, Places
  <1>6. CASE WaterMove
    BY <1>6, FlagSet DEF WaterMove
  <1>7. CASE Duck
    <2>1. (~flags.processingDuck) \in BOOLEAN
      OBVIOUS
    <2> QED BY <1>7, <2>1, FlagSet DEF Duck
  <1>8. ASSUME NEW ground \in BOOLEAN, CategorizePosition(ground)
        PROVE  MoveInv'
    <2>1. CASE flags.ignoreNextCategorizePosition
      BY <1>8, <2>1, FlagSet DEF CategorizePosition
    <2>2. CASE ~flags.ignoreNextCategorizePosition /\ onGround = ground
      BY <1>8, <2>2 DEF CategorizePosition
    <2>3. CASE ~flags.ignoreNextCategorizePosition /\ onGround # ground
      <3>1. /\ GroundChanged(flags, ground) /\ phase = "processed" /\ onGround' = ground
            /\ heard = (~ground \/ pushedOff)
            /\ UNCHANGED <<phase, moveType, lastKnownMoveType, places, typesHeard>>
        BY <1>8, <2>3 DEF CategorizePosition
      <3>2. /\ flags' \in Flags /\ flags'.processingMovement = flags.processingMovement
            /\ heard' = ground /\ pushedOff' = FALSE /\ toldTwice' = FALSE
        BY <3>1, GroundHeard
      <3> QED BY <3>1, <3>2
    <2> QED BY <2>1, <2>2, <2>3
  <1>9. CASE OnJumpLegacy
    <2> DEFINE perf == ~flags.takeoffFromLadder /\ ~flags.oldWalkMoved
               fl == [flags EXCEPT !.inPerf = perf]
    <2>1. /\ fl \in Flags /\ fl.processingMovement = flags.processingMovement
          /\ fl.previousOnGround = flags.previousOnGround
      <3>1. perf \in BOOLEAN
        OBVIOUS
      <3> HIDE DEF perf
      <3> QED BY <3>1, FlagSet
    <2>2. /\ phase = "processed" /\ onGround /\ ~onGround' /\ onGround' \in BOOLEAN
          /\ UNCHANGED <<phase, moveType, lastKnownMoveType, places, typesHeard>>
          /\ flags' = RegisterTakeoff(fl, TRUE, FALSE) /\ Hear(FALSE)
      BY <1>9 DEF OnJumpLegacy
    <2> HIDE DEF fl
    <2>3. /\ flags' \in Flags /\ flags'.processingMovement = flags.processingMovement
          /\ flags'.previousOnGround = flags.previousOnGround
      BY <2>1, <2>2, TakeoffFlags
    <2> QED BY <2>2, <2>3 DEF Hear
  <1>10. CASE LadderMove
    <2>1. /\ flags' \in Flags /\ flags'.processingMovement = flags.processingMovement
          /\ flags'.previousOnGround = flags.previousOnGround
      <3>1. CASE moveType = "ladder"
        <4>1. PICK jumped \in BOOLEAN : flags' = RegisterTakeoff(flags, jumped, TRUE)
          BY <1>10, <3>1 DEF LadderMove
        <4> QED BY <4>1, TakeoffFlags
      <3>2. CASE moveType = "walk" /\ onGround
        BY <1>10, <3>2 DEF LadderMove, GrabLadder
      <3>3. CASE moveType = "walk" /\ ~onGround
        BY <1>10, <3>3, LandingFlags DEF LadderMove, GrabLadder
      <3> QED BY <1>10, <3>1, <3>2, <3>3 DEF LadderMove
    <2>2. /\ phase = "processed" /\ UNCHANGED <<phase, onGround, lastKnownMoveType, places, hearing>>
          /\ moveType' \in MoveTypes /\ heardType' \in MoveTypes /\ unheardLadder' \in BOOLEAN
          /\ heardType' = moveType' \/ (moveType' = "ladder" /\ unheardLadder')
      BY <1>10 DEF LadderMove, GrabLadder, MoveTypes
    <2> QED BY <2>1, <2>2
  <1>11. ASSUME NEW pushed \in BOOLEAN, OnProcessMovementPost(pushed)
         PROVE  MoveInv'
    <2>1. onGround' = (onGround /\ ~pushed) /\ onGround' \in BOOLEAN
      BY <1>11 DEF OnProcessMovementPost
    <2>2. /\ flags' \in Flags /\ flags'.processingMovement = FALSE
          /\ flags'.previousOnGround = onGround'
      BY <1>11, <2>1, EndFlags DEF OnProcessMovementPost
    <2> QED BY <1>11, <2>1, <2>2 DEF OnProcessMovementPost
  <1>12. CASE FinishMove \/ PhysicsSimulatePost
    <2>1. CASE FinishMove
      BY <2>1 DEF FinishMove
    <2>2. CASE PhysicsSimulatePost
      BY <2>2 DEF PhysicsSimulatePost
    <2> QED BY <1>12, <2>1, <2>2
  <1>13. ASSUME NEW place \in Places, Teleport(place) PROVE MoveInv'
    BY <1>13 DEF Teleport, OnTeleport
  <1>14. ASSUME NEW place \in Places, UpdatePlayerPostTouch(place) PROVE MoveInv'
    BY <1>14 DEF UpdatePlayerPostTouch
  <1>15. ASSUME NEW place \in Places, phase \in {"idle", "processed"}, SetOrigin(place)
         PROVE  MoveInv'
    BY <1>13, <1>15 DEF SetOrigin
  <1>16. ASSUME NEW type \in MoveTypes, SetMoveType(type) \/ EngineSetsMoveType(type)
         PROVE  MoveInv'
    <2>1. CASE SetMoveType(type)
      BY <2>1 DEF SetMoveType
    <2>2. CASE EngineSetsMoveType(type)
      BY <2>2 DEF EngineSetsMoveType
    <2> QED BY <1>16, <2>1, <2>2
  <1>17. CASE GroundBetweenMoves
    BY <1>17 DEF GroundBetweenMoves
  <1>18. CASE ResetMovement
    BY <1>18 DEF ResetMovement, NoFlags, Flags
  <1>19. CASE UNCHANGED moveVars
    BY <1>19 DEF moveVars
  <1> QED BY <1>1, <1>2, <1>3, <1>4, <1>5, <1>6, <1>7, <1>8, <1>9, <1>10, <1>11, <1>12, <1>13,
             <1>14, <1>15, <1>16, <1>17, <1>18, <1>19 DEF NextMoves

LEMMA MoveInvariant == SpecMoves => []MoveInv
  BY MoveStart, MoveStep, PTL DEF SpecMoves

\* Movement never leaves its state space, whatever the engine does within a move.
THEOREM MovesTyped == SpecMoves => []TypeOKMoves
  BY MoveInvariant, PTL DEF MoveInv

\* GroundIsHeard, for any number of ticks and moves: during a move and when it
\* ends the services know what the player stands on, but for an upward push that
\* ended a move; nothing is told twice; and they know how he moves, but for a
\* ladder he took from the ground.
THEOREM HeardGround == SpecMoves => []GroundIsHeard
  <1>1. MoveInv => GroundIsHeard
    BY DEF MoveInv, HearingInv, GroundIsHeard
  <1> QED BY <1>1, MoveInvariant, PTL

\* TeleportSticks: no teleport is undone by the end of the move it came in.
THEOREM TeleportsStick == SpecMoves => []TeleportSticks
  BY MoveInvariant, PTL DEF MoveInv, PlaceInv

(***************************************************************************)
(* Saved locations: the clock of a run shows times of that run only.       *)
(***************************************************************************)

Pawns  == [alive : BOOLEAN, origin : Place,
           moveType : {"walk", "ladder", "noclip", "none"}, inNoclip : BOOLEAN]
Timers == [running : BOOLEAN, time : Time, paused : BOOLEAN, onLadder : BOOLEAN]

\* A time that the run had, or the start of it.
OfThisRun(time) == 0 <= time /\ time <= age

\* Every time that may come back onto the clock, wherever it is kept, is one of
\* this run.
KeptTimes ==
    /\ OfThisRun(timer.time)
    /\ \A i \in 1 .. Len(checkpoints) : OfThisRun(checkpoints[i].time)
    /\ undoTeleportData # NoLocation => OfThisRun(undoTeleportData.time)

CurrentExists == checkpoints # <<>> => currentCpIndex \in 0 .. Len(checkpoints) - 1

LocationInv == TypeOKLocations /\ KeptTimes /\ CurrentExists

LEMMA HereType ==
    ASSUME NEW time \in Time, pawn \in Pawns
    PROVE  /\ Here(time) \in Location /\ Here(time).time = time
           /\ Here(time) # NoLocation
  <1>1. Here(time) \in Location /\ Here(time).time = time
    BY DEF Here, Location, Pawns
  <1> QED BY <1>1, NoLocationAssumption

\* A teleport writes no time but that of its location onto the clock, and
\* remembers none but the clock's.
LEMMA TeleportKeeps ==
    ASSUME LocationInv, NEW location \in Location, OfThisRun(location.time),
           NEW respawn \in BOOLEAN, DoTeleport(location, respawn)
    PROVE  /\ pawn' \in Pawns /\ timer' \in Timers /\ tpCount' \in Nat
           /\ teleportOnGround' \in BOOLEAN
           /\ OfThisRun(timer'.time)
           /\ undoTeleportData' \in Location /\ OfThisRun(undoTeleportData'.time)
           /\ UNCHANGED <<tas, checkpoints, customStart, age>>
  <1> USE DEF LocationInv, TypeOKLocations, Pawns, Timers, OfThisRun, Time
  <1>1. pawn \in Pawns /\ timer \in Timers /\ location.origin \in Place /\ location.time \in Int
        /\ location.onLadder \in BOOLEAN /\ OfThisRun(timer.time) /\ age \in Nat
    BY DEF Location, KeptTimes
  <1>2. undoTeleportData' \in Location /\ OfThisRun(undoTeleportData'.time)
    <2> DEFINE time == IF respawn THEN 0 ELSE timer.time
    <2>1. time \in Time /\ OfThisRun(time)
      BY <1>1
    <2>2. undoTeleportData' = Here(time)
      BY DEF DoTeleport
    <2> QED BY <1>1, <2>1, <2>2, HereType
  <1>3. pawn' \in Pawns
    <2>1. pawn' = [pawn EXCEPT !.inNoclip = FALSE, !.origin = location.origin,
                      !.moveType = IF location.onLadder /\ ~timer.paused THEN "ladder" ELSE @]
      BY DEF DoTeleport
    <2> QED BY <1>1, <2>1
  <1>4. timer' \in Timers /\ OfThisRun(timer'.time)
    <2> DEFINE timed == IF pawn.origin = location.origin /\ ~respawn
                        THEN SetTime(timer, location.time) ELSE timer
    <2>1. timed \in Timers /\ OfThisRun(timed.time)
      <3>1. (location.time > 0) \in BOOLEAN
        BY <1>1
      <3>2. \A b \in BOOLEAN, t \in Int :
               LET set == [timer EXCEPT !.time = t, !.running = b]
               IN  set \in Timers /\ set.time = t
        BY <1>1
      <3>3. SetTime(timer, location.time) \in Timers
            /\ SetTime(timer, location.time).time = location.time
        BY <1>1, <3>1, <3>2 DEF SetTime
      <3> QED BY <1>1, <3>3
    <2>2. timer' = [timed EXCEPT !.onLadder = IF timer.paused THEN location.onLadder ELSE @]
      BY DEF DoTeleport
    <2> HIDE DEF timed
    <2> QED BY <1>1, <2>1, <2>2
  <1>5. tpCount' \in Nat /\ teleportOnGround' \in BOOLEAN
    BY DEF DoTeleport, OneMore
  <1> QED BY <1>2, <1>3, <1>4, <1>5 DEF DoTeleport

LEMMA LocationStart == InitLocations => LocationInv
  <1> SUFFICES ASSUME InitLocations PROVE LocationInv
    OBVIOUS
  <1>1. pawn \in Pawns /\ timer \in Timers /\ timer.time = 0
    BY DEF InitLocations, Pawns, Timers, Time
  <1>2. checkpoints \in Seq(Location) /\ Len(checkpoints) = 0 /\ checkpoints = <<>>
    BY DEF InitLocations
  <1>3. TypeOKLocations
    BY <1>1, <1>2 DEF InitLocations, TypeOKLocations, Pawns, Timers
  <1>4. KeptTimes /\ CurrentExists
    BY <1>1, <1>2 DEF InitLocations, KeptTimes, CurrentExists, OfThisRun
  <1> QED BY <1>3, <1>4 DEF LocationInv

LEMMA LocationStep == LocationInv /\ [NextLocations]_locationVars => LocationInv'
  <1> SUFFICES ASSUME LocationInv, [NextLocations]_locationVars PROVE LocationInv'
    OBVIOUS
  <1> USE DEF LocationInv, TypeOKLocations, KeptTimes, CurrentExists, OfThisRun, locations
  <1>0. /\ pawn \in Pawns /\ timer \in Timers /\ timer.time \in Int
        /\ checkpoints \in Seq(Location) /\ age \in Nat
        /\ \A i \in 1 .. Len(checkpoints) : checkpoints[i] \in Location
    BY DEF Pawns, Timers, Time
  <1>1. CASE SetCheckpoint
    <2>1. Here(timer.time) \in Location /\ Here(timer.time).time = timer.time
      BY <1>0, HereType DEF Time
    <2>2. /\ checkpoints' \in Seq(Location) /\ Len(checkpoints') = Len(checkpoints) + 1
          /\ \A i \in 1 .. Len(checkpoints) : checkpoints'[i] = checkpoints[i]
          /\ checkpoints'[Len(checkpoints) + 1] = Here(timer.time)
      BY <1>1, <2>1 DEF SetCheckpoint
    <2>3. \A i \in 1 .. Len(checkpoints') : OfThisRun(checkpoints'[i].time)
      BY <1>0, <2>1, <2>2
    <2> QED BY <1>1, <2>2, <2>3 DEF SetCheckpoint
  <1>2. ASSUME NEW index \in 0 .. Len(checkpoints) - 1, TeleportTo(index)
        PROVE  LocationInv'
    <2>1. CASE tas
      <3>1. index + 1 \in 1 .. Len(checkpoints)
        BY <1>0, <1>2
      <3>2. /\ DoTeleport(checkpoints[index + 1], FALSE) /\ currentCpIndex' = index
            /\ checkpoints[index + 1] \in Location
            /\ OfThisRun(checkpoints[index + 1].time)
        BY <1>0, <1>2, <2>1, <3>1 DEF TeleportTo
      <3>3. /\ pawn' \in Pawns /\ timer' \in Timers /\ tpCount' \in Nat
            /\ teleportOnGround' \in BOOLEAN /\ OfThisRun(timer'.time)
            /\ undoTeleportData' \in Location /\ OfThisRun(undoTeleportData'.time)
            /\ UNCHANGED <<tas, checkpoints, customStart, age>>
        BY <3>2, TeleportKeeps
      <3> QED BY <1>0, <1>2, <3>2, <3>3 DEF Pawns, Timers
    <2>2. CASE ~tas
      BY <1>2, <2>2 DEF TeleportTo
    <2> QED BY <2>1, <2>2
  <1>3. CASE TpToCheckpoint \/ TpToPrevCp \/ TpToNextCp
    <2>1. checkpoints # <<>> /\ currentCpIndex \in 0 .. Len(checkpoints) - 1
      BY <1>3 DEF TpToCheckpoint, TpToPrevCp, TpToNextCp, TeleportTo
    <2> QED BY <1>0, <1>2, <1>3, <2>1 DEF TpToCheckpoint, TpToPrevCp, TpToNextCp
  <1>4. CASE UndoTeleport
    <2>1. /\ DoTeleport(undoTeleportData, FALSE) /\ undoTeleportData \in Location
          /\ OfThisRun(undoTeleportData.time) /\ UNCHANGED currentCpIndex
      BY <1>4 DEF UndoTeleport
    <2> QED BY <2>1, TeleportKeeps DEF Pawns, Timers
  <1>5. CASE SetStartPosition
    BY <1>5 DEF SetStartPosition
  <1>6. CASE ClearStartPosition
    BY <1>6 DEF ClearStartPosition
  <1>7. ASSUME NEW stored \in StartZone \cup {NoLocation}, LoadStartPosition(stored)
        PROVE  LocationInv'
    BY <1>7 DEF LoadStartPosition
  <1>8. CASE Restart
    <2> DEFINE landed == [pawn EXCEPT !.inNoclip = FALSE,
                                      !.moveType = IF @ = "noclip" THEN "walk" ELSE @]
               left == [Here(0) EXCEPT !.onLadder = landed.moveType = "ladder"]
    <2>1. landed \in Pawns
      BY <1>0 DEF Pawns
    <2>2. \A place \in Place : [landed EXCEPT !.origin = place] \in Pawns
      BY <2>1 DEF Pawns
    <2>3. \A b \in BOOLEAN : /\ [timer EXCEPT !.running = FALSE, !.onLadder = b] \in Timers
                             /\ [timer EXCEPT !.running = FALSE, !.onLadder = b].time = timer.time
      BY <1>0 DEF Timers
    <2>4. [timer EXCEPT !.running = FALSE] \in Timers
          /\ [timer EXCEPT !.running = FALSE].time = timer.time
      BY <1>0 DEF Timers
    <2>5. left \in Location /\ left.time = 0 /\ left # NoLocation
      <3>1. Here(0) \in Location /\ Here(0).time = 0
        BY <1>0, HereType DEF Time
      <3>2. (landed.moveType = "ladder") \in BOOLEAN
        OBVIOUS
      <3> HIDE DEF landed
      <3>3. left \in Location /\ left.time = 0
        BY <3>1, <3>2 DEF Location
      <3> QED BY <3>3, NoLocationAssumption
    <2>6. CASE customStart = NoLocation
      BY <1>8, <2>2, <2>4, <2>6 DEF Restart, Pawns, Timers
    <2>7. CASE customStart # NoLocation
      <3>1. customStart \in Place
        BY <2>7, LocationsAssumption
      <3>2. pawn' \in Pawns
        BY <1>8, <2>2, <2>7, <3>1 DEF Restart
      <3>3. timer' = [timer EXCEPT !.running = FALSE, !.onLadder = @ /\ ~timer.paused]
        BY <1>8, <2>7 DEF Restart
      <3>4. timer' \in Timers /\ timer'.time = timer.time
        BY <1>0, <3>3 DEF Timers
      <3>5. undoTeleportData' = left /\ tpCount' \in Nat /\ teleportOnGround' \in BOOLEAN
            /\ UNCHANGED <<tas, checkpoints, currentCpIndex, customStart, age>>
        BY <1>8, <2>7 DEF Restart, OneMore
      <3> QED BY <2>5, <3>2, <3>4, <3>5 DEF Pawns, Timers
    <2> QED BY <2>6, <2>7
  <1>9. ASSUME NEW to \in Place, Move(to) PROVE LocationInv'
    BY <1>0, <1>9 DEF Move, Pawns
  <1>t. ASSUME timer' \in Timers, timer'.time = timer.time + 1, age' = age + 1,
               UNCHANGED <<pawn, tas, locations, customStart>>
        PROVE  LocationInv'
    <2>1. \A i \in 1 .. Len(checkpoints) : checkpoints[i].time \in Int
      BY <1>0 DEF Location, Time
    <2>2. undoTeleportData # NoLocation => undoTeleportData.time \in Int
      BY DEF Location, Time
    <2> QED BY <1>0, <1>t, <2>1, <2>2 DEF Timers
  <1>10. CASE RunTick
    <2>1. CASE pawn.inNoclip \/ pawn.moveType = "noclip"
      BY <1>0, <1>10, <2>1 DEF RunTick, Pawns, Timers
    <2>2. CASE ~(pawn.inNoclip \/ pawn.moveType = "noclip")
      <3>1. timer' = [timer EXCEPT !.time = @ + 1] /\ age' = age + 1
            /\ UNCHANGED <<pawn, tas, locations, customStart>>
        BY <1>10, <2>2 DEF RunTick
      <3>2. timer' \in Timers /\ timer'.time = timer.time + 1
        BY <1>0, <3>1 DEF Timers, Time
      <3> QED BY <1>t, <3>1, <3>2
    <2> QED BY <2>1, <2>2
  <1>11. CASE StartRun
    <2>1. timer' \in Timers /\ timer'.time = 0
      <3>1. timer' = [timer EXCEPT !.running = TRUE, !.time = 0]
        BY <1>11 DEF StartRun
      <3>2. timer \in Timers
        BY <1>0
      <3>3. 0 \in Time
        BY DEF Time
      <3> QED BY <3>1, <3>2, <3>3 DEF Timers
    <2>2. /\ checkpoints' = <<>> /\ currentCpIndex' = 0 /\ tpCount' = 0 /\ age' = 0
          /\ undoTeleportData' = NoLocation /\ teleportOnGround' = FALSE
          /\ UNCHANGED <<pawn, tas, customStart>>
      BY <1>11 DEF StartRun, ResetCheckpoints
    <2>3. checkpoints' \in Seq(Location) /\ Len(checkpoints') = 0
      BY <2>2
    <2>4. TypeOKLocations'
      BY <1>0, <2>1, <2>2, <2>3 DEF Timers
    <2>5. KeptTimes' /\ CurrentExists'
      BY <2>1, <2>2, <2>3
    <2> QED BY <2>4, <2>5
  <1>12. CASE StopRun
    BY <1>0, <1>12 DEF StopRun, Timers
  <1>13. CASE Pause
    BY <1>0, <1>13 DEF Pause, Timers, Pawns
  <1>14. CASE Resume
    BY <1>0, <1>14 DEF Resume, Timers, Pawns
  <1>15. CASE ToggleTAS
    BY <1>0, <1>15 DEF ToggleTAS, Timers
  <1>16. CASE ToggleNoclip
    BY <1>0, <1>16 DEF ToggleNoclip, Pawns
  <1>17. CASE DieOrSpawn
    BY <1>0, <1>17 DEF DieOrSpawn, Pawns, Timers
  <1>18. CASE ResetLocations
    <2>1. pawn' \in Pawns /\ timer' \in Timers /\ timer'.time = 0
      <3>1. timer' = [running |-> FALSE, time |-> 0, paused |-> FALSE, onLadder |-> FALSE]
        BY <1>18 DEF ResetLocations
      <3>2. pawn' = [pawn EXCEPT !.alive = FALSE, !.inNoclip = FALSE, !.moveType = "none"]
        BY <1>18 DEF ResetLocations
      <3>3. pawn' \in Pawns
        BY <1>0, <3>2 DEF Pawns
      <3>4. timer' \in Timers /\ timer'.time = 0
        BY <3>1 DEF Timers, Time
      <3> QED BY <3>3, <3>4
    <2>2. /\ checkpoints' = <<>> /\ currentCpIndex' = 0 /\ tpCount' = 0 /\ age' = 0
          /\ undoTeleportData' = NoLocation /\ teleportOnGround' = FALSE
          /\ tas' = FALSE /\ customStart' = NoLocation
      BY <1>18 DEF ResetLocations, ResetCheckpoints
    <2>3. checkpoints' \in Seq(Location) /\ Len(checkpoints') = 0
      BY <2>2
    <2>4. pawn' \in Pawns /\ timer' \in Timers
      BY <2>1
    <2>5. TypeOKLocations'
      BY <2>2, <2>3, <2>4 DEF Pawns, Timers
    <2>6. KeptTimes' /\ CurrentExists'
      BY <2>1, <2>2, <2>3
    <2> QED BY <2>5, <2>6
  <1>19. CASE UNCHANGED locationVars
    BY <1>19 DEF locationVars
  <1>20. CASE FinishRun
    <2>1. timer' = [timer EXCEPT !.running = FALSE, !.time = @ + 1] /\ age' = age + 1
          /\ UNCHANGED <<pawn, tas, locations, customStart>>
      BY <1>20 DEF FinishRun
    <2>2. timer.time + 1 \in Time
      BY <1>0 DEF Time
    <2>3. timer' \in Timers /\ timer'.time = timer.time + 1
      BY <1>0, <2>1, <2>2 DEF Timers
    <2> QED BY <1>t, <2>1, <2>3
  <1> QED BY <1>1, <1>3, <1>4, <1>5, <1>6, <1>7, <1>8, <1>9, <1>10, <1>11, <1>12, <1>13, <1>14,
             <1>15, <1>16, <1>17, <1>18, <1>19, <1>20 DEF NextLocations

LEMMA LocationInvariant == SpecLocations => []LocationInv
  BY LocationStart, LocationStep, PTL DEF SpecLocations

THEOREM LocationsTyped == SpecLocations => []TypeOKLocations
  BY LocationInvariant, PTL DEF LocationInv

\* TimesAreOfThisRun, for any map, any number of saved locations and a run of
\* any length.
THEOREM OwnTimes == SpecLocations => []TimesAreOfThisRun
  <1>1. LocationInv => TimesAreOfThisRun
    BY DEF LocationInv, KeptTimes, CurrentExists, OfThisRun, TimesAreOfThisRun
  <1> QED BY <1>1, LocationInvariant, PTL

(***************************************************************************)
(* Tick rates: the engine is told of every half tick in time.              *)
(***************************************************************************)

\* A slot is free for the tick to come, after a simulation and before the next.
FreeSlot ==
    /\ simulation \in {"before", "during"} => \E i \in 1 .. Slots : when[i] <= 0
    /\ simulation = "after" => \E i \in 1 .. Slots : when[i] <= 1

HalfInv ==
    /\ when \in [1 .. Slots -> Int]
    /\ simulation \in {"before", "during", "after"}
    /\ FreeSlot
    /\ HalvesAreSimulated

LEMMA HalfStart == InitTicks => HalfInv
  <1> SUFFICES ASSUME InitTicks PROVE HalfInv
    OBVIOUS
  <1>1. when \in [1 .. Slots -> Int] /\ simulation = "before"
    BY DEF InitTicks, Past
  <1>2. when[1] <= 0 /\ 1 \in 1 .. Slots
    BY DEF InitTicks, Past, Slots
  <1> QED BY <1>1, <1>2 DEF HalfInv, FreeSlot, HalvesAreSimulated

\* The slots ahead: times again, and the first free one takes the next tick.
LEMMA AheadTakes ==
    ASSUME when \in [1 .. Slots -> Int], \E i \in 1 .. Slots : when[i] <= 0
    PROVE  /\ Ahead(1) \in [1 .. Slots -> Int]
           /\ \E i \in 1 .. Slots : Ahead(1)[i] = 1
  <1>1. /\ 1 .. Slots = {1, 2, 3, 4}
        /\ when[1] \in Int /\ when[2] \in Int /\ when[3] \in Int /\ when[4] \in Int
    BY DEF Slots
  <1>2. Ahead(1) \in [1 .. Slots -> Int]
    BY <1>1 DEF Ahead, Taken, After
  <1>3. when[1] <= 1 => Ahead(1)[1] = 1
    BY <1>1 DEF Ahead, Taken
  <1>4. when[1] > 1 /\ when[2] <= 1 => Ahead(1)[2] = 1
    BY <1>1 DEF Ahead, Taken, After
  <1>5. when[1] > 1 /\ when[2] > 1 /\ when[3] <= 1 => Ahead(1)[3] = 1
    BY <1>1 DEF Ahead, Taken, After
  <1>6. ASSUME when[1] > 1, when[2] > 1, when[3] > 1, when[4] <= 1
        PROVE  Ahead(1)[4] = 1
    <2>1. After(1, 1) = 1 /\ After(2, 1) = 1 /\ After(3, 1) = 1 /\ Taken(4, 1) = 1
      BY <1>1, <1>6 DEF After, Taken
    <2>2. Ahead(1) = <<Taken(1, 1), Taken(2, 1), Taken(3, 1), 1>>
      BY <2>1 DEF Ahead
    <2>3. Ahead(1)[4] = 1 /\ 4 \in 1 .. Slots
      BY <1>1, <2>2
    <2> QED BY <2>3
  <1>7. when[1] <= 1 \/ when[2] <= 1 \/ when[3] <= 1 \/ when[4] <= 1
    BY <1>1
  <1>8. \E i \in 1 .. Slots : Ahead(1)[i] = 1
    BY <1>1, <1>3, <1>4, <1>5, <1>6, <1>7
  <1> QED BY <1>2, <1>8

\* Of a set of slots one is the first.
LEMMA FirstSlot ==
    ASSUME NEW S, S \subseteq 1 .. Slots, S # {}
    PROVE  \E i \in S : \A j \in S : i <= j
  <1>1. 1 .. Slots = {1, 2, 3, 4}
    BY DEF Slots
  <1>2. CASE 1 \in S
    BY <1>1, <1>2
  <1>3. CASE 1 \notin S /\ 2 \in S
    BY <1>1, <1>3
  <1>4. CASE 1 \notin S /\ 2 \notin S /\ 3 \in S
    BY <1>1, <1>4
  <1>5. CASE S = {4}
    BY <1>5
  <1> QED BY <1>1, <1>2, <1>3, <1>4, <1>5

LEMMA HalfStep == HalfInv /\ [NextTicks]_tickVars => HalfInv'
  <1> SUFFICES ASSUME HalfInv, [NextTicks]_tickVars PROVE HalfInv'
    OBVIOUS
  <1>1. CASE NextTick
    <2>1. /\ simulation' = "before" /\ simulation \in {"before", "after"}
          /\ when' = [i \in 1 .. Slots |-> IF when[i] > Past THEN when[i] - 1 ELSE Past]
      BY <1>1 DEF NextTick, HalfInv
    <2>2. when' \in [1 .. Slots -> Int]
      BY <2>1 DEF HalfInv, Past
    <2>3. PICK i \in 1 .. Slots : when[i] <= 1
      BY <2>1 DEF HalfInv, FreeSlot
    <2>4. when'[i] <= 0
      BY <2>1, <2>3 DEF HalfInv, Past
    <2> QED BY <2>1, <2>2, <2>4 DEF HalfInv, FreeSlot, HalvesAreSimulated
  <1>2. ASSUME NEW r \in Rates, SwitchRate(r) PROVE HalfInv'
    BY <1>2 DEF SwitchRate, HalfInv, FreeSlot, HalvesAreSimulated
  <1>3. ASSUME NEW cmd \in Moves, SimulateTick(cmd) PROVE HalfInv'
    <2>1. /\ simulation = "before" /\ simulation' = "during" /\ UNCHANGED <<rate, tick>>
          /\ moves' = [j \in DOMAIN cmd |-> Halved(cmd[j])]
      BY <1>3 DEF SimulateTick, OnSetupMove
    <2> DEFINE usable == {i \in 1 .. Slots : when[i] <= 0}
    <2>2. usable # {} /\ usable \subseteq 1 .. Slots
      BY <2>1 DEF HalfInv, FreeSlot
    <2>3. PICK first \in usable : first = CHOOSE i \in usable : \A j \in usable : i <= j
      BY <2>2, FirstSlot
    <2>4. when' = IF ~doubleTickrate THEN when ELSE [when EXCEPT ![first] = 0]
      BY <1>3, <2>2, <2>3 DEF SimulateTick, OnPhysicsSimulate
    <2>5. when' \in [1 .. Slots -> Int] /\ when'[first] <= 0
          /\ (doubleTickrate => when'[first] = 0)
      BY <2>3, <2>4 DEF HalfInv
    <2>6. (doubleTickrate' <=> doubleTickrate) /\ (doubleTickrate => Split')
      BY <2>1, <2>3, <2>5 DEF doubleTickrate, Split
    <2>7. \A j \in DOMAIN cmd :
             LET m == Halved(cmd[j])
             IN  m.button # "attack" /\ m.when # 0 => m.when = Half /\ doubleTickrate
      <3> SUFFICES ASSUME NEW j \in DOMAIN cmd
                   PROVE  LET m == Halved(cmd[j])
                          IN  m.button # "attack" /\ m.when # 0 => m.when = Half /\ doubleTickrate
        OBVIOUS
      <3>1. cmd[j] \in SubtickMove
        BY DEF Moves
      <3> QED BY <3>1 DEF Halved, SubtickMove, Half
    <2>8. \A j \in DOMAIN moves' : moves'[j].button # "attack" /\ moves'[j].when # 0 =>
             moves'[j].when = Half /\ doubleTickrate
      BY <2>1, <2>7
    <2> QED BY <2>1, <2>3, <2>5, <2>6, <2>8 DEF HalfInv, FreeSlot, HalvesAreSimulated
  <1>4. CASE SimulateTickPost
    <2>1. /\ simulation = "during" /\ simulation' = "after"
          /\ when' = IF doubleTickrate THEN Ahead(1) ELSE when
      BY <1>4 DEF SimulateTickPost, OnPhysicsSimulatePost
    <2>2. /\ when' \in [1 .. Slots -> Int]
          /\ \E i \in 1 .. Slots : when'[i] <= 1
      BY <2>1, AheadTakes DEF HalfInv, FreeSlot
    <2> QED BY <2>1, <2>2 DEF HalfInv, FreeSlot, HalvesAreSimulated
  <1>5. CASE UNCHANGED tickVars
    BY <1>5 DEF tickVars, HalfInv, FreeSlot, HalvesAreSimulated, doubleTickrate, Split
  <1> QED BY <1>1, <1>2, <1>3, <1>4, <1>5 DEF NextTicks

\* HalvesAreSimulated, for commands with any number of subtick moves: a mode
\* never finds the slots taken when it has to double a tick.
THEOREM HalvesSimulated == SpecTicks => []HalvesAreSimulated
  <1>1. HalfInv => HalvesAreSimulated
    BY DEF HalfInv
  <1> QED BY <1>1, HalfStart, HalfStep, PTL DEF SpecTicks

(***************************************************************************)
(* TriggerTouch: what a handler works on.                                  *)
(***************************************************************************)
TouchState == [trackers : Seq(Tracker), pushEvents : SUBSET PushEvent, inside : [Triggers -> Int]]

Moments == {1, 2}

LEMMA Fields ==
    ASSUME NEW s \in TouchState
    PROVE  s.trackers \in Seq(Tracker) /\ s.pushEvents \in SUBSET PushEvent /\ s.inside \in [Triggers -> Int]
BY DEF TouchState

NewTrackers(s, new) == [s EXCEPT !.trackers = new]

LEMMA WithTrackers ==
    ASSUME NEW s \in TouchState, NEW new \in Seq(Tracker)
    PROVE  /\ NewTrackers(s, new) \in TouchState /\ NewTrackers(s, new).trackers = new
           /\ NewTrackers(s, new).pushEvents = s.pushEvents
           /\ NewTrackers(s, new).inside = s.inside
BY DEF TouchState, NewTrackers

NewEvents(s, new) == [s EXCEPT !.pushEvents = new]

LEMMA WithEvents ==
    ASSUME NEW s \in TouchState, NEW new \in SUBSET PushEvent
    PROVE  /\ NewEvents(s, new) \in TouchState /\ NewEvents(s, new).pushEvents = new
           /\ NewEvents(s, new).trackers = s.trackers
           /\ NewEvents(s, new).inside = s.inside
BY DEF TouchState, NewEvents

NewInside(s, new) == [s EXCEPT !.inside = new]

LEMMA WithInside ==
    ASSUME NEW s \in TouchState, NEW new \in [Triggers -> Int]
    PROVE  /\ NewInside(s, new) \in TouchState /\ NewInside(s, new).inside = new
           /\ NewInside(s, new).trackers = s.trackers
           /\ NewInside(s, new).pushEvents = s.pushEvents
BY DEF TouchState, NewInside

LEMMA AddTyped ==
    ASSUME NEW s \in TouchState, NEW t \in Triggers, NEW condition, NEW now \in Moments
    PROVE  /\ AddPushEvent(s, t, condition, now) \in TouchState
           /\ AddPushEvent(s, t, condition, now).trackers = s.trackers
           /\ AddPushEvent(s, t, condition, now).inside = s.inside
<1> DEFINE event == [source |-> t, pushTime |-> now + Delay, applied |-> FALSE]
<1>1. t \in Pushes => s.pushEvents \cup {event} \in SUBSET PushEvent
    <2>1. t \in Pushes => event \in PushEvent
        BY TriggerAssumption DEF PushEvent, Moments
    <2> HIDE DEF event
    <2> QED BY <2>1, Fields
<1> HIDE DEF event
<1>2. AddPushEvent(s, t, condition, now) \in {s, NewEvents(s, s.pushEvents \cup {event})}
    BY DEF AddPushEvent, NewEvents, event
<1>3. t \notin Pushes => AddPushEvent(s, t, condition, now) = s
    BY DEF AddPushEvent
<1> QED BY <1>1, <1>2, <1>3, WithEvents

\* The timer is told of a start, of an end.
OneStart(inside, t) == [inside EXCEPT ![t] = @ + 1]
OneEnd(inside, t) == [inside EXCEPT ![t] = @ - 1]

LEMMA TellTyped ==
    ASSUME NEW s \in TouchState, NEW t \in Triggers, NEW now \in Moments
    PROVE  /\ OnMappingApiTriggerStartTouchPost(s, t, now) \in TouchState
           /\ OnMappingApiTriggerStartTouchPost(s, t, now).trackers = s.trackers
           /\ OnMappingApiTriggerStartTouchPost(s, t, now).inside = OneStart(s.inside, t)
           /\ OnMappingApiTriggerEndTouchPost(s, t, now) \in TouchState
           /\ OnMappingApiTriggerEndTouchPost(s, t, now).trackers = s.trackers
           /\ OnMappingApiTriggerEndTouchPost(s, t, now).inside = OneEnd(s.inside, t)
<1>1. /\ [s EXCEPT !.inside[t] = @ + 1] = NewInside(s, OneStart(s.inside, t))
      /\ [s EXCEPT !.inside[t] = @ - 1] = NewInside(s, OneEnd(s.inside, t))
    BY DEF TouchState, NewInside, OneStart, OneEnd
<1>2. /\ OneStart(s.inside, t) \in [Triggers -> Int]
      /\ OneEnd(s.inside, t) \in [Triggers -> Int]
    BY Fields DEF OneStart, OneEnd
<1>3. ASSUME NEW new \in [Triggers -> Int], NEW condition
      PROVE  LET r == AddPushEvent(NewInside(s, new), t, condition, now)
             IN  r \in TouchState /\ r.trackers = s.trackers /\ r.inside = new
    BY WithInside, AddTyped
<1> QED BY <1>1, <1>2, <1>3 DEF OnMappingApiTriggerStartTouchPost, OnMappingApiTriggerEndTouchPost

\* Where the tracker of a trigger is.
LEMMA PlaceIs ==
    ASSUME NEW s \in TouchState, NEW t \in Tracked(s)
    PROVE  /\ PlaceOf(s, t) \in 1 .. Len(s.trackers) /\ PlaceOf(s, t) \in DOMAIN s.trackers
           /\ TrackerOf(s, t) \in Tracker /\ TrackerOf(s, t).trigger = t /\ t \in Triggers
<1>1. \E i \in DOMAIN s.trackers : s.trackers[i].trigger = t
    BY DEF Tracked
<1>2. PlaceOf(s, t) \in DOMAIN s.trackers /\ s.trackers[PlaceOf(s, t)].trigger = t
    BY <1>1 DEF PlaceOf
<1>3. s.trackers \in Seq(Tracker)
    BY DEF TouchState
<1>4. s.trackers[PlaceOf(s, t)] \in Tracker /\ PlaceOf(s, t) \in 1 .. Len(s.trackers)
    BY <1>2, <1>3
<1> QED BY <1>2, <1>4 DEF TrackerOf, Tracker

LEMMA PutTyped ==
    ASSUME NEW s \in TouchState, NEW tracker \in Tracker
    PROVE  Put(s, tracker) \in TouchState
<1> DEFINE new == [i \in DOMAIN s.trackers |-> IF s.trackers[i].trigger = tracker.trigger THEN tracker
                                               ELSE s.trackers[i]]
<1>1. new \in Seq(Tracker)
    BY Fields
<1> HIDE DEF new
<1> QED BY <1>1, WithTrackers DEF Put, NewTrackers, new

LEMMA WithoutTyped ==
    ASSUME NEW s \in TouchState, NEW t
    PROVE  Without(s, t) \in TouchState
<1>1. CASE t \in Tracked(s)
    <2>1. s.trackers \in Seq(Tracker) /\ PlaceOf(s, t) \in 1 .. Len(s.trackers)
        BY <1>1, PlaceIs DEF TouchState
    <2>2. RemoveAt(s.trackers, PlaceOf(s, t)) \in Seq(Tracker)
        BY <2>1 DEF RemoveAt
    <2> QED BY <1>1, <2>2, WithTrackers DEF Without, NewTrackers
<1>2. CASE t \notin Tracked(s)
    BY <1>2, Fields, WithTrackers DEF Without, NewTrackers
<1> QED BY <1>1, <1>2

\* A trigger has one tracker; who was told of its start.
OneTracker(s) ==
    \A i, j \in DOMAIN s.trackers : s.trackers[i].trigger = s.trackers[j].trigger => i = j

Started(s) ==
    {t \in Tracked(s) : \E i \in DOMAIN s.trackers :
         s.trackers[i].trigger = t /\ s.trackers[i].mappingApiStartedTouch}

LEMMA SameTrackers ==
    ASSUME NEW s, NEW r, r.trackers = s.trackers
    PROVE  Tracked(r) = Tracked(s) /\ (OneTracker(r) <=> OneTracker(s)) /\ Started(r) = Started(s)
BY DEF Tracked, OneTracker, Started

LEMMA TrackerIs ==
    ASSUME NEW s \in TouchState, OneTracker(s), NEW t \in Tracked(s)
    PROVE  /\ \A i \in DOMAIN s.trackers : s.trackers[i].trigger = t => i = PlaceOf(s, t)
           /\ TrackerOf(s, t).mappingApiStartedTouch <=> t \in Started(s)
<1>1. PlaceOf(s, t) \in DOMAIN s.trackers /\ s.trackers[PlaceOf(s, t)].trigger = t
    BY PlaceIs DEF TrackerOf
<1>2. \A i \in DOMAIN s.trackers : s.trackers[i].trigger = t => i = PlaceOf(s, t)
    BY <1>1 DEF OneTracker
<1> QED BY <1>1, <1>2 DEF Started, TrackerOf

\* A tracker is changed, taken out, put at the end.
LEMMA PutIs ==
    ASSUME NEW s \in TouchState, OneTracker(s), NEW tracker \in Tracker, tracker.trigger \in Tracked(s),
           NEW r, r = Put(s, tracker)
    PROVE  /\ r \in TouchState /\ r.pushEvents = s.pushEvents /\ r.inside = s.inside
           /\ OneTracker(r) /\ Tracked(r) = Tracked(s) /\ Len(r.trackers) = Len(s.trackers)
           /\ tracker.mappingApiStartedTouch => Started(r) = Started(s) \cup {tracker.trigger}
           /\ ~tracker.mappingApiStartedTouch => Started(r) = Started(s) \ {tracker.trigger}
<1> DEFINE new == [i \in DOMAIN s.trackers |-> IF s.trackers[i].trigger = tracker.trigger THEN tracker
                                               ELSE s.trackers[i]]
<1>1. new \in Seq(Tracker) /\ DOMAIN new = DOMAIN s.trackers /\ Len(new) = Len(s.trackers)
    BY Fields
<1>2. \A i \in DOMAIN s.trackers :
          /\ new[i].trigger = s.trackers[i].trigger
          /\ new[i] = IF s.trackers[i].trigger = tracker.trigger THEN tracker ELSE s.trackers[i]
    OBVIOUS
<1> HIDE DEF new
<1>3. r \in TouchState /\ r.trackers = new /\ r.pushEvents = s.pushEvents /\ r.inside = s.inside
    BY <1>1, WithTrackers DEF Put, NewTrackers, new
<1>4. OneTracker(r) /\ Tracked(r) = Tracked(s)
    BY <1>1, <1>2, <1>3 DEF OneTracker, Tracked
<1>5. /\ tracker.mappingApiStartedTouch => Started(r) = Started(s) \cup {tracker.trigger}
      /\ ~tracker.mappingApiStartedTouch => Started(r) = Started(s) \ {tracker.trigger}
    <2>1. \E i \in DOMAIN s.trackers : s.trackers[i].trigger = tracker.trigger
        BY DEF Tracked
    <2> QED BY <1>1, <1>2, <1>3, <1>4, <2>1 DEF Started
<1> QED BY <1>1, <1>3, <1>4, <1>5

LEMMA RemovedIs ==
    ASSUME NEW T, NEW q \in Seq(T), NEW p \in 1 .. Len(q)
    PROVE  /\ RemoveAt(q, p) \in Seq(T) /\ Len(RemoveAt(q, p)) = Len(q) - 1
           /\ DOMAIN RemoveAt(q, p) = 1 .. Len(q) - 1
           /\ \A i \in 1 .. Len(q) - 1 : RemoveAt(q, p)[i] = IF i < p THEN q[i] ELSE q[i + 1]
<1> DEFINE a == SubSeq(q, 1, p - 1)
           b == SubSeq(q, p + 1, Len(q))
<1>1. a \in Seq(T) /\ Len(a) = p - 1 /\ \A i \in 1 .. p - 1 : a[i] = q[i]
    OBVIOUS
<1>2. b \in Seq(T) /\ Len(b) = Len(q) - p /\ \A i \in 1 .. Len(q) - p : b[i] = q[p + i]
    OBVIOUS
<1>3. RemoveAt(q, p) = a \o b
    BY DEF RemoveAt
<1> HIDE DEF a, b
<1>4. a \o b \in Seq(T) /\ Len(a \o b) = Len(a) + Len(b)
    BY <1>1, <1>2, ConcatProperties
<1>5. \A i \in 1 .. Len(a) + Len(b) : (a \o b)[i] = IF i <= Len(a) THEN a[i] ELSE b[i - Len(a)]
    BY <1>1, <1>2, ConcatProperties
<1>6. Len(a) + Len(b) = Len(q) - 1 /\ DOMAIN (a \o b) = 1 .. Len(q) - 1
    BY <1>1, <1>2, <1>4
<1>7. ASSUME NEW i \in 1 .. Len(q) - 1
      PROVE  (a \o b)[i] = IF i < p THEN q[i] ELSE q[i + 1]
    <2>1. CASE i < p
        BY <1>1, <1>5, <1>6, <2>1
    <2>2. CASE ~(i < p)
        <3>1. i - (p - 1) \in 1 .. Len(q) - p /\ p + (i - (p - 1)) = i + 1 /\ ~(i <= Len(a))
            BY <1>1, <2>2
        <3> QED BY <1>1, <1>2, <1>5, <1>6, <2>2, <3>1
    <2> QED BY <2>1, <2>2
<1> QED BY <1>3, <1>4, <1>6, <1>7

LEMMA WithoutIs ==
    ASSUME NEW s \in TouchState, OneTracker(s), NEW t, NEW r, r = Without(s, t)
    PROVE  /\ r \in TouchState /\ r.pushEvents = s.pushEvents /\ r.inside = s.inside
           /\ OneTracker(r) /\ Tracked(r) = Tracked(s) \ {t} /\ Started(r) = Started(s) \ {t}
           /\ Len(r.trackers) = IF t \in Tracked(s) THEN Len(s.trackers) - 1 ELSE Len(s.trackers)
<1>1. CASE t \notin Tracked(s)
    <2>1. r = s
        BY <1>1 DEF Without, TouchState
    <2> QED BY <1>1, <2>1 DEF Started
<1>2. CASE t \in Tracked(s)
    <2> DEFINE q == s.trackers
               p == PlaceOf(s, t)
               new == RemoveAt(q, p)
    <2>1. q \in Seq(Tracker) /\ p \in 1 .. Len(q) /\ Len(q) \in Nat /\ DOMAIN q = 1 .. Len(q)
        BY <1>2, PlaceIs, Fields
    <2>2. q[p].trigger = t /\ \A i \in DOMAIN q : q[i].trigger = t => i = p
        BY <1>2, TrackerIs, PlaceIs DEF TrackerOf
    <2> HIDE DEF q, p
    <2>3. /\ new \in Seq(Tracker) /\ Len(new) = Len(q) - 1 /\ DOMAIN new = 1 .. Len(q) - 1
          /\ \A i \in 1 .. Len(q) - 1 : new[i] = IF i < p THEN q[i] ELSE q[i + 1]
        BY <2>1, RemovedIs
    <2> HIDE DEF new
    <2>4. r \in TouchState /\ r.trackers = new /\ r.pushEvents = s.pushEvents /\ r.inside = s.inside
        BY <1>2, <2>3, WithTrackers DEF Without, NewTrackers, new, q, p
    <2>5. \A i \in DOMAIN new : \E j \in DOMAIN q : j # p /\ new[i] = q[j]
        BY <2>1, <2>3
    <2>6. ASSUME NEW j \in DOMAIN q, j # p
          PROVE  \E i \in DOMAIN new : new[i] = q[j]
        <3>1. CASE j < p
            BY <2>1, <2>3, <3>1
        <3>2. CASE j > p
            <4>1. j - 1 \in DOMAIN new /\ ~(j - 1 < p) /\ new[j - 1] = q[j - 1 + 1] /\ j - 1 + 1 = j
                BY <2>1, <2>3, <3>2
            <4> QED BY <4>1
        <3> QED BY <2>1, <2>6, <3>1, <3>2
    <2>7. OneTracker(r)
        <3>1. \A i, j \in DOMAIN q : q[i].trigger = q[j].trigger => i = j
            BY DEF OneTracker, q
        <3>2. ASSUME NEW i \in DOMAIN new, NEW j \in DOMAIN new, new[i].trigger = new[j].trigger
              PROVE  i = j
            <4> DEFINE From(k) == IF k < p THEN k ELSE k + 1
            <4>1. /\ From(i) \in DOMAIN q /\ new[i] = q[From(i)]
                  /\ From(j) \in DOMAIN q /\ new[j] = q[From(j)]
                BY <2>1, <2>3
            <4>2. From(i) = From(j)
                BY <3>1, <3>2, <4>1
            <4>3. i \in Int /\ j \in Int /\ p \in Int
                BY <2>1, <2>3
            <4> QED BY <4>2, <4>3
        <3> QED BY <2>4, <3>2 DEF OneTracker
    <2>8. Tracked(r) = Tracked(s) \ {t}
        BY <2>2, <2>4, <2>5, <2>6 DEF Tracked, q
    <2>9. Started(r) = Started(s) \ {t}
        BY <2>2, <2>4, <2>5, <2>6, <2>8 DEF Started, q
    <2> QED BY <1>2, <2>3, <2>4, <2>7, <2>8, <2>9 DEF q
<1> QED BY <1>1, <1>2

LEMMA AppendIs ==
    ASSUME NEW s \in TouchState, OneTracker(s), NEW tracker \in Tracker, tracker.trigger \notin Tracked(s),
           NEW r, r = NewTrackers(s, Append(s.trackers, tracker))
    PROVE  /\ r \in TouchState /\ r.pushEvents = s.pushEvents /\ r.inside = s.inside
           /\ OneTracker(r) /\ Tracked(r) = Tracked(s) \cup {tracker.trigger}
           /\ Started(r) = IF tracker.mappingApiStartedTouch THEN Started(s) \cup {tracker.trigger}
                           ELSE Started(s)
<1> DEFINE q == s.trackers
           new == Append(q, tracker)
<1>1. q \in Seq(Tracker) /\ Len(q) \in Nat /\ DOMAIN q = 1 .. Len(q)
    BY Fields
<1> HIDE DEF q
<1>2. /\ new \in Seq(Tracker) /\ DOMAIN new = 1 .. Len(q) + 1 /\ new[Len(q) + 1] = tracker
      /\ \A i \in DOMAIN q : new[i] = q[i]
    BY <1>1
<1> HIDE DEF new
<1>3. r \in TouchState /\ r.trackers = new /\ r.pushEvents = s.pushEvents /\ r.inside = s.inside
    BY <1>2, WithTrackers DEF new, q
<1>4. \A i \in DOMAIN new : i \in DOMAIN q \/ i = Len(q) + 1
    BY <1>1, <1>2
<1>5. \A i \in DOMAIN q : i \in DOMAIN new /\ q[i].trigger # tracker.trigger
    BY <1>1, <1>2 DEF Tracked, q
<1>6. Len(q) + 1 \in DOMAIN new
    BY <1>1, <1>2
<1>7. OneTracker(r)
    BY <1>2, <1>3, <1>4, <1>5 DEF OneTracker, q
<1>8. Tracked(r) = Tracked(s) \cup {tracker.trigger}
    BY <1>2, <1>3, <1>4, <1>5, <1>6 DEF Tracked, q
<1>9. Started(r) = IF tracker.mappingApiStartedTouch THEN Started(s) \cup {tracker.trigger} ELSE Started(s)
    BY <1>2, <1>3, <1>4, <1>5, <1>6, <1>8 DEF Started, Tracked, q
<1> QED BY <1>3, <1>7, <1>8, <1>9

(***************************************************************************)
(* TriggerTouch: the invariant, of the state a handler works on.           *)
(***************************************************************************)
\* The timer was told of one start more exactly where a tracker says so, and
\* never of a plain trigger.
ToldWith(s, exist) ==
    /\ OneTracker(s) /\ Started(s) \cap Plain = {}
    /\ \A t \in exist : s.inside[t] = IF t \in Started(s) THEN 1 ELSE 0

ToldFits(s) == ToldWith(s, there)

\* A trigger has at most one push.  What is yet to be applied is due after the
\* cooldown of the push before; a trigger without one has rested by now.
Now == IF step = Idle THEN 0 ELSE step

RestedIn(last, t, time) == last[t] = None \/ last[t] + Cooldown <= time

EventFits(event, last) ==
    IF event.applied THEN last[event.source] \in {None, event.pushTime}
    ELSE event.pushTime > 0 /\ RestedIn(last, event.source, event.pushTime)

EventsFit(events, last, at) ==
    /\ \A e, f \in events : e.source = f.source => e = f
    /\ \A event \in events : EventFits(event, last)
    /\ \A t \in Pushes : (\A event \in events : event.source # t) => RestedIn(last, t, at)

PushesFit(s) == EventsFit(s.pushEvents, lastPush, Now)

\* What holds whenever a handler looks at its state.
Fits(s) == s \in TouchState /\ ToldFits(s) /\ PushesFit(s)

WorldFits ==
    /\ there \subseteq Triggers /\ passes \subseteq Triggers /\ solid \in BOOLEAN
    /\ lastPush \in [Pushes -> Int] /\ step \in Idle .. 2

LEMMA AddFits ==
    ASSUME WorldFits, NEW s \in TouchState, PushesFit(s), NEW t \in Triggers, NEW condition,
           NEW now \in Moments, now >= Now
    PROVE  PushesFit(AddPushEvent(s, t, condition, now))
<1> DEFINE event == [source |-> t, pushTime |-> now + Delay, applied |-> FALSE]
           r == AddPushEvent(s, t, condition, now)
<1>1. CASE t \in Pushes /\ condition \in Conditions /\ \A e \in s.pushEvents : e.source # t
    <2>1. r = NewEvents(s, s.pushEvents \cup {event})
        BY <1>1 DEF AddPushEvent, NewEvents
    <2>2. event.source = t /\ event.pushTime = now + Delay /\ ~event.applied
        OBVIOUS
    <2>3. event \in PushEvent
        BY <1>1, TriggerAssumption DEF PushEvent, Moments
    <2> HIDE DEF event
    <2>4. r.pushEvents = s.pushEvents \cup {event}
        <3>1. s.pushEvents \cup {event} \in SUBSET PushEvent
            BY <2>3, Fields
        <3> HIDE DEF r
        <3> QED BY <2>1, <3>1, WithEvents
    <2>5. EventFits(event, lastPush)
        <3>1. RestedIn(lastPush, t, Now) /\ lastPush[t] \in Int /\ Now \in Int /\ Cooldown \in Int /\ Delay \in Nat
            BY <1>1, TriggerAssumption DEF PushesFit, EventsFit, WorldFits, Now, Idle
        <3>2. RestedIn(lastPush, t, now + Delay)
            BY <3>1 DEF RestedIn, Moments
        <3> QED BY <2>2, <3>1, <3>2 DEF EventFits, Moments
    <2> HIDE DEF r
    <2>6. PushesFit(r)
        BY <1>1, <2>2, <2>4, <2>5 DEF PushesFit, EventsFit
    <2> QED BY <2>6 DEF r
<1>2. CASE ~(t \in Pushes /\ condition \in Conditions /\ \A e \in s.pushEvents : e.source # t)
    <2>1. r = s
        BY <1>2 DEF AddPushEvent
    <2> QED BY <2>1
<1> QED BY <1>1, <1>2

\* The pushes of a state with the same pushes.
LEMMA SamePushes ==
    ASSUME NEW s, PushesFit(s), NEW r, r.pushEvents = s.pushEvents
    PROVE  PushesFit(r)
BY DEF PushesFit

LEMMA TellFits ==
    ASSUME WorldFits, NEW s \in TouchState, PushesFit(s), NEW t \in Triggers,
           NEW now \in Moments, now >= Now
    PROVE  /\ PushesFit(OnMappingApiTriggerStartTouchPost(s, t, now))
           /\ PushesFit(OnMappingApiTriggerEndTouchPost(s, t, now))
<1>1. ASSUME NEW new \in [Triggers -> Int], NEW condition
      PROVE  PushesFit(AddPushEvent(NewInside(s, new), t, condition, now))
    <2>1. NewInside(s, new) \in TouchState /\ NewInside(s, new).pushEvents = s.pushEvents
        BY WithInside
    <2>2. PushesFit(NewInside(s, new))
        BY <2>1, SamePushes
    <2> QED BY <2>1, <2>2, AddFits
<1>2. /\ [s EXCEPT !.inside[t] = @ + 1] = NewInside(s, OneStart(s.inside, t))
      /\ [s EXCEPT !.inside[t] = @ - 1] = NewInside(s, OneEnd(s.inside, t))
    BY DEF TouchState, NewInside, OneStart, OneEnd
<1>3. /\ OneStart(s.inside, t) \in [Triggers -> Int]
      /\ OneEnd(s.inside, t) \in [Triggers -> Int]
    BY Fields DEF OneStart, OneEnd
<1> QED BY <1>1, <1>2, <1>3 DEF OnMappingApiTriggerStartTouchPost, OnMappingApiTriggerEndTouchPost

\* A start and an end, with the tracker changed before or after.
LEMMA ToldOne ==
    ASSUME WorldFits, NEW s \in TouchState, ToldFits(s), NEW t \in Triggers, NEW r \in TouchState, OneTracker(r),
           \/ /\ t \notin Plain /\ t \notin Started(s) /\ Started(r) = Started(s) \cup {t}
              /\ r.inside = OneStart(s.inside, t)
           \/ t \in Started(s) /\ Started(r) = Started(s) \ {t} /\ r.inside = OneEnd(s.inside, t)
           \/ t \notin there /\ Started(r) = Started(s) \ {t} /\ r.inside = OneEnd(s.inside, t)
           \/ Started(r) = Started(s) /\ r.inside = s.inside
    PROVE  ToldFits(r)
<1>1. s.inside \in [Triggers -> Int] /\ r.inside \in [Triggers -> Int]
    BY Fields DEF OneStart, OneEnd
<1>2. there \subseteq Triggers
    BY DEF WorldFits
<1>3. Started(s) \cap Plain = {} /\ \A u \in there : s.inside[u] = IF u \in Started(s) THEN 1 ELSE 0
    BY DEF ToldFits, ToldWith
<1>4. Started(r) \cap Plain = {}
    BY <1>3
<1>5. ASSUME NEW u \in there
      PROVE  r.inside[u] = IF u \in Started(r) THEN 1 ELSE 0
    BY <1>1, <1>2, <1>3 DEF OneStart, OneEnd
<1> QED BY <1>4, <1>5 DEF ToldFits, ToldWith

\* The walks keep what fits; they never track more than before, unless they start.
Kept(s, r) == Fits(r) /\ Tracked(r) = Tracked(s) /\ Len(r.trackers) = Len(s.trackers)

Left(s, r, t) ==
    /\ Fits(r) /\ Tracked(r) = Tracked(s) \ {t}
    /\ Len(r.trackers) = IF t \in Tracked(s) THEN Len(s.trackers) - 1 ELSE Len(s.trackers)

LEMMA AddKept ==
    ASSUME WorldFits, NEW s, Fits(s), NEW t \in Triggers, NEW condition, NEW now \in Moments, now >= Now
    PROVE  Kept(s, AddPushEvent(s, t, condition, now))
<1> DEFINE r == AddPushEvent(s, t, condition, now)
<1>1. s \in TouchState /\ ToldFits(s) /\ PushesFit(s)
    BY DEF Fits
<1>2. r \in TouchState /\ r.trackers = s.trackers /\ r.inside = s.inside
    BY <1>1, AddTyped
<1>3. PushesFit(r)
    BY <1>1, AddFits
<1> HIDE DEF r
<1>4. Tracked(r) = Tracked(s) /\ OneTracker(r) /\ Started(r) = Started(s)
    BY <1>1, <1>2 DEF ToldFits, ToldWith, OneTracker, Tracked, Started
<1>5. ToldFits(r)
    BY <1>1, <1>2, <1>4 DEF ToldFits, ToldWith
<1>6. Kept(s, r)
    BY <1>2, <1>3, <1>4, <1>5 DEF Kept, Fits
<1> QED BY <1>6 DEF r

\* What happens inside: a filter lost is an end, one won a start.
LEMMA TouchPostKept ==
    ASSUME WorldFits, NEW s, Fits(s), NEW t \in Tracked(s), NEW now \in Moments, now >= Now
    PROVE  Kept(s, OnTriggerTouchPost(s, t, now))
<1> DEFINE tracker == TrackerOf(s, t)
           without == [tracker EXCEPT !.mappingApiStartedTouch = FALSE]
           with    == [tracker EXCEPT !.mappingApiStartedTouch = TRUE]
           ends    == Put(s, without)
           starts  == Put(s, with)
<1>1. s \in TouchState /\ ToldFits(s) /\ PushesFit(s) /\ OneTracker(s)
    BY DEF Fits, ToldFits, ToldWith
<1>2. /\ t \in Triggers /\ tracker \in Tracker /\ tracker.trigger = t
      /\ tracker.mappingApiStartedTouch <=> t \in Started(s)
    BY <1>1, PlaceIs, TrackerIs
<1>3. Kept(s, s)
    BY DEF Kept
<1> HIDE DEF tracker
<1>4. /\ without \in Tracker /\ without.trigger = t /\ ~without.mappingApiStartedTouch
      /\ with \in Tracker /\ with.trigger = t /\ with.mappingApiStartedTouch
    BY <1>2 DEF Tracker
<1> HIDE DEF with, without
<1>5. /\ ends \in TouchState /\ ends.pushEvents = s.pushEvents /\ ends.inside = s.inside
      /\ OneTracker(ends) /\ Tracked(ends) = Tracked(s) /\ Len(ends.trackers) = Len(s.trackers)
      /\ Started(ends) = Started(s) \ {t}
    BY <1>1, <1>4, PutIs
<1>6. /\ starts \in TouchState /\ starts.pushEvents = s.pushEvents /\ starts.inside = s.inside
      /\ OneTracker(starts) /\ Tracked(starts) = Tracked(s) /\ Len(starts.trackers) = Len(s.trackers)
      /\ Started(starts) = Started(s) \cup {t}
    BY <1>1, <1>4, PutIs
<1> DEFINE r == OnTriggerTouchPost(s, t, now)
           ended == OnMappingApiTriggerEndTouchPost(ends, t, now)
           begun == OnMappingApiTriggerStartTouchPost(starts, t, now)
<1>7. CASE t \notin Plain /\ t \notin passes /\ t \in Started(s)
    <2>1. r = ended
        BY <1>2, <1>7 DEF OnTriggerTouchPost, tracker, with, without
    <2> HIDE DEF ends
    <2>2. /\ ended \in TouchState /\ ended.trackers = ends.trackers
          /\ ended.inside = OneEnd(ends.inside, t)
        BY <1>2, <1>5, TellTyped
    <2>3. PushesFit(ended)
        BY <1>1, <1>2, <1>5, SamePushes, TellFits
    <2> HIDE DEF ended
    <2>4. Tracked(ended) = Tracked(s) /\ OneTracker(ended) /\ Started(ended) = Started(s) \ {t}
        BY <1>5, <2>2, SameTrackers
    <2>5. ToldFits(ended)
        BY <1>1, <1>2, <1>5, <1>7, <2>2, <2>4, ToldOne
    <2>6. Kept(s, ended)
        BY <1>5, <2>2, <2>3, <2>4, <2>5 DEF Kept, Fits
    <2> QED BY <2>1, <2>6
<1>8. CASE t \notin Plain /\ t \in passes /\ t \notin Started(s)
    <2>1. r = AddPushEvent(begun, t, "touch", now)
        BY <1>2, <1>8 DEF OnTriggerTouchPost, tracker, with, without
    <2> HIDE DEF starts
    <2>2. /\ begun \in TouchState /\ begun.trackers = starts.trackers
          /\ begun.inside = OneStart(starts.inside, t)
        BY <1>2, <1>6, TellTyped
    <2>3. PushesFit(begun)
        BY <1>1, <1>2, <1>6, SamePushes, TellFits
    <2> HIDE DEF begun
    <2>4. Tracked(begun) = Tracked(s) /\ OneTracker(begun) /\ Started(begun) = Started(s) \cup {t}
        BY <1>6, <2>2, SameTrackers
    <2>5. ToldFits(begun)
        BY <1>1, <1>2, <1>6, <1>8, <2>2, <2>4, ToldOne
    <2>6. Kept(s, begun)
        BY <1>6, <2>2, <2>3, <2>4, <2>5 DEF Kept, Fits
    <2>7. Kept(begun, AddPushEvent(begun, t, "touch", now))
        BY <1>2, <2>6, AddKept DEF Kept
    <2> QED BY <2>1, <2>6, <2>7 DEF Kept
<1>9. CASE t \notin Plain /\ t \in passes /\ t \in Started(s)
    <2>1. r = AddPushEvent(s, t, "touch", now)
        BY <1>2, <1>9 DEF OnTriggerTouchPost, tracker
    <2> QED BY <1>2, <2>1, AddKept
<1>10. CASE t \in Plain \/ (t \notin passes /\ t \notin Started(s))
    <2>1. r = s
        BY <1>2, <1>10 DEF OnTriggerTouchPost, tracker
    <2> QED BY <1>3, <2>1
<1> QED BY <1>7, <1>8, <1>9, <1>10

LEMMA TouchKept ==
    ASSUME WorldFits, NEW s, Fits(s), NEW t, NEW silent \in BOOLEAN, NEW now \in Moments, now >= Now
    PROVE  Kept(s, Touch(s, t, silent, now))
<1>1. s \in TouchState /\ ToldFits(s) /\ PushesFit(s) /\ OneTracker(s)
    BY DEF Fits, ToldFits, ToldWith
<1>2. CASE Touch(s, t, silent, now) = s
    BY <1>2 DEF Kept
<1>3. CASE Touch(s, t, silent, now) # s
    <2> DEFINE tracker == TrackerOf(s, t)
               new == [tracker EXCEPT !.touchedThisTick = @ \/ ~silent]
               m == Put(s, new)
    <2>1. t \in Tracked(s) /\ Touch(s, t, silent, now) = OnTriggerTouchPost(m, t, now)
        BY <1>3 DEF Touch
    <2>2. tracker \in Tracker /\ tracker.trigger = t /\ (tracker.mappingApiStartedTouch <=> t \in Started(s))
        BY <1>1, <2>1, PlaceIs, TrackerIs
    <2> HIDE DEF tracker
    <2>3. new \in Tracker /\ new.trigger = t /\ (new.mappingApiStartedTouch <=> t \in Started(s))
        BY <2>2 DEF Tracker
    <2> HIDE DEF new
    <2>4. /\ m \in TouchState /\ m.pushEvents = s.pushEvents /\ m.inside = s.inside /\ OneTracker(m)
          /\ Tracked(m) = Tracked(s) /\ Len(m.trackers) = Len(s.trackers)
          /\ new.mappingApiStartedTouch => Started(m) = Started(s) \cup {t}
          /\ ~new.mappingApiStartedTouch => Started(m) = Started(s) \ {t}
        BY <1>1, <2>1, <2>3, PutIs
    <2> HIDE DEF m
    <2>5. Kept(s, m)
        <3>1. Started(m) = Started(s)
            BY <2>3, <2>4
        <3> QED BY <1>1, <2>4, <3>1, SamePushes DEF Kept, Fits, ToldFits, ToldWith
    <2>6. Kept(m, OnTriggerTouchPost(m, t, now))
        BY <2>1, <2>4, <2>5, TouchPostKept DEF Kept
    <2> QED BY <2>1, <2>5, <2>6 DEF Kept
<1> QED BY <1>2, <1>3

\* A tracker is taken out after its end was told.
LEMMA OutLeft ==
    ASSUME WorldFits, NEW s, Fits(s), NEW t, NEW m \in TouchState, m.trackers = s.trackers, PushesFit(m),
           \/ t \notin Started(s) /\ m.inside = s.inside
           \/ /\ t \in Triggers /\ (t \in Started(s) \/ t \notin there)
              /\ m.inside = OneEnd(s.inside, t)
    PROVE  Left(s, Without(m, t), t)
<1> DEFINE r == Without(m, t)
<1>1. s \in TouchState /\ ToldFits(s) /\ OneTracker(s)
    BY DEF Fits, ToldFits, ToldWith
<1>2. Tracked(m) = Tracked(s) /\ OneTracker(m) /\ Started(m) = Started(s)
    BY <1>1, SameTrackers
<1>3. /\ r \in TouchState /\ r.pushEvents = m.pushEvents /\ r.inside = m.inside
      /\ OneTracker(r) /\ Tracked(r) = Tracked(s) \ {t} /\ Started(r) = Started(s) \ {t}
      /\ Len(r.trackers) = IF t \in Tracked(s) THEN Len(s.trackers) - 1 ELSE Len(s.trackers)
    BY <1>2, WithoutIs
<1> HIDE DEF r
<1>4. PushesFit(r)
    BY <1>3, SamePushes
<1>5. ToldFits(r)
    <2>1. CASE t \notin Started(s) /\ m.inside = s.inside
        BY <1>1, <1>3, <2>1 DEF ToldFits, ToldWith
    <2>2. CASE t \in Triggers /\ t \in Started(s) /\ m.inside = OneEnd(s.inside, t)
        BY <1>1, <1>3, <2>2, ToldOne
    <2>3. CASE t \in Triggers /\ t \notin there /\ m.inside = OneEnd(s.inside, t)
        BY <1>1, <1>3, <2>3, ToldOne
    <2> QED BY <2>1, <2>2, <2>3
<1>6. Left(s, r, t)
    BY <1>3, <1>4, <1>5 DEF Left, Fits
<1> QED BY <1>6 DEF r

LEMMA PlainPlainly ==
    ASSUME NEW s, Fits(s), NEW t \in Plain
    PROVE  t \notin Started(s)
BY DEF Fits, ToldFits, ToldWith

LEMMA EndTouchLeft ==
    ASSUME WorldFits, NEW s, Fits(s), NEW t, NEW now \in Moments, now >= Now
    PROVE  /\ EndTouch(s, t, now) = s \/ Left(s, EndTouch(s, t, now), t)
           /\ t \in Tracked(s) /\ OnTriggerTouchPre(t, now) => Left(s, EndTouch(s, t, now), t)
<1>1. SUFFICES ASSUME t \in Tracked(s), OnTriggerTouchPre(t, now)
               PROVE  Left(s, EndTouch(s, t, now), t)
    BY DEF EndTouch
<1> DEFINE touched == IF t \in Plain THEN Touch(s, t, FALSE, now) ELSE s
           told == OnTriggerEndTouchPost(touched, t, now)
<1>2. EndTouch(s, t, now) = Without(told, t)
    BY <1>1 DEF EndTouch
<1>3. Kept(s, touched)
    BY TouchKept DEF Kept
<1> HIDE DEF touched
<1>4. /\ touched \in TouchState /\ PushesFit(touched) /\ OneTracker(touched) /\ t \in Tracked(touched)
      /\ Fits(touched)
    BY <1>1, <1>3 DEF Kept, Fits, ToldFits, ToldWith
<1>5. t \in Triggers /\ (TrackerOf(touched, t).mappingApiStartedTouch <=> t \in Started(touched))
    BY <1>4, PlaceIs, TrackerIs
<1>6. CASE t \in Plain \/ t \notin Started(touched)
    <2>1. told = touched /\ t \notin Started(touched)
        BY <1>4, <1>5, <1>6, PlainPlainly DEF OnTriggerEndTouchPost
    <2>2. Left(touched, Without(told, t), t)
        BY <1>4, <2>1, OutLeft
    <2> QED BY <1>2, <1>3, <2>2 DEF Left, Kept
<1>7. CASE t \notin Plain /\ t \in Started(touched)
    <2>1. told = OnMappingApiTriggerEndTouchPost(touched, t, now)
        BY <1>5, <1>7 DEF OnTriggerEndTouchPost
    <2>2. /\ told \in TouchState /\ told.trackers = touched.trackers
          /\ told.inside = OneEnd(touched.inside, t) /\ PushesFit(told)
        BY <1>4, <1>5, <2>1, TellTyped, TellFits
    <2> HIDE DEF told
    <2>3. Left(touched, Without(told, t), t)
        BY <1>4, <1>5, <1>7, <2>2, OutLeft
    <2> QED BY <1>2, <1>3, <2>3 DEF Left, Kept
<1> QED BY <1>6, <1>7

LEMMA DisappearedLeft ==
    ASSUME WorldFits, NEW s, Fits(s), NEW t \in Triggers, t \notin there, NEW now \in Moments, now >= Now
    PROVE  Left(s, Disappeared(s, t, now), t)
<1>1. s \in TouchState /\ PushesFit(s)
    BY DEF Fits
<1>2. CASE t \in Plain
    <2>1. Disappeared(s, t, now) = Without(s, t) /\ t \notin Started(s)
        BY <1>2, PlainPlainly DEF Disappeared
    <2> QED BY <1>1, <2>1, OutLeft
<1>3. CASE t \notin Plain
    <2> DEFINE told == OnMappingApiTriggerEndTouchPost(s, t, now)
    <2>1. Disappeared(s, t, now) = Without(told, t)
        BY <1>3 DEF Disappeared
    <2>2. /\ told \in TouchState /\ told.trackers = s.trackers
          /\ told.inside = OneEnd(s.inside, t) /\ PushesFit(told)
        BY <1>1, TellTyped, TellFits
    <2> HIDE DEF told
    <2> QED BY <2>1, <2>2, OutLeft
<1> QED BY <1>2, <1>3

LEMMA StartTouchFits ==
    ASSUME WorldFits, NEW s, Fits(s), NEW t \in Triggers, NEW now \in Moments, now >= Now
    PROVE  Fits(StartTouch(s, t, now))
<1>1. s \in TouchState /\ ToldFits(s) /\ PushesFit(s) /\ OneTracker(s)
    BY DEF Fits, ToldFits, ToldWith
<1>2. SUFFICES ASSUME t \notin Tracked(s), OnTriggerTouchPre(t, now)
               PROVE  Fits(StartTouch(s, t, now))
    BY DEF StartTouch
<1> DEFINE starts == t \notin Plain /\ t \in passes
           tracker == [trigger |-> t, touchedThisTick |-> FALSE, mappingApiStartedTouch |-> starts]
           new == NewTrackers(s, Append(s.trackers, tracker))
           told == IF starts THEN OnMappingApiTriggerStartTouchPost(new, t, now) ELSE new
<1>3. StartTouch(s, t, now) = Touch(told, t, TRUE, now)
    BY <1>2 DEF StartTouch, NewTrackers
<1>4. tracker \in Tracker /\ tracker.trigger = t /\ (tracker.mappingApiStartedTouch <=> starts)
    BY DEF Tracker
<1>5. t \notin Started(s)
    BY <1>2 DEF Started
<1> HIDE DEF tracker
<1>6. /\ new \in TouchState /\ new.pushEvents = s.pushEvents /\ new.inside = s.inside /\ OneTracker(new)
      /\ Started(new) = IF tracker.mappingApiStartedTouch THEN Started(s) \cup {t} ELSE Started(s)
    BY <1>1, <1>2, <1>4, AppendIs
<1> HIDE DEF new
<1>7. PushesFit(new)
    BY <1>1, <1>6, SamePushes
<1>8. Fits(told)
    <2>1. CASE starts
        <3> DEFINE r == OnMappingApiTriggerStartTouchPost(new, t, now)
        <3>1. /\ r \in TouchState /\ r.trackers = new.trackers /\ r.inside = OneStart(new.inside, t)
              /\ PushesFit(r)
            BY <1>6, <1>7, TellTyped, TellFits
        <3> HIDE DEF r
        <3>2. OneTracker(r) /\ Started(r) = Started(s) \cup {t} /\ r.inside = OneStart(s.inside, t)
            BY <1>4, <1>6, <2>1, <3>1, SameTrackers
        <3>3. t \notin Plain
            BY <2>1
        <3>4. ToldFits(r)
            BY <1>1, <1>5, <3>1, <3>2, <3>3, ToldOne
        <3> QED BY <2>1, <3>1, <3>4 DEF Fits, r
    <2>2. CASE ~starts
        <3>1. Started(new) = Started(s)
            BY <1>4, <1>6, <2>2
        <3>2. ToldFits(new)
            BY <1>1, <1>6, <3>1 DEF ToldFits, ToldWith
        <3> QED BY <1>6, <1>7, <2>2, <3>2 DEF Fits
    <2> QED BY <2>1, <2>2
<1> HIDE DEF told
<1> QED BY <1>3, <1>8, TouchKept DEF Kept

(***************************************************************************)
(* TriggerTouch: the walks.                                                *)
(***************************************************************************)
\* The states that fit and have no more trackers than so many.
FitUpto(most) == {x \in TouchState : Fits(x) /\ Len(x.trackers) <= most}

LEMMA LeftIsFewer ==
    ASSUME NEW most \in Nat, NEW s \in FitUpto(most), NEW r, NEW t, Left(s, r, t) \/ Kept(s, r)
    PROVE  r \in FitUpto(most)
<1>1. Len(s.trackers) \in Nat /\ Len(s.trackers) <= most
    BY Fields DEF FitUpto
<1> QED BY <1>1 DEF FitUpto, Left, Kept, Fits

LEMMA TriggersAre ==
    ASSUME NEW s \in TouchState
    PROVE  /\ TriggersOf(s) \in Seq(Triggers) /\ Len(TriggersOf(s)) = Len(s.trackers) /\ Len(s.trackers) \in Nat
           /\ \A i \in 1 .. Len(s.trackers) : TriggersOf(s)[i] \in Tracked(s) /\ TriggersOf(s)[i] \in Triggers
<1>1. s.trackers \in Seq(Tracker) /\ DOMAIN s.trackers = 1 .. Len(s.trackers) /\ Len(s.trackers) \in Nat
    BY Fields
<1>2. ASSUME NEW i \in 1 .. Len(s.trackers)
      PROVE  s.trackers[i].trigger \in Triggers
    <2>1. s.trackers[i] \in Tracker
        BY <1>1
    <2> QED BY <2>1 DEF Tracker
<1>3. TriggersOf(s) \in Seq(Triggers) /\ Len(TriggersOf(s)) = Len(s.trackers)
    BY <1>1, <1>2 DEF TriggersOf
<1>4. \A i \in 1 .. Len(s.trackers) : TriggersOf(s)[i] = s.trackers[i].trigger
    BY <1>1 DEF TriggersOf
<1> QED BY <1>1, <1>2, <1>3, <1>4 DEF Tracked

LEMMA TouchAllFits ==
    ASSUME WorldFits, NEW s, Fits(s), NEW now \in Moments, now >= Now
    PROVE  TouchAll(s, now) \in FitUpto(Len(s.trackers))
<1> DEFINE t == TriggersOf(s)
           n == Len(t)
           X == FitUpto(Len(s.trackers))
           G(f) == [i \in 0 .. n |-> IF i = 0 THEN s ELSE TouchNext(f[i - 1], t[i], now)]
           move == [i \in 1 .. n |-> [x \in X |-> TouchNext(x, t[i], now)]]
           walk == CHOOSE f : f = G(f)
<1>1. s \in TouchState /\ n \in Nat /\ \A i \in 1 .. n : t[i] \in Triggers
    BY TriggersAre DEF Fits
<1>2. s \in X
    BY <1>1, Fields DEF FitUpto
<1>3. ASSUME NEW i \in 1 .. n, NEW x \in X
      PROVE  TouchNext(x, t[i], now) \in X
    <2>1. t[i] \in Triggers /\ Fits(x)
        BY <1>1 DEF FitUpto
    <2>2. Kept(x, TouchNext(x, t[i], now)) \/ Left(x, TouchNext(x, t[i], now), t[i])
        BY <2>1, TouchKept, DisappearedLeft DEF TouchNext
    <2>3. Len(s.trackers) \in Nat
        BY <1>1, Fields
    <2> HIDE DEF t
    <2> QED BY <2>2, <2>3, LeftIsFewer
<1>4. TouchAll(s, now) = walk[n]
    BY DEF TouchAll
<1> HIDE DEF t, n, X
<1>5. \E f : f = G(f)
    <2>1. move \in NextSteps(n, X)
        BY <1>3 DEF NextSteps
    <2>2. \A i \in 1 .. n : \A x \in X : move[i][x] = TouchNext(x, t[i], now)
        OBVIOUS
    <2> HIDE DEF move
    <2>3. PICK f \in Walks(n, X) : \A i \in 0 .. n : f[i] = IF i = 0 THEN s ELSE move[i][f[i - 1]]
        BY <1>1, <1>2, <2>1, WalkSteps
    <2>4. \A i \in 1 .. n : move[i][f[i - 1]] = TouchNext(f[i - 1], t[i], now)
        BY <1>1, <2>2, <2>3 DEF Walks
    <2>5. \A i \in 0 .. n : f[i] = IF i = 0 THEN s ELSE TouchNext(f[i - 1], t[i], now)
        BY <1>1, <2>3, <2>4
    <2>6. f = [i \in 0 .. n |-> f[i]]
        BY <2>3 DEF Walks
    <2> QED BY <2>5, <2>6
<1>6. walk = G(walk)
    BY <1>5
<1> HIDE DEF walk
<1>7. walk[0] = s /\ \A i \in 1 .. n : walk[i] = TouchNext(walk[i - 1], t[i], now)
    BY <1>1, <1>6
<1>8. walk[n] \in X
    <2>1. walk[0] \in X /\ \A i \in 1 .. n : walk[i - 1] \in X => walk[i] \in X
        BY <1>2, <1>3, <1>7
    <2> QED BY <1>1, <2>1, WalkStays
<1> QED BY <1>4, <1>8 DEF X

LEMMA EndVanishedFits ==
    ASSUME WorldFits, NEW s, Fits(s), NEW now \in Moments, now >= Now
    PROVE  EndVanished(s, now) \in FitUpto(Len(s.trackers))
<1> DEFINE t == TriggersOf(s)
           n == Len(t)
           X == FitUpto(Len(s.trackers))
           G(f) == [i \in 0 .. n |-> IF i = 0 THEN s ELSE EndVanishedNext(f[i - 1], t[i], now)]
           move == [i \in 1 .. n |-> [x \in X |-> EndVanishedNext(x, t[i], now)]]
           walk == CHOOSE f : f = G(f)
<1>1. s \in TouchState /\ n \in Nat /\ \A i \in 1 .. n : t[i] \in Triggers
    BY TriggersAre DEF Fits
<1>2. s \in X
    BY <1>1, Fields DEF FitUpto
<1>3. ASSUME NEW i \in 1 .. n, NEW x \in X
      PROVE  EndVanishedNext(x, t[i], now) \in X
    <2>1. t[i] \in Triggers /\ Fits(x)
        BY <1>1 DEF FitUpto
    <2>2. Kept(x, EndVanishedNext(x, t[i], now)) \/ Left(x, EndVanishedNext(x, t[i], now), t[i])
        BY <2>1, DisappearedLeft DEF EndVanishedNext, Kept
    <2>3. Len(s.trackers) \in Nat
        BY <1>1, Fields
    <2> HIDE DEF t
    <2> QED BY <2>2, <2>3, LeftIsFewer
<1>4. EndVanished(s, now) = walk[n]
    BY DEF EndVanished
<1> HIDE DEF t, n, X
<1>5. \E f : f = G(f)
    <2>1. move \in NextSteps(n, X)
        BY <1>3 DEF NextSteps
    <2>2. \A i \in 1 .. n : \A x \in X : move[i][x] = EndVanishedNext(x, t[i], now)
        OBVIOUS
    <2> HIDE DEF move
    <2>3. PICK f \in Walks(n, X) : \A i \in 0 .. n : f[i] = IF i = 0 THEN s ELSE move[i][f[i - 1]]
        BY <1>1, <1>2, <2>1, WalkSteps
    <2>4. \A i \in 1 .. n : move[i][f[i - 1]] = EndVanishedNext(f[i - 1], t[i], now)
        BY <1>1, <2>2, <2>3 DEF Walks
    <2>5. \A i \in 0 .. n : f[i] = IF i = 0 THEN s ELSE EndVanishedNext(f[i - 1], t[i], now)
        BY <1>1, <2>3, <2>4
    <2>6. f = [i \in 0 .. n |-> f[i]]
        BY <2>3 DEF Walks
    <2> QED BY <2>5, <2>6
<1>6. walk = G(walk)
    BY <1>5
<1> HIDE DEF walk
<1>7. walk[0] = s /\ \A i \in 1 .. n : walk[i] = EndVanishedNext(walk[i - 1], t[i], now)
    BY <1>1, <1>6
<1>8. walk[n] \in X
    <2>1. walk[0] \in X /\ \A i \in 1 .. n : walk[i - 1] \in X => walk[i] \in X
        BY <1>2, <1>3, <1>7
    <2> QED BY <1>1, <2>1, WalkStays
<1> QED BY <1>4, <1>8 DEF X

LEMMA LeaveOthersFits ==
    ASSUME WorldFits, NEW s, Fits(s), NEW hit, NEW now \in Moments, now >= Now
    PROVE  LeaveOthers(s, hit, now) \in FitUpto(Len(s.trackers))
<1> DEFINE t == Reverse(TriggersOf(s))
           n == Len(t)
           X == FitUpto(Len(s.trackers))
           G(f) == [i \in 0 .. n |-> IF i = 0 THEN s ELSE LeaveNext(f[i - 1], t[i], hit, now)]
           move == [i \in 1 .. n |-> [x \in X |-> LeaveNext(x, t[i], hit, now)]]
           walk == CHOOSE f : f = G(f)
<1>1. s \in TouchState /\ n \in Nat /\ \A i \in 1 .. n : t[i] \in Triggers
    BY TriggersAre DEF Fits, Reverse
<1>2. s \in X
    BY <1>1, Fields DEF FitUpto
<1>3. ASSUME NEW i \in 1 .. n, NEW x \in X
      PROVE  LeaveNext(x, t[i], hit, now) \in X
    <2>1. t[i] \in Triggers /\ Fits(x)
        BY <1>1 DEF FitUpto
    <2>2. \/ Kept(x, LeaveNext(x, t[i], hit, now))
          \/ Left(x, LeaveNext(x, t[i], hit, now), t[i])
        BY <2>1, DisappearedLeft, EndTouchLeft DEF LeaveNext, Kept
    <2>3. Len(s.trackers) \in Nat
        BY <1>1, Fields
    <2> HIDE DEF t
    <2> QED BY <2>2, <2>3, LeftIsFewer
<1>4. LeaveOthers(s, hit, now) = walk[n]
    BY DEF LeaveOthers
<1> HIDE DEF t, n, X
<1>5. \E f : f = G(f)
    <2>1. move \in NextSteps(n, X)
        BY <1>3 DEF NextSteps
    <2>2. \A i \in 1 .. n : \A x \in X : move[i][x] = LeaveNext(x, t[i], hit, now)
        OBVIOUS
    <2> HIDE DEF move
    <2>3. PICK f \in Walks(n, X) : \A i \in 0 .. n : f[i] = IF i = 0 THEN s ELSE move[i][f[i - 1]]
        BY <1>1, <1>2, <2>1, WalkSteps
    <2>4. \A i \in 1 .. n : move[i][f[i - 1]] = LeaveNext(f[i - 1], t[i], hit, now)
        BY <1>1, <2>2, <2>3 DEF Walks
    <2>5. \A i \in 0 .. n : f[i] = IF i = 0 THEN s ELSE LeaveNext(f[i - 1], t[i], hit, now)
        BY <1>1, <2>3, <2>4
    <2>6. f = [i \in 0 .. n |-> f[i]]
        BY <2>3 DEF Walks
    <2> QED BY <2>5, <2>6
<1>6. walk = G(walk)
    BY <1>5
<1> HIDE DEF walk
<1>7. walk[0] = s /\ \A i \in 1 .. n : walk[i] = LeaveNext(walk[i - 1], t[i], hit, now)
    BY <1>1, <1>6
<1>8. walk[n] \in X
    <2>1. walk[0] \in X /\ \A i \in 1 .. n : walk[i - 1] \in X => walk[i] \in X
        BY <1>2, <1>3, <1>7
    <2> QED BY <1>1, <2>1, WalkStays
<1> QED BY <1>4, <1>8 DEF X

\* What a trace hits is a sequence of triggers.
LEMMA OrderIs == Order \in Seq(Triggers) /\ Len(Order) \in Nat /\ \A i \in 1 .. Len(Order) : Order[i] \in Triggers
<1> DEFINE m == Cardinality(Triggers)
<1>1. m \in Nat /\ ExistsBijection(1 .. m, Triggers)
    BY TriggerAssumption, FS_CardinalityType
<1> HIDE DEF m
<1>2. \E f \in [1 .. m -> Triggers] : IsInjective(f)
    BY <1>1 DEF ExistsBijection, Bijection, Injection
<1>3. Order \in [1 .. m -> Triggers]
    BY <1>2 DEF Order, SetToSeq, m
<1> QED BY <1>1, <1>3

LEMMA OnStopTouchGroundFits ==
    ASSUME WorldFits, NEW s, Fits(s), NEW now \in Moments, now >= Now
    PROVE  Fits(OnStopTouchGround(s, TRUE, now))
<1> DEFINE t == TriggersOf(s)
           n == Len(t)
           X == {x \in TouchState : Fits(x)}
           G(f) == [i \in 0 .. n |-> IF i = 0 THEN s ELSE JumpNext(f[i - 1], t[i], now)]
           move == [i \in 1 .. n |-> [x \in X |-> JumpNext(x, t[i], now)]]
           walk == CHOOSE f : f = G(f)
<1>1. s \in TouchState /\ n \in Nat /\ \A i \in 1 .. n : t[i] \in Triggers
    BY TriggersAre DEF Fits
<1>2. s \in X
    BY <1>1
<1>3. ASSUME NEW i \in 1 .. n, NEW x \in X
      PROVE  JumpNext(x, t[i], now) \in X
    <2>1. t[i] \in Triggers /\ Fits(x)
        BY <1>1
    <2>2. Kept(x, JumpNext(x, t[i], now))
        BY <2>1, AddKept DEF JumpNext, Kept
    <2> QED BY <2>2 DEF Kept, Fits
<1>4. OnStopTouchGround(s, TRUE, now) = walk[n]
    BY DEF OnStopTouchGround
<1> HIDE DEF t, n, X
<1>5. \E f : f = G(f)
    <2>1. move \in NextSteps(n, X)
        BY <1>3 DEF NextSteps
    <2>2. \A i \in 1 .. n : \A x \in X : move[i][x] = JumpNext(x, t[i], now)
        OBVIOUS
    <2> HIDE DEF move
    <2>3. PICK f \in Walks(n, X) : \A i \in 0 .. n : f[i] = IF i = 0 THEN s ELSE move[i][f[i - 1]]
        BY <1>1, <1>2, <2>1, WalkSteps
    <2>4. \A i \in 1 .. n : move[i][f[i - 1]] = JumpNext(f[i - 1], t[i], now)
        BY <1>1, <2>2, <2>3 DEF Walks
    <2>5. \A i \in 0 .. n : f[i] = IF i = 0 THEN s ELSE JumpNext(f[i - 1], t[i], now)
        BY <1>1, <2>3, <2>4
    <2>6. f = [i \in 0 .. n |-> f[i]]
        BY <2>3 DEF Walks
    <2> QED BY <2>5, <2>6
<1>6. walk = G(walk)
    BY <1>5
<1> HIDE DEF walk
<1>7. walk[0] = s /\ \A i \in 1 .. n : walk[i] = JumpNext(walk[i - 1], t[i], now)
    BY <1>1, <1>6
<1>8. walk[n] \in X
    <2>1. walk[0] \in X /\ \A i \in 1 .. n : walk[i - 1] \in X => walk[i] \in X
        BY <1>2, <1>3, <1>7
    <2> QED BY <1>1, <2>1, WalkStays
<1> QED BY <1>4, <1>8 DEF X

LEMMA TouchHitFits ==
    ASSUME WorldFits, NEW s, Fits(s), NEW hit, NEW now \in Moments, now >= Now
    PROVE  Fits(TouchHit(s, hit, now))
<1> DEFINE t == Order
           n == Len(t)
           X == {x \in TouchState : Fits(x)}
           G(f) == [i \in 0 .. n |-> IF i = 0 THEN s ELSE HitNext(f[i - 1], t[i], hit, now)]
           move == [i \in 1 .. n |-> [x \in X |-> HitNext(x, t[i], hit, now)]]
           walk == CHOOSE f : f = G(f)
<1>1. s \in TouchState /\ n \in Nat /\ \A i \in 1 .. n : t[i] \in Triggers
    BY OrderIs DEF Fits
<1>2. s \in X
    BY <1>1
<1>3. ASSUME NEW i \in 1 .. n, NEW x \in X
      PROVE  HitNext(x, t[i], hit, now) \in X
    <2>1. t[i] \in Triggers /\ Fits(x)
        BY <1>1
    <2>2. Fits(HitNext(x, t[i], hit, now))
        BY <2>1, StartTouchFits, TouchKept DEF HitNext, Kept
    <2> QED BY <2>2 DEF Fits
<1>4. TouchHit(s, hit, now) = walk[n]
    BY DEF TouchHit
<1> HIDE DEF t, n, X
<1>5. \E f : f = G(f)
    <2>1. move \in NextSteps(n, X)
        BY <1>3 DEF NextSteps
    <2>2. \A i \in 1 .. n : \A x \in X : move[i][x] = HitNext(x, t[i], hit, now)
        OBVIOUS
    <2> HIDE DEF move
    <2>3. PICK f \in Walks(n, X) : \A i \in 0 .. n : f[i] = IF i = 0 THEN s ELSE move[i][f[i - 1]]
        BY <1>1, <1>2, <2>1, WalkSteps
    <2>4. \A i \in 1 .. n : move[i][f[i - 1]] = HitNext(f[i - 1], t[i], hit, now)
        BY <1>1, <2>2, <2>3 DEF Walks
    <2>5. \A i \in 0 .. n : f[i] = IF i = 0 THEN s ELSE HitNext(f[i - 1], t[i], hit, now)
        BY <1>1, <2>3, <2>4
    <2>6. f = [i \in 0 .. n |-> f[i]]
        BY <2>3 DEF Walks
    <2> QED BY <2>5, <2>6
<1>6. walk = G(walk)
    BY <1>5
<1> HIDE DEF walk
<1>7. walk[0] = s /\ \A i \in 1 .. n : walk[i] = HitNext(walk[i - 1], t[i], hit, now)
    BY <1>1, <1>6
<1>8. walk[n] \in X
    <2>1. walk[0] \in X /\ \A i \in 1 .. n : walk[i - 1] \in X => walk[i] \in X
        BY <1>2, <1>3, <1>7
    <2> QED BY <1>1, <2>1, WalkStays
<1> QED BY <1>4, <1>8 DEF X

LEMMA AlongPathFits ==
    ASSUME WorldFits, NEW s, Fits(s), NEW path, NEW now \in Moments, now >= Now
    PROVE  Fits(TouchTriggersAlongPath(s, path, now))
<1> DEFINE t == Order
           n == Len(t)
           X == {x \in TouchState : Fits(x)}
           G(f) == [i \in 0 .. n |-> IF i = 0 THEN s ELSE PassNext(f[i - 1], t[i], path, now)]
           move == [i \in 1 .. n |-> [x \in X |-> PassNext(x, t[i], path, now)]]
           walk == CHOOSE f : f = G(f)
<1>1. s \in TouchState /\ n \in Nat /\ \A i \in 1 .. n : t[i] \in Triggers
    BY OrderIs DEF Fits
<1>2. s \in X
    BY <1>1
<1>3. ASSUME NEW i \in 1 .. n, NEW x \in X
      PROVE  PassNext(x, t[i], path, now) \in X
    <2>1. t[i] \in Triggers /\ Fits(x)
        BY <1>1
    <2>2. Fits(PassNext(x, t[i], path, now))
        BY <2>1, StartTouchFits DEF PassNext
    <2> QED BY <2>2 DEF Fits
<1>4. solid => TouchTriggersAlongPath(s, path, now) = walk[n]
    BY DEF TouchTriggersAlongPath
<1> HIDE DEF t, n, X
<1>5. \E f : f = G(f)
    <2>1. move \in NextSteps(n, X)
        BY <1>3 DEF NextSteps
    <2>2. \A i \in 1 .. n : \A x \in X : move[i][x] = PassNext(x, t[i], path, now)
        OBVIOUS
    <2> HIDE DEF move
    <2>3. PICK f \in Walks(n, X) : \A i \in 0 .. n : f[i] = IF i = 0 THEN s ELSE move[i][f[i - 1]]
        BY <1>1, <1>2, <2>1, WalkSteps
    <2>4. \A i \in 1 .. n : move[i][f[i - 1]] = PassNext(f[i - 1], t[i], path, now)
        BY <1>1, <2>2, <2>3 DEF Walks
    <2>5. \A i \in 0 .. n : f[i] = IF i = 0 THEN s ELSE PassNext(f[i - 1], t[i], path, now)
        BY <1>1, <2>3, <2>4
    <2>6. f = [i \in 0 .. n |-> f[i]]
        BY <2>3 DEF Walks
    <2> QED BY <2>5, <2>6
<1>6. walk = G(walk)
    BY <1>5
<1> HIDE DEF walk
<1>7. walk[0] = s /\ \A i \in 1 .. n : walk[i] = PassNext(walk[i - 1], t[i], path, now)
    BY <1>1, <1>6
<1>8. walk[n] \in X
    <2>1. walk[0] \in X /\ \A i \in 1 .. n : walk[i - 1] \in X => walk[i] \in X
        BY <1>2, <1>3, <1>7
    <2> QED BY <1>1, <2>1, WalkStays
<1> QED BY <1>4, <1>8 DEF X, TouchTriggersAlongPath




\* A step of the walk that passes over the tracker after one it takes out.
Walking == [s : {x \in TouchState : Fits(x)}, skip : BOOLEAN]
WalkOf(s, skip) == [s |-> s, skip |-> skip]

LEMMA WalkingIs ==
    ASSUME NEW s, Fits(s), NEW skip \in BOOLEAN
    PROVE  WalkOf(s, skip) \in Walking /\ WalkOf(s, skip).s = s /\ WalkOf(s, skip).skip = skip
BY DEF Walking, WalkOf, Fits

LEMMA EndTouchNextIs ==
    ASSUME WorldFits, NEW x \in Walking, NEW t \in Triggers, NEW now \in Moments, now >= Now
    PROVE  LET r == EndTouchNext(x, t, now)
           IN  /\ r \in Walking
               /\ x.skip => r.s = x.s /\ ~r.skip
               /\ ~x.skip => r.s = x.s \/ Left(x.s, r.s, t)
               /\ now = 2 /\ ~x.skip /\ t \in Tracked(x.s) => Left(x.s, r.s, t)
<1> DEFINE r == EndTouchNext(x, t, now)
<1>1. Fits(x.s) /\ x.skip \in BOOLEAN /\ x = WalkOf(x.s, x.skip)
    BY DEF Walking, WalkOf
<1>2. CASE x.skip
    <2>1. r = WalkOf(x.s, FALSE)
        BY <1>2 DEF EndTouchNext, Walking, WalkOf
    <2> QED BY <1>1, <1>2, <2>1, WalkingIs
<1>3. CASE ~x.skip /\ t \notin there
    <2> DEFINE vanished == Disappeared(x.s, t, now)
    <2>1. r = WalkOf(vanished, FALSE)
        BY <1>3 DEF EndTouchNext, Walking, WalkOf
    <2>2. Left(x.s, vanished, t)
        BY <1>1, <1>3, DisappearedLeft
    <2> HIDE DEF vanished
    <2>3. Fits(vanished)
        BY <2>2 DEF Left
    <2> QED BY <1>3, <2>1, <2>2, <2>3, WalkingIs
<1>4. CASE ~x.skip /\ t \in there
    <2> DEFINE ended == EndTouch(x.s, t, now)
    <2>1. r = WalkOf(ended, t \notin Tracked(ended))
        BY <1>4 DEF EndTouchNext, WalkOf
    <2>2. ended = x.s \/ Left(x.s, ended, t)
        BY <1>1, EndTouchLeft
    <2>3. now = 2 /\ t \in Tracked(x.s) => Left(x.s, ended, t)
        BY <1>1, EndTouchLeft DEF OnTriggerTouchPre
    <2> HIDE DEF ended
    <2>4. Fits(ended)
        BY <1>1, <2>2 DEF Left
    <2> QED BY <1>4, <2>1, <2>2, <2>3, <2>4, WalkingIs
<1> QED BY <1>2, <1>3, <1>4

LEMMA EndTouchAllFits ==
    ASSUME WorldFits, NEW s, Fits(s), NEW now \in Moments, now >= Now
    PROVE  /\ Fits(EndTouchAll(s, now))
           /\ now = 2 => 2 * Len(EndTouchAll(s, now).trackers) <= Len(s.trackers)
<1> DEFINE t == TriggersOf(s)
           n == Len(t)
           first == [s |-> s, skip |-> FALSE]
           G(f) == [i \in 0 .. n |-> IF i = 0 THEN first ELSE EndTouchNext(f[i - 1], t[i], now)]
           move == [i \in 1 .. n |-> [x \in Walking |-> EndTouchNext(x, t[i], now)]]
           walk == CHOOSE f : f = G(f)
<1>1. s \in TouchState /\ n \in Nat
    BY TriggersAre DEF Fits
<1>2. n = Len(s.trackers)
    BY TriggersAre DEF Fits
<1>3. \A i \in 1 .. n : t[i] \in Triggers /\ t[i] \in Tracked(s)
    BY TriggersAre DEF Fits
<1>4. \A i, j \in 1 .. n : t[i] = t[j] => i = j
    <2>1. OneTracker(s) /\ DOMAIN s.trackers = 1 .. n
        BY <1>1, <1>2, Fields DEF Fits, ToldFits, ToldWith
    <2> QED BY <2>1 DEF OneTracker, TriggersOf
<1>5. first = WalkOf(s, FALSE) /\ first \in Walking
    BY <1>1, WalkingIs DEF WalkOf
<1>6. first \in Walking
    BY <1>5
<1>7. EndTouchAll(s, now) = walk[n].s
    BY DEF EndTouchAll
<1> HIDE DEF t, n, first
<1>8. \A i \in 1 .. n : \A x \in Walking : EndTouchNext(x, t[i], now) \in Walking
    BY <1>3, EndTouchNextIs
<1>9. \E f : f = G(f)
    <2>1. move \in NextSteps(n, Walking)
        BY <1>8 DEF NextSteps
    <2>2. \A i \in 1 .. n : \A x \in Walking : move[i][x] = EndTouchNext(x, t[i], now)
        OBVIOUS
    <2> HIDE DEF move
    <2>3. PICK f \in Walks(n, Walking) : \A i \in 0 .. n : f[i] = IF i = 0 THEN first ELSE move[i][f[i - 1]]
        BY <1>1, <1>6, <2>1, WalkSteps
    <2>4. \A i \in 1 .. n : move[i][f[i - 1]] = EndTouchNext(f[i - 1], t[i], now)
        BY <1>1, <2>2, <2>3 DEF Walks
    <2>5. \A i \in 0 .. n : f[i] = IF i = 0 THEN first ELSE EndTouchNext(f[i - 1], t[i], now)
        BY <1>1, <2>3, <2>4
    <2>6. f = [i \in 0 .. n |-> f[i]]
        BY <2>3 DEF Walks
    <2> QED BY <2>5, <2>6
<1>10. walk = G(walk)
    BY <1>9
<1> HIDE DEF walk
<1>11. walk[0] = first /\ \A i \in 1 .. n : walk[i] = EndTouchNext(walk[i - 1], t[i], now)
    BY <1>1, <1>10
<1> DEFINE Skips(x) == IF x.skip THEN 1 ELSE 0
           Good(i) == {x \in Walking : now = 2 =>
                          /\ 2 * (n - Len(x.s.trackers)) >= i + Skips(x)
                          /\ \A j \in 1 .. n : j > i => t[j] \in Tracked(x.s)}
<1>12. first \in Good(0)
    <2>1. first.s = s /\ ~first.skip
        BY <1>5, WalkingIs
    <2>2. Skips(first) = 0
        BY <2>1
    <2>3. 2 * (n - Len(first.s.trackers)) = 0
        BY <1>1, <1>2, <2>1
    <2>4. 2 * (n - Len(first.s.trackers)) >= 0 + Skips(first)
        BY <2>2, <2>3
    <2> QED BY <1>3, <1>5, <2>1, <2>4
<1>13. ASSUME NEW i \in 1 .. n, NEW x \in Good(i - 1)
       PROVE  EndTouchNext(x, t[i], now) \in Good(i)
    <2> DEFINE r == EndTouchNext(x, t[i], now)
    <2>1. /\ r \in Walking /\ x \in Walking
          /\ x.skip => r.s = x.s /\ ~r.skip
          /\ now = 2 /\ ~x.skip /\ t[i] \in Tracked(x.s) => Left(x.s, r.s, t[i])
        BY <1>3, EndTouchNextIs
    <2> HIDE DEF r
    <2>2. SUFFICES ASSUME now = 2
                   PROVE  /\ 2 * (n - Len(r.s.trackers)) >= i + Skips(r)
                          /\ \A j \in 1 .. n : j > i => t[j] \in Tracked(r.s)
        BY <2>1 DEF r
    <2>3. 2 * (n - Len(x.s.trackers)) >= i - 1 + Skips(x) /\ \A j \in 1 .. n : j > i - 1 => t[j] \in Tracked(x.s)
        BY <2>2
    <2>4. Len(x.s.trackers) \in Nat /\ Len(r.s.trackers) \in Nat
        BY <2>1, Fields DEF Walking
    <2>5. CASE x.skip
        BY <1>1, <2>1, <2>3, <2>4, <2>5
    <2>6. CASE ~x.skip
        <3>1. t[i] \in Tracked(x.s)
            BY <2>3
        <3>2. Tracked(r.s) = Tracked(x.s) \ {t[i]} /\ Len(r.s.trackers) = Len(x.s.trackers) - 1
            BY <2>1, <2>2, <2>6, <3>1 DEF Left
        <3>3. \A j \in 1 .. n : j > i => t[j] \in Tracked(x.s) /\ t[j] # t[i]
            BY <1>4, <2>3
        <3>4. Skips(x) = 0 /\ Skips(r) \in {0, 1}
            BY <2>6
        <3>5. 2 * (n - Len(x.s.trackers)) >= i - 1
            BY <2>3, <3>4
        <3>6. 2 * (n - Len(r.s.trackers)) >= i + 1
            <4> DEFINE many == Len(x.s.trackers)
                       fewer == Len(r.s.trackers)
            <4>1. many \in Nat /\ fewer = many - 1 /\ 2 * (n - many) >= i - 1
                BY <2>4, <3>2, <3>5
            <4> HIDE DEF many, fewer
            <4>2. 2 * (n - fewer) >= i + 1
                BY <1>1, <4>1
            <4> QED BY <4>2 DEF fewer
        <3>7. 2 * (n - Len(r.s.trackers)) >= i + Skips(r)
            BY <1>1, <2>4, <3>4, <3>6
        <3> QED BY <3>2, <3>3, <3>7
    <2> QED BY <2>5, <2>6
<1> HIDE DEF Good
<1>14. walk[n] \in Good(n)
    <2> DEFINE good == [i \in 0 .. n |-> Good(i)]
    <2>1. walk[0] \in good[0] /\ \A i \in 1 .. n : walk[i - 1] \in good[i - 1] => walk[i] \in good[i]
        BY <1>1, <1>11, <1>12, <1>13
    <2>2. \A i \in 0 .. n : walk[i] \in good[i]
        <3> HIDE DEF good
        <3> QED BY <1>1, <2>1, WalkKeeps
    <2> QED BY <1>1, <2>2
<1>15. /\ walk[n] \in Walking /\ Len(walk[n].s.trackers) \in Nat
       /\ now = 2 => 2 * (n - Len(walk[n].s.trackers)) >= n
    <2>1. /\ walk[n] \in Walking
          /\ now = 2 => 2 * (n - Len(walk[n].s.trackers)) >= n + Skips(walk[n])
        BY <1>14 DEF Good
    <2>2. Len(walk[n].s.trackers) \in Nat
        BY <2>1, Fields DEF Walking
    <2> QED BY <1>1, <2>1, <2>2
<1>16. Fits(walk[n].s)
    BY <1>15 DEF Walking
<1>17. now = 2 => 2 * Len(walk[n].s.trackers) <= n
    BY <1>1, <1>15
<1> QED BY <1>7, <1>16, <1>2, <1>17

LEMMA UpdateFits ==
    ASSUME WorldFits, NEW s, Fits(s), NEW hit, NEW now \in Moments, now >= Now
    PROVE  /\ Fits(UpdateTriggerTouchList(s, hit, now))
           /\ ~solid /\ now = 2 => 2 * Len(UpdateTriggerTouchList(s, hit, now).trackers) <= Len(s.trackers)
<1>1. Fits(LeaveOthers(s, hit, now))
    BY LeaveOthersFits DEF FitUpto
<1>2. Fits(TouchHit(LeaveOthers(s, hit, now), hit, now))
    BY <1>1, TouchHitFits
<1> QED BY <1>2, EndTouchAllFits DEF UpdateTriggerTouchList

(***************************************************************************)
(* TriggerTouch: the pushes.                                               *)
(***************************************************************************)
\* What is due is applied, and what has rested is taken out.
AppliedNow(event, now, frametime) == [event EXCEPT !.applied = @ \/ Due(event, now, frametime)]

LEMMA AppliedIs ==
    ASSUME NEW event \in PushEvent, NEW now \in Int, NEW frametime \in Int
    PROVE  /\ AppliedNow(event, now, frametime) \in PushEvent
           /\ AppliedNow(event, now, frametime).source = event.source
           /\ AppliedNow(event, now, frametime).pushTime = event.pushTime
           /\ AppliedNow(event, now, frametime).applied <=> event.applied \/ Due(event, now, frametime)
BY DEF AppliedNow, PushEvent, Due

AfterPushing(events, now, frametime) ==
    {e \in {AppliedNow(event, now, frametime) : event \in events} : ~Rested(e, now, frametime)}

LEMMA AfterIs ==
    ASSUME NEW events \in SUBSET PushEvent, NEW now \in Int, NEW frametime \in Int
    PROVE  /\ AfterPushing(events, now, frametime) \in SUBSET PushEvent
           /\ \A e \in AfterPushing(events, now, frametime) :
                  /\ ~Rested(e, now, frametime)
                  /\ \E event \in events : e = AppliedNow(event, now, frametime)
           /\ \A event \in events : \/ AppliedNow(event, now, frametime) \in AfterPushing(events, now, frametime)
                                    \/ Rested(AppliedNow(event, now, frametime), now, frametime)
<1>1. \A event \in events : AppliedNow(event, now, frametime) \in PushEvent
    BY AppliedIs
<1> QED BY <1>1 DEF AfterPushing

LEMMA PushingIs ==
    ASSUME NEW s \in TouchState, NEW now \in Int, NEW frametime \in Int
    PROVE  /\ Pushing(s, now, frametime) \in TouchState
           /\ Pushing(s, now, frametime).trackers = s.trackers
           /\ Pushing(s, now, frametime).inside = s.inside
           /\ Pushing(s, now, frametime).pushEvents =
                  IF frametime = 0 THEN s.pushEvents ELSE AfterPushing(s.pushEvents, now, frametime)
<1> DEFINE applied == {AppliedNow(event, now, frametime) : event \in s.pushEvents}
           m == NewEvents(s, applied)
           left == {e \in m.pushEvents : ~Rested(e, now, frametime)}
<1>1. applied \in SUBSET PushEvent
    <2>1. \A event \in s.pushEvents : AppliedNow(event, now, frametime) \in PushEvent
        BY Fields, AppliedIs
    <2> QED BY <2>1
<1>2. ApplyPushes(s, now, frametime) = m
    BY DEF ApplyPushes, NewEvents, AppliedNow
<1>3. AfterPushing(s.pushEvents, now, frametime) = {e \in applied : ~Rested(e, now, frametime)}
    BY DEF AfterPushing
<1> HIDE DEF applied
<1>4. m \in TouchState /\ m.pushEvents = applied /\ m.trackers = s.trackers /\ m.inside = s.inside
    BY <1>1, WithEvents
<1> HIDE DEF m
<1>5. left \in SUBSET PushEvent /\ left = AfterPushing(s.pushEvents, now, frametime)
    BY <1>1, <1>3, <1>4
<1>6. frametime # 0 => Pushing(s, now, frametime) = NewEvents(m, left)
    BY <1>2 DEF Pushing, CleanupPushEvents, NewEvents
<1>7. frametime = 0 => Pushing(s, now, frametime) = s
    BY DEF Pushing
<1> HIDE DEF left
<1> QED BY <1>4, <1>5, <1>6, <1>7, WithEvents

\* The last push of a trigger, after what is pushed.
LEMMA LastIs ==
    ASSUME NEW pushed \in SUBSET PushEvent, lastPush \in [Pushes -> Int],
           \A e, f \in pushed : e.source = f.source => e = f
    PROVE  /\ \A e \in pushed : LastPush(pushed, e.source) = e.pushTime
           /\ \A t \in Pushes : /\ (\A e \in pushed : e.source # t) => LastPush(pushed, t) = lastPush[t]
                                /\ LastPush(pushed, t) \in Int
<1>1. ASSUME NEW e \in pushed
      PROVE  LastPush(pushed, e.source) = e.pushTime
    <2>1. (CHOOSE f \in pushed : f.source = e.source) = e
        OBVIOUS
    <2> QED BY <2>1 DEF LastPush, Sources
<1>2. \A t \in Pushes : (\A e \in pushed : e.source # t) => LastPush(pushed, t) = lastPush[t]
    BY DEF LastPush, Sources
<1>3. \A e \in pushed : e.pushTime \in Int
    BY DEF PushEvent
<1> QED BY <1>1, <1>2, <1>3

\* The lengths of a step and of a tick.
DueOf(events, now, frametime) == {e \in events : ~e.applied /\ Due(e, now, frametime)}
LastOf(pushed) == [t \in Pushes |-> LastPush(pushed, t)]

LEMMA PushStep ==
    ASSUME NEW events \in SUBSET PushEvent, lastPush \in [Pushes -> Int], NEW at \in Nat, NEW now \in Nat,
           NEW frametime \in Nat, at <= now, EventsFit(events, lastPush, at),
           NEW pushed, pushed = DueOf(events, now, frametime), NEW last, last = LastOf(pushed),
           NEW new, new = AfterPushing(events, now, frametime)
    PROVE  /\ EventsFit(new, last, now) /\ last \in [Pushes -> Int] /\ TooSoon(pushed) = {}
           /\ \A e \in new : ~e.applied => ~Due(e, now, frametime)
<1> USE DEF DueOf, LastOf
<1>1. /\ new \in SUBSET PushEvent
      /\ \A e \in new : ~Rested(e, now, frametime) /\ \E event \in events : e = AppliedNow(event, now, frametime)
      /\ \A event \in events : \/ AppliedNow(event, now, frametime) \in new
                               \/ Rested(AppliedNow(event, now, frametime), now, frametime)
    <2>1. now \in Int /\ frametime \in Int
        OBVIOUS
    <2> QED BY <2>1, AfterIs
<1>2. \A event \in events :
          LET e == AppliedNow(event, now, frametime)
          IN  /\ e \in PushEvent /\ e.source = event.source /\ e.pushTime = event.pushTime
              /\ e.applied <=> event.applied \/ Due(event, now, frametime)
    BY AppliedIs
<1>3. \A e, f \in events : e.source = f.source => e = f
    BY DEF EventsFit
<1>4. pushed \in SUBSET PushEvent /\ pushed \subseteq events /\ \A e, f \in pushed : e.source = f.source => e = f
    BY <1>3
<1>5. /\ \A e \in pushed : LastPush(pushed, e.source) = e.pushTime
      /\ \A t \in Pushes : /\ (\A e \in pushed : e.source # t) => LastPush(pushed, t) = lastPush[t]
                           /\ LastPush(pushed, t) \in Int
    BY <1>4, LastIs
<1>6. /\ \A e \in events : e.source \in Pushes /\ e.pushTime \in Int /\ e.applied \in BOOLEAN
      /\ Cooldown \in Nat /\ None \in Int
    BY TriggerAssumption DEF PushEvent, None
<1>7. \A event \in events : event \notin pushed => last[event.source] = lastPush[event.source]
    BY <1>3, <1>4, <1>5, <1>6
<1>8. \A event \in pushed : last[event.source] = event.pushTime
    BY <1>4, <1>5, <1>6
<1>9. last \in [Pushes -> Int]
    BY <1>5
<1>10. ASSUME NEW event \in events
       PROVE  EventFits(AppliedNow(event, now, frametime), last)
    <2>1. EventFits(event, lastPush)
        BY DEF EventsFit
    <2>2. CASE event \in pushed
        BY <1>2, <1>8, <2>2 DEF EventFits
    <2>3. CASE event \notin pushed
        <3>1. (AppliedNow(event, now, frametime).applied <=> event.applied)
            BY <1>2, <1>6, <2>3
        <3> QED BY <1>2, <1>7, <2>1, <2>3, <3>1 DEF EventFits, RestedIn
    <2> QED BY <2>2, <2>3
<1>11. \A e \in new : EventFits(e, last)
    BY <1>1, <1>10
<1>12. \A e, f \in new : e.source = f.source => e = f
    BY <1>1, <1>2, <1>3
<1>13. ASSUME NEW t \in Pushes, \A e \in new : e.source # t
       PROVE  RestedIn(last, t, now)
    <2>1. CASE \A event \in events : event.source # t
        <3>1. RestedIn(lastPush, t, at) /\ last[t] = lastPush[t]
            BY <1>4, <1>5, <2>1 DEF EventsFit
        <3> QED BY <1>6, <3>1 DEF RestedIn
    <2>2. CASE \E event \in events : event.source = t
        <3>1. PICK event \in events : event.source = t
            BY <2>2
        <3>2. Rested(AppliedNow(event, now, frametime), now, frametime)
            BY <1>1, <1>2, <1>13, <3>1
        <3>3. now - frametime >= event.pushTime + Cooldown
            BY <1>2, <3>2 DEF Rested
        <3>4. event \notin pushed
            BY <1>6, <3>3 DEF Due
        <3>5. event.applied /\ last[t] = lastPush[t]
            BY <1>2, <1>6, <1>7, <3>1, <3>2, <3>4 DEF Rested
        <3>6. lastPush[t] \in {None, event.pushTime}
            BY <3>1, <3>5 DEF EventsFit, EventFits
        <3> QED BY <1>6, <3>3, <3>5, <3>6 DEF RestedIn
    <2> QED BY <2>1, <2>2
<1>14. EventsFit(new, last, now)
    BY <1>11, <1>12, <1>13 DEF EventsFit
<1>15. TooSoon(pushed) = {}
    <2>1. ASSUME NEW e \in pushed
          PROVE  ~(lastPush[e.source] # None /\ e.pushTime < lastPush[e.source] + Cooldown)
        <3>1. RestedIn(lastPush, e.source, e.pushTime)
            BY DEF EventsFit, EventFits
        <3> QED BY <1>4, <1>6, <3>1 DEF RestedIn
    <2> QED BY <2>1 DEF TooSoon, Sources
<1>16. ASSUME NEW e \in new, ~e.applied
       PROVE  ~Due(e, now, frametime)
    <2>1. PICK event \in events : e = AppliedNow(event, now, frametime)
        BY <1>1
    <2>2. ~Due(event, now, frametime) /\ e.pushTime = event.pushTime
        BY <1>2, <1>16, <2>1
    <2> QED BY <1>6, <2>2 DEF Due
<1> QED BY <1>9, <1>14, <1>15, <1>16

\* The end of the tick sets the times of the pushes back.
SetBack(event) == [event EXCEPT !.pushTime = @ - 2]

LEMMA SetBackIs ==
    ASSUME NEW event \in PushEvent
    PROVE  /\ SetBack(event) \in PushEvent /\ SetBack(event).source = event.source
           /\ SetBack(event).pushTime = event.pushTime - 2 /\ SetBack(event).applied = event.applied
BY DEF SetBack, PushEvent

AllBack(events) == {SetBack(event) : event \in events}
BackOf(last) == [t \in Pushes |-> IF Counts(last[t]) THEN last[t] - 2 ELSE None]

LEMMA ShiftedFit ==
    ASSUME NEW events \in SUBSET PushEvent, NEW last \in [Pushes -> Int], EventsFit(events, last, 2),
           \A e \in events : ~e.applied => ~Due(e, 2, 2),
           NEW back, back = BackOf(last), NEW new, new = AllBack(events)
    PROVE  new \in SUBSET PushEvent /\ back \in [Pushes -> Int] /\ EventsFit(new, back, 0)
<1> USE DEF AllBack, BackOf
<1>1. /\ \A e \in events : e \in PushEvent /\ e.source \in Pushes /\ e.pushTime \in Int /\ e.applied \in BOOLEAN
      /\ Cooldown \in Nat /\ None \in Int /\ None = -1 - Cooldown
    BY TriggerAssumption DEF PushEvent, None
<1>2. \A event \in events :
          /\ SetBack(event) \in PushEvent /\ SetBack(event).source = event.source
          /\ SetBack(event).pushTime = event.pushTime - 2 /\ SetBack(event).applied = event.applied
    BY SetBackIs
<1>3. back \in [Pushes -> Int]
    BY <1>1
<1>4. \A t \in Pushes : last[t] \in Int /\ back[t] = IF Counts(last[t]) THEN last[t] - 2 ELSE None
    OBVIOUS
<1>5. \A e, f \in new : e.source = f.source => e = f
    BY <1>2 DEF EventsFit
<1>6. ASSUME NEW event \in events
      PROVE  EventFits(SetBack(event), back)
    <2>1. EventFits(event, last)
        BY DEF EventsFit
    <2>2. CASE event.applied
        <3>1. last[event.source] \in {None, event.pushTime}
            BY <2>1, <2>2 DEF EventFits
        <3>2. event.source \in Pushes /\ event.pushTime \in Int
            BY <1>1
        <3>3. back[event.source] = IF Counts(last[event.source]) THEN last[event.source] - 2 ELSE None
            BY <1>4, <3>2
        <3>4. back[event.source] \in {None, event.pushTime - 2}
            BY <1>1, <3>1, <3>2, <3>3 DEF Counts
        <3> QED BY <1>2, <2>2, <3>4 DEF EventFits
    <2>3. CASE ~event.applied
        <3>1. event.pushTime > 2
            BY <1>1, <2>1, <2>3 DEF EventFits, Due
        <3> QED BY <1>1, <1>2, <1>4, <2>1, <2>3, <3>1 DEF EventFits, RestedIn, Counts
    <2> QED BY <2>2, <2>3
<1>7. ASSUME NEW t \in Pushes, \A e \in new : e.source # t
      PROVE  RestedIn(back, t, 0)
    <2>1. \A event \in events : event.source # t
        BY <1>2, <1>7
    <2>2. RestedIn(last, t, 2)
        BY <2>1 DEF EventsFit
    <2> QED BY <1>1, <1>4, <2>2 DEF RestedIn, Counts
<1> QED BY <1>2, <1>3, <1>5, <1>6, <1>7 DEF EventsFit

(***************************************************************************)
(* TriggerTouch: every step keeps the invariant.                           *)
(***************************************************************************)
IndTriggers == WorldFits /\ Fits(touch) /\ early = {}

\* What the next state must be.
LEMMA NextFits ==
    ASSUME touch' \in TouchState, ToldWith(touch', there'), EventsFit(touch'.pushEvents, lastPush', Now'),
           there' \subseteq Triggers, passes' \subseteq Triggers, solid' \in BOOLEAN,
           lastPush' \in [Pushes -> Int], step' \in Idle .. 2, early' = {}
    PROVE  IndTriggers'
<1>1. WorldFits'
    BY DEF WorldFits
<1>2. ToldFits(touch)'
    BY DEF ToldFits, ToldWith
<1>3. PushesFit(touch)'
    BY DEF PushesFit, EventsFit, EventFits, RestedIn
<1> QED BY <1>1, <1>2, <1>3 DEF IndTriggers, Fits

LEMMA ToldSame ==
    ASSUME NEW s, NEW exist, ToldWith(s, exist), NEW r, r.trackers = s.trackers, r.inside = s.inside
    PROVE  ToldWith(r, exist)
BY SameTrackers DEF ToldWith

\* The marks of a tick are taken away.
Unmarked(trackers) == [i \in DOMAIN trackers |-> [trackers[i] EXCEPT !.touchedThisTick = FALSE]]

LEMMA UnmarkedTold ==
    ASSUME NEW s \in TouchState, ToldFits(s), NEW r, r = NewTrackers(s, Unmarked(s.trackers))
    PROVE  r \in TouchState /\ ToldFits(r) /\ r.pushEvents = s.pushEvents
<1> DEFINE q == s.trackers
           new == Unmarked(q)
<1>1. q \in Seq(Tracker) /\ Len(q) \in Nat /\ DOMAIN q = 1 .. Len(q)
    BY Fields
<1> HIDE DEF q
<1>2. DOMAIN new = DOMAIN q /\ \A i \in DOMAIN q : new[i] = [q[i] EXCEPT !.touchedThisTick = FALSE]
    BY DEF Unmarked
<1>3. \A i \in DOMAIN q : /\ new[i] \in Tracker /\ new[i].trigger = q[i].trigger
                          /\ new[i].mappingApiStartedTouch = q[i].mappingApiStartedTouch
    <2>1. \A i \in DOMAIN q : q[i] \in Tracker
        BY <1>1
    <2> QED BY <1>2, <2>1 DEF Tracker
<1>4. new \in Seq(Tracker)
    BY <1>1, <1>3 DEF Unmarked
<1> HIDE DEF new
<1>5. r \in TouchState /\ r.trackers = new /\ r.pushEvents = s.pushEvents /\ r.inside = s.inside
    BY <1>4, WithTrackers DEF new, q
<1>6. Tracked(r) = Tracked(s) /\ (OneTracker(r) <=> OneTracker(s))
    BY <1>2, <1>3, <1>5 DEF Tracked, OneTracker, q
<1>7. Started(r) = Started(s)
    BY <1>2, <1>3, <1>5, <1>6 DEF Started, q
<1> QED BY <1>5, <1>6, <1>7 DEF ToldFits, ToldWith

LEMMA SimulateKeeps ==
    ASSUME IndTriggers, OnPhysicsSimulateTriggers
    PROVE  IndTriggers'
<1> DEFINE ended == EndVanished(touch, 2)
<1>1. step = Idle /\ step' = 0 /\ UNCHANGED <<there, passes, solid, lastPush, early>>
    BY DEF OnPhysicsSimulateTriggers, world
<1>2. touch' = NewTrackers(ended, Unmarked(ended.trackers))
    BY DEF OnPhysicsSimulateTriggers, NewTrackers, Unmarked
<1>3. 2 \in Moments /\ 2 >= Now
    BY <1>1 DEF Moments, Now
<1>4. Fits(ended)
    BY <1>3, EndVanishedFits DEF IndTriggers, FitUpto
<1> HIDE DEF ended
<1>5. touch' \in TouchState /\ ToldFits(touch') /\ touch'.pushEvents = ended.pushEvents
    BY <1>2, <1>4, UnmarkedTold DEF Fits
<1>6. EventsFit(touch'.pushEvents, lastPush, Now)
    BY <1>4, <1>5 DEF PushesFit, Fits
<1>7. Now' = Now
    BY <1>1 DEF Now, Idle
<1>8. ToldWith(touch', there)
    BY <1>5 DEF ToldFits, ToldWith
<1> QED BY <1>1, <1>5, <1>6, <1>7, <1>8, NextFits DEF IndTriggers, WorldFits, Idle

LEMMA MovementKeeps ==
    ASSUME IndTriggers, NEW now \in {1, 2}, NEW jumped \in BOOLEAN, NEW hit, NEW path,
           ProcessMovement(now, path, hit, jumped)
    PROVE  IndTriggers'
<1> DEFINE left   == OnStopTouchGround(touch, jumped, now)
           passed == TouchTriggersAlongPath(left, path, now)
           walked == UpdateTriggerTouchList(passed, hit, now)
           pushed == Pushed(walked, now, now - step)
<1>1. /\ step # Idle /\ now >= step /\ step' = now /\ UNCHANGED <<there, passes, solid>>
      /\ touch' = Pushing(walked, now, now - step)
      /\ lastPush' = LastOf(pushed) /\ early' = early \cup TooSoon(pushed)
    BY DEF ProcessMovement, world, LastOf
<1>2. WorldFits /\ Fits(touch) /\ early = {}
    BY DEF IndTriggers
<1>3. /\ now \in Moments /\ now \in Nat /\ step \in Nat /\ now - step \in Nat /\ now - step \in Int /\ now \in Int
      /\ Now = step /\ now >= Now /\ Now' = now
    BY <1>1, <1>2 DEF Moments, WorldFits, Now, Idle
<1>4. Fits(left)
    <2>1. jumped \/ left = touch
        BY DEF OnStopTouchGround
    <2> QED BY <1>2, <1>3, <2>1, OnStopTouchGroundFits
<1> HIDE DEF left
<1>5. Fits(passed)
    BY <1>2, <1>3, <1>4, AlongPathFits
<1> HIDE DEF passed
<1>6. Fits(walked)
    BY <1>2, <1>3, <1>5, UpdateFits
<1> HIDE DEF walked
<1>7. walked \in TouchState /\ ToldWith(walked, there) /\ EventsFit(walked.pushEvents, lastPush, step)
    BY <1>3, <1>6 DEF PushesFit, ToldFits, ToldWith, Fits
<1>8. /\ touch' \in TouchState /\ touch'.trackers = walked.trackers /\ touch'.inside = walked.inside
      /\ touch'.pushEvents = IF now - step = 0 THEN walked.pushEvents
                             ELSE AfterPushing(walked.pushEvents, now, now - step)
    BY <1>1, <1>3, <1>7, PushingIs
<1>9. ToldWith(touch', there')
    BY <1>1, <1>7, <1>8, ToldSame
<1>10. CASE now - step = 0
    <2>1. pushed = {} /\ now = step
        BY <1>3, <1>10 DEF Pushed
    <2>2. \A t \in Pushes : LastPush(pushed, t) = lastPush[t]
        BY <2>1 DEF LastPush, Sources
    <2>3. lastPush' = lastPush
        BY <1>1, <1>2, <2>2 DEF WorldFits, LastOf
    <2>4. early' = {}
        BY <1>1, <1>2, <2>1 DEF TooSoon, Sources
    <2>5. EventsFit(touch'.pushEvents, lastPush', Now')
        BY <1>3, <1>7, <1>8, <1>10, <2>1, <2>3
    <2> QED BY <1>1, <1>2, <1>3, <1>8, <1>9, <2>3, <2>4, <2>5, NextFits DEF WorldFits, Idle
<1>11. CASE now - step # 0
    <2>1. pushed = DueOf(walked.pushEvents, now, now - step)
        BY <1>11 DEF Pushed, DueOf
    <2>2. walked.pushEvents \in SUBSET PushEvent /\ lastPush \in [Pushes -> Int]
        BY <1>2, <1>7, Fields DEF WorldFits
    <2>3. touch'.pushEvents = AfterPushing(walked.pushEvents, now, now - step)
        BY <1>8, <1>11
    <2> HIDE DEF pushed
    <2>4. EventsFit(touch'.pushEvents, lastPush', now) /\ lastPush' \in [Pushes -> Int] /\ TooSoon(pushed) = {}
        BY <1>1, <1>3, <1>7, <2>1, <2>2, <2>3, PushStep
    <2> QED BY <1>1, <1>2, <1>3, <1>8, <1>9, <2>4, NextFits DEF WorldFits, Idle
<1> QED BY <1>10, <1>11

LEMMA PostKeeps ==
    ASSUME IndTriggers, NEW hit, OnPhysicsSimulatePostTriggers(hit)
    PROVE  /\ IndTriggers'
           /\ ~solid => Len(touch'.trackers) <= Len(touch.trackers) \div 2
<1> DEFINE listed == UpdateTriggerTouchList(touch, hit, 2)
           walked == TouchAll(listed, 2)
           pushed == Pushed(walked, 2, 2)
           given  == Pushing(walked, 2, 2)
           last   == LastOf(pushed)
<1>1. /\ step # Idle /\ step' = Idle /\ UNCHANGED <<there, passes, solid>>
      /\ touch' = Shifted(given) /\ early' = early \cup TooSoon(pushed)
      /\ lastPush' = BackOf(last)
    <2>1. lastPush' = [t \in Pushes |-> IF Counts(LastPush(pushed, t)) THEN LastPush(pushed, t) - 2 ELSE None]
        BY DEF OnPhysicsSimulatePostTriggers
    <2>2. \A t \in Pushes : last[t] = LastPush(pushed, t)
        BY DEF LastOf
    <2>3. lastPush' = BackOf(last)
        BY <2>1, <2>2 DEF BackOf
    <2> QED BY <2>3 DEF OnPhysicsSimulatePostTriggers, world
<1>2. WorldFits /\ Fits(touch) /\ early = {}
    BY DEF IndTriggers
<1>3. 2 \in Moments /\ 2 >= Now /\ Now = step /\ step \in Nat /\ step <= 2 /\ Now' = 0
    BY <1>1, <1>2 DEF Moments, WorldFits, Now, Idle
<1>4. Fits(listed) /\ (~solid => 2 * Len(listed.trackers) <= Len(touch.trackers))
    BY <1>2, <1>3, UpdateFits
<1> HIDE DEF listed
<1>5. Fits(walked) /\ Len(walked.trackers) <= Len(listed.trackers)
    BY <1>2, <1>3, <1>4, TouchAllFits DEF FitUpto
<1> HIDE DEF walked
<1>6. walked \in TouchState /\ ToldWith(walked, there) /\ EventsFit(walked.pushEvents, lastPush, step)
    BY <1>3, <1>5 DEF PushesFit, ToldFits, ToldWith, Fits
<1>7. /\ given \in TouchState /\ given.trackers = walked.trackers /\ given.inside = walked.inside
      /\ given.pushEvents = AfterPushing(walked.pushEvents, 2, 2)
    BY <1>6, PushingIs
<1>8. pushed = DueOf(walked.pushEvents, 2, 2)
    BY DEF Pushed, DueOf
<1>9. walked.pushEvents \in SUBSET PushEvent /\ lastPush \in [Pushes -> Int]
    BY <1>2, <1>6, Fields DEF WorldFits
<1> HIDE DEF pushed, given
<1>10. /\ EventsFit(given.pushEvents, last, 2) /\ last \in [Pushes -> Int] /\ TooSoon(pushed) = {}
       /\ \A e \in given.pushEvents : ~e.applied => ~Due(e, 2, 2)
    <2>1. 2 \in Nat /\ step \in Nat /\ step <= 2 /\ EventsFit(walked.pushEvents, lastPush, step)
        BY <1>3, <1>6
    <2>2. given.pushEvents = AfterPushing(walked.pushEvents, 2, 2)
        BY <1>7
    <2>3. last = LastOf(pushed)
        OBVIOUS
    <2> HIDE DEF last
    <2>4. ASSUME NEW now \in Nat, now = 2
          PROVE  /\ EventsFit(given.pushEvents, last, now) /\ last \in [Pushes -> Int] /\ TooSoon(pushed) = {}
                 /\ \A e \in given.pushEvents : ~e.applied => ~Due(e, now, now)
        <3>1. pushed = DueOf(walked.pushEvents, now, now) /\ given.pushEvents = AfterPushing(walked.pushEvents, now, now)
            BY <1>8, <2>2, <2>4
        <3>2. step \in Nat /\ step <= now /\ EventsFit(walked.pushEvents, lastPush, step)
            BY <2>1, <2>4
        <3> QED BY <1>9, <2>3, <3>1, <3>2, PushStep
    <2> QED BY <2>4
<1> HIDE DEF last
<1> DEFINE back == AllBack(given.pushEvents)
<1>11. given.pushEvents \in SUBSET PushEvent
    BY <1>7, Fields
<1>12. back \in SUBSET PushEvent /\ lastPush' \in [Pushes -> Int] /\ EventsFit(back, lastPush', 0)
    <2>1. EventsFit(given.pushEvents, last, 2) /\ last \in [Pushes -> Int]
        BY <1>10
    <2>2. \A e \in given.pushEvents : ~e.applied => ~Due(e, 2, 2)
        BY <1>10
    <2>3. lastPush' = BackOf(last) /\ back = AllBack(given.pushEvents)
        BY <1>1
    <2> HIDE DEF back
    <2> QED BY <1>11, <2>1, <2>2, <2>3, ShiftedFit
<1>13. touch' = NewEvents(given, back)
    BY <1>1 DEF Shifted, NewEvents, SetBack, AllBack
<1> HIDE DEF back
<1>14. /\ touch' \in TouchState /\ touch'.pushEvents = back
       /\ touch'.trackers = walked.trackers /\ touch'.inside = walked.inside
    BY <1>7, <1>12, <1>13, WithEvents
<1>15. ToldWith(touch', there')
    BY <1>1, <1>6, <1>14, ToldSame
<1>16. IndTriggers'
    BY <1>1, <1>2, <1>3, <1>10, <1>12, <1>14, <1>15, NextFits DEF WorldFits, Idle
<1>17. ~solid => Len(touch'.trackers) <= Len(touch.trackers) \div 2
    <2> DEFINE many  == Len(touch.trackers)
               some  == Len(listed.trackers)
               fewer == Len(touch'.trackers)
    <2>1. many \in Nat /\ some \in Nat /\ fewer \in Nat /\ fewer <= some /\ (~solid => 2 * some <= many)
        <3>1. touch \in TouchState /\ listed \in TouchState
            BY <1>2, <1>4 DEF Fits
        <3>2. many \in Nat
            BY <3>1, Fields
        <3>3. some \in Nat
            BY <3>1, Fields
        <3>4. fewer \in Nat
            BY <1>14, Fields
        <3> QED BY <1>4, <1>5, <1>14, <3>2, <3>3, <3>4
    <2> HIDE DEF many, some, fewer
    <2>2. ~solid => fewer <= many \div 2
        BY <2>1
    <2> QED BY <2>2 DEF many, fewer
<1> QED BY <1>16, <1>17

LEMMA CancelKeeps ==
    ASSUME IndTriggers, OnTeleportTriggers
    PROVE  IndTriggers'
<1> DEFINE left == {event \in touch.pushEvents : event.source \notin CancelOnTeleport}
<1>1. /\ touch' = NewEvents(touch, left) /\ UNCHANGED <<there, passes, solid, step, early>>
      /\ lastPush' = [t \in Pushes |-> IF t \in CancelOnTeleport THEN None ELSE lastPush[t]]
    BY DEF OnTeleportTriggers, world, NewEvents
<1>2. touch \in TouchState /\ ToldWith(touch, there) /\ EventsFit(touch.pushEvents, lastPush, Now)
    BY DEF ToldFits, ToldWith, PushesFit, IndTriggers, Fits
<1>3. left \in SUBSET PushEvent /\ lastPush \in [Pushes -> Int] /\ None \in Int
    BY <1>2, Fields, TriggerAssumption DEF IndTriggers, WorldFits, None
<1>4. lastPush' \in [Pushes -> Int]
    BY <1>1, <1>3
<1>5. \A e \in left : e \in touch.pushEvents /\ e.source \in Pushes /\ lastPush'[e.source] = lastPush[e.source]
    BY <1>1, <1>3 DEF PushEvent
<1>6. EventsFit(left, lastPush', Now)
    <2>1. \A e \in left : EventFits(e, lastPush')
        BY <1>2, <1>5 DEF EventsFit, EventFits, RestedIn
    <2>2. ASSUME NEW t \in Pushes, \A e \in left : e.source # t
          PROVE  RestedIn(lastPush', t, Now)
        <3>1. CASE t \in CancelOnTeleport
            BY <1>1, <3>1 DEF RestedIn
        <3>2. CASE t \notin CancelOnTeleport
            <4>1. \A e \in touch.pushEvents : e.source # t
                BY <2>2, <3>2
            <4> QED BY <1>1, <1>2, <3>2, <4>1 DEF EventsFit, RestedIn
        <3> QED BY <3>1, <3>2
    <2> QED BY <1>2, <1>5, <2>1, <2>2 DEF EventsFit
<1> HIDE DEF left
<1>7. /\ touch' \in TouchState /\ touch'.pushEvents = left
      /\ touch'.trackers = touch.trackers /\ touch'.inside = touch.inside
    BY <1>1, <1>2, <1>3, WithEvents
<1>8. ToldWith(touch', there')
    BY <1>1, <1>2, <1>7, ToldSame
<1>9. Now' = Now
    BY <1>1 DEF Now
<1> QED BY <1>1, <1>4, <1>6, <1>7, <1>8, <1>9, NextFits DEF IndTriggers, WorldFits

LEMMA NothingFits ==
    ASSUME NEW exist \in SUBSET Triggers, NEW at, NEW last, last = [t \in Pushes |-> None]
    PROVE  /\ NoTouch \in TouchState /\ ToldWith(NoTouch, exist) /\ last \in [Pushes -> Int]
           /\ EventsFit(NoTouch.pushEvents, last, at)
<1>1. /\ NoTouch.trackers = <<>> /\ NoTouch.pushEvents = {} /\ NoTouch.inside = [t \in Triggers |-> 0]
      /\ NoTouch \in TouchState
    BY DEF NoTouch, TouchState
<1>2. OneTracker(NoTouch) /\ Tracked(NoTouch) = {}
    BY <1>1 DEF OneTracker, Tracked
<1>3. Started(NoTouch) = {}
    BY <1>2 DEF Started
<1>4. ToldWith(NoTouch, exist)
    BY <1>1, <1>2, <1>3 DEF ToldWith
<1>5. None \in Int /\ EventsFit(NoTouch.pushEvents, last, at)
    BY <1>1, TriggerAssumption DEF EventsFit, RestedIn, None
<1> QED BY <1>1, <1>4, <1>5

LEMMA ResetKeeps ==
    ASSUME IndTriggers, Reset
    PROVE  IndTriggers'
<1>1. /\ touch' = NoTouch /\ lastPush' = [t \in Pushes |-> None]
      /\ UNCHANGED <<there, passes, solid, step, early>>
    BY DEF Reset, world
<1>2. there \in SUBSET Triggers
    BY DEF IndTriggers, WorldFits
<1> QED BY <1>1, <1>2, NothingFits, NextFits DEF IndTriggers, WorldFits

LEMMA WorldKeeps ==
    ASSUME IndTriggers, \/ \E t \in Triggers : Disappear(t) \/ Appear(t) \/ ChangeFilter(t)
                        \/ ChangeSolid \/ UNCHANGED triggerVars
    PROVE  IndTriggers'
<1>1. /\ touch \in TouchState /\ ToldWith(touch, there) /\ EventsFit(touch.pushEvents, lastPush, Now)
      /\ WorldFits /\ early = {}
    BY DEF ToldFits, ToldWith, PushesFit, IndTriggers, Fits
<1>2. step' = step /\ lastPush' = lastPush /\ early' = early /\ Now' = Now
    BY DEF Disappear, Appear, ChangeFilter, ChangeSolid, triggerVars, Now
<1>3. there' \subseteq Triggers /\ passes' \subseteq Triggers /\ solid' \in BOOLEAN
    BY <1>1 DEF Disappear, Appear, ChangeFilter, ChangeSolid, triggerVars, WorldFits
<1>4. CASE touch' = touch /\ there' \subseteq there
    <2>1. ToldWith(touch', there')
        BY <1>1, <1>4 DEF ToldWith
    <2> QED BY <1>1, <1>2, <1>3, <1>4, <2>1, NextFits DEF WorldFits
<1>5. ASSUME NEW t \in Triggers, Appear(t)
      PROVE  IndTriggers'
    <2> DEFINE inside == [touch.inside EXCEPT ![t] = 0]
    <2>1. t \notin Tracked(touch) /\ there' = there \cup {t}
        BY <1>5 DEF Appear
    <2>2. touch' = NewInside(touch, inside)
        BY <1>1, <1>5 DEF Appear, NewInside, TouchState
    <2>3. inside \in [Triggers -> Int] /\ \A u \in Triggers : inside[u] = IF u = t THEN 0 ELSE touch.inside[u]
        BY <1>1, Fields
    <2> HIDE DEF inside
    <2>4. /\ touch' \in TouchState /\ touch'.trackers = touch.trackers
          /\ touch'.pushEvents = touch.pushEvents /\ touch'.inside = inside
        BY <1>1, <2>2, <2>3, WithInside
    <2>5. OneTracker(touch') /\ Started(touch') = Started(touch) /\ t \notin Started(touch)
        BY <1>1, <2>1, <2>4, SameTrackers DEF ToldWith, Started
    <2>6. there \subseteq Triggers
        BY <1>1 DEF WorldFits
    <2>7. ToldWith(touch', there')
        BY <1>1, <2>1, <2>3, <2>4, <2>5, <2>6 DEF ToldWith
    <2> QED BY <1>1, <1>2, <1>3, <2>4, <2>7, NextFits DEF WorldFits
<1>6. (touch' = touch /\ there' \subseteq there) \/ \E t \in Triggers : Appear(t)
    BY DEF Disappear, ChangeFilter, ChangeSolid, triggerVars
<1> QED BY <1>4, <1>5, <1>6

LEMMA TriggersInit == InitTriggers => IndTriggers
<1>1. SUFFICES ASSUME InitTriggers PROVE IndTriggers
    OBVIOUS
<1>2. touch = NoTouch /\ there \in SUBSET Triggers /\ lastPush = [t \in Pushes |-> None] /\ early = {}
    BY <1>1 DEF InitTriggers
<1>3. /\ touch \in TouchState /\ ToldWith(touch, there) /\ EventsFit(touch.pushEvents, lastPush, Now)
      /\ lastPush \in [Pushes -> Int]
    BY <1>2, NothingFits
<1>4. WorldFits
    BY <1>1, <1>3 DEF InitTriggers, WorldFits, Idle
<1> QED BY <1>2, <1>3, <1>4 DEF ToldFits, ToldWith, PushesFit, IndTriggers, Fits

LEMMA TriggersNext == IndTriggers /\ [NextTriggers]_triggerVars => IndTriggers'
<1>1. SUFFICES ASSUME IndTriggers, [NextTriggers]_triggerVars PROVE IndTriggers'
    OBVIOUS
<1>2. CASE OnPhysicsSimulateTriggers
    BY <1>1, <1>2, SimulateKeeps
<1>3. ASSUME NEW now \in {1, 2}, NEW jumped \in BOOLEAN, NEW hit \in SUBSET Reached,
             NEW path \in SUBSET (Reached \ hit), ProcessMovement(now, path, hit, jumped)
      PROVE  IndTriggers'
    BY <1>1, <1>3, MovementKeeps
<1>4. ASSUME NEW hit \in SUBSET Reached, OnPhysicsSimulatePostTriggers(hit)
      PROVE  IndTriggers'
    BY <1>1, <1>4, PostKeeps
<1>5. CASE OnTeleportTriggers
    BY <1>1, <1>5, CancelKeeps
<1>6. CASE Reset
    BY <1>1, <1>6, ResetKeeps
<1>7. CASE \/ \E t \in Triggers : Disappear(t) \/ Appear(t) \/ ChangeFilter(t)
           \/ ChangeSolid \/ UNCHANGED triggerVars
    BY <1>1, <1>7, WorldKeeps
<1> QED BY <1>1, <1>2, <1>3, <1>4, <1>5, <1>6, <1>7 DEF NextTriggers

THEOREM TriggersInvariant == SpecTriggers => []IndTriggers
BY TriggersInit, TriggersNext, PTL DEF SpecTriggers

\* Every variable of the touched triggers has its type.
THEOREM TriggersTyped == SpecTriggers => []TypeOKTriggers
<1>1. IndTriggers => TypeOKTriggers
    BY Fields DEF IndTriggers, Fits, WorldFits, TypeOKTriggers
<1> QED BY <1>1, TriggersInvariant, PTL

\* The timer is told of the starts and ends of every trigger in turn, whatever
\* the filters, the rounds and the player's noclip do in between
\* (callbacks.cpp:88).
THEOREM TouchesMatch == SpecTriggers => []StartsAndEndsMatch
<1>1. IndTriggers => StartsAndEndsMatch
    <2>1. SUFFICES ASSUME IndTriggers, NEW t \in there
                   PROVE  touch.inside[t] = IF t \in Tracked(touch) /\ TrackerOf(touch, t).mappingApiStartedTouch
                                            THEN 1 ELSE 0
        BY DEF StartsAndEndsMatch
    <2>2. touch \in TouchState /\ OneTracker(touch) /\ touch.inside[t] = IF t \in Started(touch) THEN 1 ELSE 0
        BY <2>1 DEF IndTriggers, Fits, ToldFits, ToldWith
    <2>3. t \in Tracked(touch) => (TrackerOf(touch, t).mappingApiStartedTouch <=> t \in Started(touch))
        BY <2>2, TrackerIs
    <2>4. t \notin Tracked(touch) => t \notin Started(touch)
        BY DEF Started
    <2> QED BY <2>2, <2>3, <2>4
<1> QED BY <1>1, TriggersInvariant, PTL

\* Every push is applied in the tick in which it is due, and then its trigger
\* rests, whatever the delay and the cooldown (surf_trigger.cpp:52).
THEOREM PushesGiven == SpecTriggers => []PushesAreGiven
<1>1. IndTriggers => PushesAreGiven
    BY DEF IndTriggers, Fits, PushesFit, EventsFit, EventFits, PushesAreGiven, NoPushIsMissed, PushesRest
<1> QED BY <1>1, TriggersInvariant, PTL

\* A tick rids a player who is dead or noclips of at least half the triggers he
\* touches, though the walk passes over every other one (surf_trigger.cpp:198).
THEOREM OutOfReachHolds == SpecTriggers => OutOfReach
<1> DEFINE RidOfHalf == step # Idle /\ step' = Idle /\ ~solid =>
                         Len(touch'.trackers) <= Len(touch.trackers) \div 2
<1>1. IndTriggers /\ [NextTriggers]_triggerVars => [RidOfHalf]_triggerVars
    <2>1. SUFFICES ASSUME IndTriggers, NextTriggers, step # Idle, step' = Idle, ~solid
                   PROVE  Len(touch'.trackers) <= Len(touch.trackers) \div 2
        OBVIOUS
    <2>2. \E hit \in SUBSET Reached : OnPhysicsSimulatePostTriggers(hit)
        BY <2>1 DEF NextTriggers, OnPhysicsSimulateTriggers, ProcessMovement, OnTeleportTriggers, Reset, Disappear,
                    Appear, ChangeFilter, ChangeSolid, Idle
    <2> QED BY <2>1, <2>2, PostKeeps
<1> QED BY <1>1, TriggersInvariant, PTL DEF SpecTriggers, OutOfReach

(***************************************************************************)
(* ModesStyles: the registry and the plugins.                              *)
(***************************************************************************)
StyleInfo == [name : DOMAIN Plugin, loaded : BOOLEAN, excludes : SUBSET DOMAIN Plugin]

\* Each style is registered once, and never excludes more than its plugin does.
RegistryFits ==
    /\ styleInfos \in Seq(StyleInfo)
    /\ \A i, j \in DOMAIN styleInfos : styleInfos[i].name = styleInfos[j].name => i = j
    /\ \A i \in DOMAIN styleInfos : styleInfos[i].excludes \subseteq Plugin[styleInfos[i].name].excludes

PluginNames == {"3500vel", "5000vel", "10000vel", "LG", "HG", "TAS", "SW", "OnlyW", "HSW"}

LEMMA PluginIs ==
    /\ DOMAIN Plugin = PluginNames
    /\ \A p \in Plugins : Plugin[p.name] = p
<1> USE DEF Vel3500, Vel5000, Vel10000, LowGrav, HighGrav, TAS, Sideways, OnlyW, HalfSideways, StylePlugin, Unset
<1>1. {p.name : p \in Plugins} = PluginNames
    BY DEF Plugins, PluginNames
<1>2. \A p, q \in Plugins : p.name = q.name => p = q
    BY DEF Plugins
<1>3. \A p \in Plugins : (CHOOSE q \in Plugins : q.name = p.name) = p
    <2> HIDE DEF Plugins
    <2> QED BY <1>2
<1>4. DOMAIN Plugin = PluginNames
    BY <1>1 DEF Plugin
<1>5. \A p \in Plugins : Plugin[p.name] = p
    BY <1>3 DEF Plugin
<1> QED BY <1>4, <1>5

LEMMA PluginFields ==
    ASSUME NEW n \in DOMAIN Plugin
    PROVE  /\ n \notin Plugin[n].excludes /\ Plugin[n].excludes \subseteq DOMAIN Plugin
           /\ Plugin[n].maxVel \in Nat /\ Plugin[n].gravity \in Nat
           /\ (n \in {"SW", "OnlyW", "HSW"} => Plugin[n].excludes = {"SW", "OnlyW", "HSW"} \ {n})
<1>1. PICK p \in Plugins : n = p.name
    BY DEF Plugin
<1>2. Plugin[n] = p
    BY <1>1, PluginIs
<1>3. p.name \notin p.excludes /\ p.excludes \subseteq PluginNames
    BY <1>1 DEF Plugins, PluginNames, Vel3500, Vel5000, Vel10000, LowGrav, HighGrav, TAS, Sideways, OnlyW, HalfSideways, StylePlugin
<1>4. p.maxVel \in Nat /\ p.gravity \in Nat
    BY <1>1 DEF Plugins, Vel3500, Vel5000, Vel10000, LowGrav, HighGrav, TAS, Sideways, OnlyW, HalfSideways, StylePlugin, Unset
<1>5. p.name \in {"SW", "OnlyW", "HSW"} => p.excludes = {"SW", "OnlyW", "HSW"} \ {p.name}
    BY <1>1 DEF Plugins, Vel3500, Vel5000, Vel10000, LowGrav, HighGrav, TAS, Sideways, OnlyW, HalfSideways, StylePlugin
<1> QED BY <1>1, <1>2, <1>3, <1>4, <1>5, PluginIs

(***************************************************************************)
(* ModesStyles: the styles of a player.  Those of whom the loops that add  *)
(* them ask the registry are known to it, and exclude none of the others.  *)
(***************************************************************************)
GoodLists ==
    {list \in Seq(DOMAIN Plugin) :
        /\ \A i \in DOMAIN list : list[i] \in Names
        /\ \A i, j \in DOMAIN list : ~Exclusive(list[i], list[j])}

LEMMA InfoIs ==
    ASSUME RegistryFits, NEW i \in DOMAIN styleInfos
    PROVE  /\ InfoOf(styleInfos[i].name) = i
           /\ styleInfos[i] \in StyleInfo /\ styleInfos[i].name \in DOMAIN Plugin
           /\ styleInfos[i].name \notin styleInfos[i].excludes
<1>1. styleInfos[i] \in StyleInfo
    BY ElementOfSeq, LenProperties DEF RegistryFits
<1>2. \A j \in DOMAIN styleInfos : styleInfos[j].name = styleInfos[i].name => j = i
    BY DEF RegistryFits
<1>3. InfoOf(styleInfos[i].name) = i
    BY <1>2 DEF InfoOf
<1>4. styleInfos[i].name \in DOMAIN Plugin /\ styleInfos[i].excludes \subseteq Plugin[styleInfos[i].name].excludes
    BY <1>1 DEF StyleInfo, RegistryFits
<1> QED BY <1>1, <1>3, <1>4, PluginFields

\* A style comes in only when it excludes none of the others, and none of
\* them is another plugin's of which both sides say so.
LEMMA AddedIsGood ==
    ASSUME RegistryFits, NEW list \in GoodLists, NEW name
    PROVE  Added(list, name) \in GoodLists
<1>1. CASE ~CanAdd(list, name)
    BY <1>1 DEF Added
<1>2. CASE CanAdd(list, name)
    <2>1. PICK k \in DOMAIN styleInfos : styleInfos[k].name = name /\ \A j \in DOMAIN list : list[j] \notin styleInfos[k].excludes
        BY <1>2 DEF CanAdd
    <2>2. /\ InfoOf(name) = k
          /\ name \in DOMAIN Plugin /\ name \in Names /\ name \notin styleInfos[k].excludes
        BY <2>1, InfoIs DEF Names
    <2>3. /\ list \in Seq(DOMAIN Plugin)
          /\ \A i \in DOMAIN list : list[i] \in Names
          /\ \A i, j \in DOMAIN list : ~Exclusive(list[i], list[j])
        BY DEF GoodLists
    <2> DEFINE new == Append(list, name)
    <2>4. /\ new \in Seq(DOMAIN Plugin)
          /\ \A i \in DOMAIN new : (i \in DOMAIN list /\ new[i] = list[i]) \/ new[i] = name
        BY <2>2, <2>3, AppendProperties
    <2> HIDE DEF new
    <2>5. \A i \in DOMAIN new : new[i] \in Names
        BY <2>2, <2>3, <2>4
    <2>6. \A j \in DOMAIN list : ~Exclusive(name, list[j]) /\ ~Exclusive(list[j], name)
        BY <2>1, <2>2 DEF Exclusive
    <2>7. ~Exclusive(name, name)
        BY <2>2 DEF Exclusive
    <2>8. \A i, j \in DOMAIN new : ~Exclusive(new[i], new[j])
        BY <2>3, <2>4, <2>6, <2>7
    <2>9. new \in GoodLists
        BY <2>4, <2>5, <2>8 DEF GoodLists
    <2> QED BY <1>2, <2>9 DEF Added, new
<1> QED BY <1>1, <1>2

LEMMA AddAllIsGood ==
    ASSUME RegistryFits, NEW X, NEW names \in Seq(X)
    PROVE  AddAll(<<>>, names) \in GoodLists
<1> DEFINE n == Len(names)
           none == <<>>
           G(f) == [i \in 0 .. n |-> IF i = 0 THEN none ELSE Added(f[i - 1], names[i])]
           move == [i \in 1 .. n |-> [list \in GoodLists |-> Added(list, names[i])]]
           added == CHOOSE f : f = G(f)
<1>1. n \in Nat /\ none \in GoodLists
    BY EmptySeq DEF GoodLists
<1>2. AddAll(none, names) = added[n]
    BY DEF AddAll
<1> HIDE DEF n, none
<1>3. \A i \in 1 .. n : \A list \in GoodLists : Added(list, names[i]) \in GoodLists
    BY AddedIsGood
<1>4. \E f \in Walks(n, GoodLists) : f = G(f)
    <2>1. move \in NextSteps(n, GoodLists)
        BY <1>3 DEF NextSteps
    <2>2. \A i \in 1 .. n : \A list \in GoodLists : move[i][list] = Added(list, names[i])
        OBVIOUS
    <2> HIDE DEF move
    <2>3. PICK f \in Walks(n, GoodLists) : \A i \in 0 .. n : f[i] = IF i = 0 THEN none ELSE move[i][f[i - 1]]
        BY <1>1, <2>1, WalkSteps
    <2>4. \A i \in 1 .. n : move[i][f[i - 1]] = Added(f[i - 1], names[i])
        BY <1>1, <2>2, <2>3 DEF Walks
    <2>5. \A i \in 0 .. n : f[i] = IF i = 0 THEN none ELSE Added(f[i - 1], names[i])
        BY <1>1, <2>3, <2>4
    <2>6. f = [i \in 0 .. n |-> f[i]]
        BY <2>3 DEF Walks
    <2> QED BY <2>3, <2>5, <2>6
<1>5. added = G(added)
    BY <1>4
<1> HIDE DEF added
<1>6. added[0] = none /\ \A i \in 1 .. n : added[i] = Added(added[i - 1], names[i])
    <2>1. \A i \in 0 .. n : added[i] = IF i = 0 THEN none ELSE Added(added[i - 1], names[i])
        BY <1>5
    <2> QED BY <1>1, <2>1
<1>7. added[n] \in GoodLists
    <2>1. added[0] \in GoodLists
        BY <1>1, <1>6
    <2>2. \A i \in 1 .. n : added[i - 1] \in GoodLists => added[i] \in GoodLists
        BY <1>3, <1>6
    <2> QED BY <1>1, <2>1, <2>2, WalkStays
<1> QED BY <1>2, <1>7 DEF none

(***************************************************************************)
(* ModesStyles: a move.                                                    *)
(***************************************************************************)
LEMMA SetupMoveOfObeys ==
    ASSUME NEW cmd \in Command, NEW name
    PROVE  /\ SetupMoveOf(cmd, name) \in Command
           /\ Obeys(SetupMoveOf(cmd, name), name)
<1>1. /\ DropAcross(cmd) \in Command
      /\ DropAcross(cmd).keys = cmd.keys \ AcrossKeys
      /\ DropAcross(cmd).forwardmove = cmd.forwardmove
      /\ DropAcross(cmd).leftmove = 0
    <2>1. DropAcross(cmd) = [cmd EXCEPT !.keys = cmd.keys \ AcrossKeys, !.leftmove = 0]
        BY DEF DropAcross
    <2>2. cmd.keys \ AcrossKeys \in SUBSET Keys /\ 0 \in -1 .. 1
        BY DEF Command
    <2>3. [cmd EXCEPT !.keys = cmd.keys \ AcrossKeys, !.leftmove = 0] \in Command
        BY <2>2 DEF Command
    <2>4. [cmd EXCEPT !.keys = cmd.keys \ AcrossKeys, !.leftmove = 0].keys = cmd.keys \ AcrossKeys
        BY DEF Command
    <2>5. [cmd EXCEPT !.keys = cmd.keys \ AcrossKeys, !.leftmove = 0].forwardmove = cmd.forwardmove
        BY DEF Command
    <2>6. [cmd EXCEPT !.keys = cmd.keys \ AcrossKeys, !.leftmove = 0].leftmove = 0
        BY DEF Command
    <2> QED BY <2>1, <2>3, <2>4, <2>5, <2>6
<1>2. /\ DropAlong(cmd) \in Command
      /\ DropAlong(cmd).keys = cmd.keys \ AlongKeys
      /\ DropAlong(cmd).forwardmove = 0
      /\ DropAlong(cmd).leftmove = cmd.leftmove
    <2>1. DropAlong(cmd) = [cmd EXCEPT !.keys = cmd.keys \ AlongKeys, !.forwardmove = 0]
        BY DEF DropAlong
    <2>2. cmd.keys \ AlongKeys \in SUBSET Keys /\ 0 \in -1 .. 1
        BY DEF Command
    <2>3. [cmd EXCEPT !.keys = cmd.keys \ AlongKeys, !.forwardmove = 0] \in Command
        BY <2>2 DEF Command
    <2>4. [cmd EXCEPT !.keys = cmd.keys \ AlongKeys, !.forwardmove = 0].keys = cmd.keys \ AlongKeys
        BY DEF Command
    <2>5. [cmd EXCEPT !.keys = cmd.keys \ AlongKeys, !.forwardmove = 0].forwardmove = 0
        BY DEF Command
    <2>6. [cmd EXCEPT !.keys = cmd.keys \ AlongKeys, !.forwardmove = 0].leftmove = cmd.leftmove
        BY DEF Command
    <2> QED BY <2>1, <2>3, <2>4, <2>5, <2>6
<1>3. ~MovesAcross(DropAcross(cmd)) /\ ~MovesAlong(DropAlong(cmd))
    BY <1>1, <1>2 DEF MovesAcross, MovesAlong
<1>4. (cmd.keys \ AcrossKeys) \cap AlongKeys = cmd.keys \cap AlongKeys
    BY DEF AlongKeys, AcrossKeys
<1>5. (cmd.keys \ AlongKeys) \cap AcrossKeys = cmd.keys \cap AcrossKeys
    BY DEF AlongKeys, AcrossKeys
<1>6. /\ MovesAlong(DropAcross(cmd)) <=> MovesAlong(cmd)
      /\ MovesAcross(DropAlong(cmd)) <=> MovesAcross(cmd)
    BY <1>1, <1>2, <1>4, <1>5 DEF MovesAcross, MovesAlong
<1>7. CASE name = "SW"
    BY <1>1, <1>3, <1>7 DEF SetupMoveOf, SidewaysSetupMove, Obeys
<1>8. CASE name = "OnlyW"
    <2>1. PICK c \in Command : c = DropAcross(cmd)
        BY <1>1
    <2> DEFINE new == [c EXCEPT !.keys = @ \ {"back"}, !.forwardmove = IF @ < 0 THEN 0 ELSE @]
    <2>2. SetupMoveOf(cmd, name) = OnlyWSetupMove(cmd)
        BY <1>8 DEF SetupMoveOf
    <2>3. OnlyWSetupMove(cmd) = new
        BY <2>1 DEF OnlyWSetupMove
    <2>4. new.keys = c.keys \ {"back"} /\ new.forwardmove >= 0 /\ new.leftmove = c.leftmove
        BY DEF Command
    <2>5. new \in Command
        <3>1. (IF c.forwardmove < 0 THEN 0 ELSE c.forwardmove) \in -1 .. 1 /\ c.keys \ {"back"} \in SUBSET Keys
            BY DEF Command
        <3> QED BY <3>1 DEF Command
    <2> HIDE DEF new
    <2>6. new.keys \cap AcrossKeys = {} /\ new.leftmove = 0
        BY <1>1, <2>1, <2>4
    <2>7. ~MovesAcross(new)
        BY <2>6 DEF MovesAcross
    <2>8. Obeys(new, "OnlyW")
        BY <2>4, <2>7 DEF Obeys
    <2> QED BY <1>8, <2>2, <2>3, <2>5, <2>8
<1>9. CASE name = "HSW"
    <2>1. SetupMoveOf(cmd, name) = HalfSidewaysSetupMove(cmd)
        BY <1>9 DEF SetupMoveOf
    <2>2. \A c : (MovesAlong(c) <=> MovesAcross(c)) => Obeys(c, name)
        BY <1>9 DEF Obeys
    <2>3. CASE MovesAcross(cmd) /\ ~MovesAlong(cmd)
        <3>1. SetupMoveOf(cmd, name) = DropAcross(cmd)
            BY <2>1, <2>3 DEF HalfSidewaysSetupMove
        <3> QED BY <1>1, <1>3, <1>6, <2>2, <2>3, <3>1
    <2>4. CASE MovesAlong(cmd) /\ ~MovesAcross(cmd)
        <3>1. SetupMoveOf(cmd, name) = DropAlong(cmd)
            BY <2>1, <2>4 DEF HalfSidewaysSetupMove
        <3> QED BY <1>2, <1>3, <1>6, <2>2, <2>4, <3>1
    <2>5. CASE MovesAlong(cmd) <=> MovesAcross(cmd)
        <3>1. SetupMoveOf(cmd, name) = cmd
            BY <2>1, <2>5 DEF HalfSidewaysSetupMove
        <3> QED BY <2>2, <2>5, <3>1
    <2> QED BY <2>3, <2>4, <2>5
<1>10. CASE name \notin {"SW", "OnlyW", "HSW"}
    BY <1>10 DEF SetupMoveOf, Obeys
<1> QED BY <1>7, <1>8, <1>9, <1>10

\* What another style makes of a command, a style whose plugin does not
\* exclude it still allows.
LEMMA StaysObeyed ==
    ASSUME NEW cmd \in Command, NEW name \in DOMAIN Plugin, NEW other, other \notin Plugin[name].excludes,
           Obeys(cmd, name)
    PROVE  Obeys(SetupMoveOf(cmd, other), name)
<1>1. CASE name = other
    BY <1>1, SetupMoveOfObeys
<1>2. CASE name \notin {"SW", "OnlyW", "HSW"}
    BY <1>2 DEF Obeys
<1>3. CASE name \in {"SW", "OnlyW", "HSW"} /\ other # name
    <2>1. other \notin {"SW", "OnlyW", "HSW"}
        BY <1>3, PluginFields
    <2>2. SetupMoveOf(cmd, other) = cmd
        BY <2>1 DEF SetupMoveOf
    <2> QED BY <2>2
<1> QED BY <1>1, <1>2, <1>3

LEMMA SetupMoveByObeys ==
    ASSUME styles \in Seq(DOMAIN Plugin), NEW cmd \in Command
    PROVE  /\ SetupMoveBy(cmd) \in Command
           /\ \A s \in ToSet(styles) : Plugin[s].excludes \cap ToSet(styles) = {} => Obeys(SetupMoveBy(cmd), s)
<1> DEFINE n == Len(styles)
           G(f) == [i \in 0 .. n |-> IF i = 0 THEN cmd ELSE SetupMoveOf(f[i - 1], styles[i])]
           pass == [i \in 1 .. n |-> [c \in Command |-> SetupMoveOf(c, styles[i])]]
           left == CHOOSE f : f = G(f)
<1>1. n \in Nat /\ DOMAIN styles = 1 .. n /\ \A i \in 1 .. n : styles[i] \in DOMAIN Plugin
    BY ElementOfSeq, LenProperties
<1>2. SetupMoveBy(cmd) = left[n]
    BY DEF SetupMoveBy
<1> HIDE DEF n
<1>3. \A i \in 1 .. n : \A c \in Command : SetupMoveOf(c, styles[i]) \in Command
    BY SetupMoveOfObeys
<1>4. \E f \in Walks(n, Command) : f = G(f)
    <2>1. pass \in NextSteps(n, Command)
        BY <1>3 DEF NextSteps
    <2>2. \A i \in 1 .. n : \A c \in Command : pass[i][c] = SetupMoveOf(c, styles[i])
        OBVIOUS
    <2> HIDE DEF pass
    <2>3. PICK f \in Walks(n, Command) : \A i \in 0 .. n : f[i] = IF i = 0 THEN cmd ELSE pass[i][f[i - 1]]
        BY <1>1, <2>1, WalkSteps
    <2>4. \A i \in 1 .. n : pass[i][f[i - 1]] = SetupMoveOf(f[i - 1], styles[i])
        BY <1>1, <2>2, <2>3 DEF Walks
    <2>5. \A i \in 0 .. n : f[i] = IF i = 0 THEN cmd ELSE SetupMoveOf(f[i - 1], styles[i])
        BY <1>1, <2>3, <2>4
    <2>6. f = [i \in 0 .. n |-> f[i]]
        BY <2>3 DEF Walks
    <2> QED BY <2>3, <2>5, <2>6
<1>5. left = G(left)
    BY <1>4
<1> HIDE DEF left
<1>6. left[0] = cmd /\ \A i \in 1 .. n : left[i] = SetupMoveOf(left[i - 1], styles[i])
    <2>1. \A i \in 0 .. n : left[i] = IF i = 0 THEN cmd ELSE SetupMoveOf(left[i - 1], styles[i])
        BY <1>5
    <2> QED BY <1>1, <2>1
<1> DEFINE good == [i \in 0 .. n |->
                      {c \in Command : \A j \in 1 .. i :
                          Plugin[styles[j]].excludes \cap ToSet(styles) = {} => Obeys(c, styles[j])}]
<1>7. left[0] \in good[0]
    BY <1>1, <1>6
<1>8. \A i \in 1 .. n : left[i - 1] \in good[i - 1] => left[i] \in good[i]
    <2>1. SUFFICES ASSUME NEW i \in 1 .. n, left[i - 1] \in Command,
                          \A j \in 1 .. i - 1 : Plugin[styles[j]].excludes \cap ToSet(styles) = {} => Obeys(left[i - 1], styles[j])
                   PROVE  left[i] \in Command /\ \A j \in 1 .. i :
                             Plugin[styles[j]].excludes \cap ToSet(styles) = {} => Obeys(left[i], styles[j])
        BY <1>1
    <2>2. left[i] = SetupMoveOf(left[i - 1], styles[i]) /\ left[i] \in Command /\ Obeys(left[i], styles[i])
        BY <1>6, <2>1, SetupMoveOfObeys
    <2>3. ASSUME NEW j \in 1 .. i, Plugin[styles[j]].excludes \cap ToSet(styles) = {}, j # i
          PROVE  Obeys(left[i], styles[j])
        <3>1. styles[i] \in ToSet(styles) /\ j \in 1 .. i - 1 /\ styles[j] \in DOMAIN Plugin
            BY <1>1, <2>3 DEF ToSet
        <3>2. styles[i] \notin Plugin[styles[j]].excludes /\ Obeys(left[i - 1], styles[j])
            BY <2>1, <2>3, <3>1
        <3> QED BY <2>1, <2>2, <3>1, <3>2, StaysObeyed
    <2> QED BY <2>2, <2>3
<1>9. \A i \in 0 .. n : left[i] \in good[i]
    <2> HIDE DEF good
    <2> QED BY <1>1, <1>7, <1>8, WalkKeeps
<1>10. left[n] \in good[n]
    BY <1>1, <1>9
<1>11. left[n] \in Command /\ \A j \in 1 .. n :
           Plugin[styles[j]].excludes \cap ToSet(styles) = {} => Obeys(left[n], styles[j])
    BY <1>1, <1>10
<1>12. \A s \in ToSet(styles) : \E j \in 1 .. n : s = styles[j]
    BY <1>1 DEF ToSet
<1> QED BY <1>2, <1>11, <1>12

\* Each style sets what it sets, over what the ones before it have: the last
\* one that sets a value has it.
LEMMA SetByStylesIs ==
    ASSUME styles \in Seq(DOMAIN Plugin), NEW v \in Nat, NEW g \in Nat,
           NEW before, before = [maxVelocity |-> v, gravity |-> g]
    PROVE  /\ SetByStyles(before).maxVelocity \in Nat /\ SetByStyles(before).gravity \in Nat
           /\ SetByStyles(before).maxVelocity = IF VelStyles = {} THEN v ELSE Plugin[styles[Latest(VelStyles)]].maxVel
           /\ SetByStyles(before).gravity =
                  IF GravityStyles = {} THEN g ELSE Plugin[styles[Latest(GravityStyles)]].gravity
<1> DEFINE n == Len(styles)
           Set == [maxVelocity : Nat, gravity : Nat]
           G(f) == [i \in 0 .. n |-> IF i = 0 THEN before ELSE SetBy(styles[i], f[i - 1])]
           pass == [i \in 1 .. n |-> [c \in Set |-> SetBy(styles[i], c)]]
           set == CHOOSE f : f = G(f)
<1>1. n \in Nat /\ DOMAIN styles = 1 .. n /\ \A i \in 1 .. n : styles[i] \in DOMAIN Plugin
    BY ElementOfSeq, LenProperties
<1>2. SetByStyles(before) = set[n]
    BY DEF SetByStyles
<1> HIDE DEF n
<1>3. ASSUME NEW name \in DOMAIN Plugin, NEW c \in Set
      PROVE  /\ SetBy(name, c) \in Set
             /\ SetBy(name, c).maxVelocity = IF Plugin[name].maxVel = Unset THEN c.maxVelocity ELSE Plugin[name].maxVel
             /\ SetBy(name, c).gravity = IF Plugin[name].gravity = Unset THEN c.gravity ELSE Plugin[name].gravity
    BY PluginFields DEF SetBy
<1>4. before \in Set
    OBVIOUS
<1>5. \E f \in Walks(n, Set) : f = G(f)
    <2>1. pass \in NextSteps(n, Set)
        BY <1>1, <1>3 DEF NextSteps
    <2>2. \A i \in 1 .. n : \A c \in Set : pass[i][c] = SetBy(styles[i], c)
        OBVIOUS
    <2> HIDE DEF pass, Set
    <2>3. PICK f \in Walks(n, Set) : \A i \in 0 .. n : f[i] = IF i = 0 THEN before ELSE pass[i][f[i - 1]]
        BY <1>1, <1>4, <2>1, WalkSteps
    <2>4. \A i \in 1 .. n : pass[i][f[i - 1]] = SetBy(styles[i], f[i - 1])
        BY <1>1, <2>2, <2>3 DEF Walks
    <2>5. \A i \in 0 .. n : f[i] = IF i = 0 THEN before ELSE SetBy(styles[i], f[i - 1])
        BY <1>1, <2>3, <2>4
    <2>6. f = [i \in 0 .. n |-> f[i]]
        BY <2>3 DEF Walks
    <2> QED BY <2>3, <2>5, <2>6
<1>6. set = G(set)
    BY <1>5
<1> HIDE DEF set
<1>7. set[0] = before /\ \A i \in 1 .. n : set[i] = SetBy(styles[i], set[i - 1])
    <2>1. \A i \in 0 .. n : set[i] = IF i = 0 THEN before ELSE SetBy(styles[i], set[i - 1])
        BY <1>6
    <2> QED BY <1>1, <2>1
<1> DEFINE SetUpto(c, i) ==
               /\ (\A j \in 1 .. i : j \notin VelStyles) => c.maxVelocity = v
               /\ (\A j \in 1 .. i : j \notin GravityStyles) => c.gravity = g
               /\ \A m \in 1 .. i : m \in VelStyles /\ (\A j \in m + 1 .. i : j \notin VelStyles) =>
                      c.maxVelocity = Plugin[styles[m]].maxVel
               /\ \A m \in 1 .. i : m \in GravityStyles /\ (\A j \in m + 1 .. i : j \notin GravityStyles) =>
                      c.gravity = Plugin[styles[m]].gravity
           good == [i \in 0 .. n |-> {c \in Set : SetUpto(c, i)}]
<1>8. set[0] \in good[0]
    BY <1>1, <1>4, <1>7
<1>9. \A i \in 1 .. n : set[i - 1] \in good[i - 1] => set[i] \in good[i]
    <2>1. SUFFICES ASSUME NEW i \in 1 .. n, set[i - 1] \in Set, SetUpto(set[i - 1], i - 1)
                   PROVE  set[i] \in Set /\ SetUpto(set[i], i)
        <3> HIDE DEF Set, SetUpto
        <3> QED BY <1>1
    <2>2. i \in Nat /\ i - 1 \in Nat /\ styles[i] \in DOMAIN Plugin
        BY <1>1
    <2>3. /\ set[i] \in Set
          /\ i \notin VelStyles => set[i].maxVelocity = set[i - 1].maxVelocity
          /\ i \in VelStyles => set[i].maxVelocity = Plugin[styles[i]].maxVel
          /\ i \notin GravityStyles => set[i].gravity = set[i - 1].gravity
          /\ i \in GravityStyles => set[i].gravity = Plugin[styles[i]].gravity
        BY <1>1, <1>3, <1>7, <2>1, <2>2 DEF VelStyles, GravityStyles
    <2> HIDE DEF Set
    <2>4. (\A j \in 1 .. i : j \notin VelStyles) => set[i].maxVelocity = v
        BY <2>1, <2>2, <2>3
    <2>5. (\A j \in 1 .. i : j \notin GravityStyles) => set[i].gravity = g
        BY <2>1, <2>2, <2>3
    <2>6. ASSUME NEW m \in 1 .. i, m \in VelStyles, \A j \in m + 1 .. i : j \notin VelStyles
          PROVE  set[i].maxVelocity = Plugin[styles[m]].maxVel
        <3>1. CASE m = i
            BY <2>3, <2>6, <3>1
        <3>2. CASE m # i
            <4>1. i \in m + 1 .. i /\ m \in 1 .. i - 1 /\ \A j \in m + 1 .. i - 1 : j \in m + 1 .. i
                BY <2>2, <3>2
            <4> QED BY <2>1, <2>3, <2>6, <4>1
        <3> QED BY <3>1, <3>2
    <2>7. ASSUME NEW m \in 1 .. i, m \in GravityStyles, \A j \in m + 1 .. i : j \notin GravityStyles
          PROVE  set[i].gravity = Plugin[styles[m]].gravity
        <3>1. CASE m = i
            BY <2>3, <2>7, <3>1
        <3>2. CASE m # i
            <4>1. i \in m + 1 .. i /\ m \in 1 .. i - 1 /\ \A j \in m + 1 .. i - 1 : j \in m + 1 .. i
                BY <2>2, <3>2
            <4> QED BY <2>1, <2>3, <2>7, <4>1
        <3> QED BY <3>1, <3>2
    <2> QED BY <2>3, <2>4, <2>5, <2>6, <2>7
<1>10. \A i \in 0 .. n : set[i] \in good[i]
    <2> HIDE DEF good
    <2> QED BY <1>1, <1>8, <1>9, WalkKeeps
<1>11. set[n] \in Set /\ SetUpto(set[n], n)
    <2> HIDE DEF Set, SetUpto
    <2> QED BY <1>1, <1>10
<1>12. ASSUME NEW some \in SUBSET (1 .. n), some # {}
       PROVE  Latest(some) \in some /\ \A j \in Latest(some) + 1 .. n : j \notin some
    <2>1. \E m \in some : \A j \in some : j <= m
        <3> DEFINE Back == {n - j : j \in some}
        <3>1. Back \in SUBSET Nat /\ Back # {}
            <4>1. \A j \in some : n - j \in Nat
                BY <1>1, <1>12
            <4> QED BY <1>12, <4>1
        <3> HIDE DEF Back
        <3>2. PICK b \in Back : \A k \in Back : b <= k
            BY <3>1, LeastOf
        <3> USE DEF Back
        <3>3. PICK m \in some : b = n - m
            BY <3>2
        <3>4. \A j \in some : n - m <= n - j
            BY <3>2, <3>3
        <3> QED BY <1>1, <1>12, <3>3, <3>4
    <2>2. Latest(some) \in some /\ \A j \in some : j <= Latest(some)
        BY <2>1 DEF Latest
    <2>3. Latest(some) \in Nat
        <3>1. \A m \in some : m \in Nat
            BY <1>1
        <3> QED BY <2>2, <3>1
    <2>4. \A j \in Latest(some) + 1 .. n : ~(j <= Latest(some))
        BY <1>1, <2>3
    <2> QED BY <2>2, <2>4
<1>13. VelStyles \subseteq 1 .. n /\ GravityStyles \subseteq 1 .. n
    BY <1>1 DEF VelStyles, GravityStyles
<1>14. set[n].maxVelocity = IF VelStyles = {} THEN v ELSE Plugin[styles[Latest(VelStyles)]].maxVel
    <2> HIDE DEF Set
    <2>1. CASE VelStyles = {}
        BY <1>11, <2>1
    <2>2. CASE VelStyles # {}
        BY <1>11, <1>12, <1>13, <2>2
    <2> QED BY <2>1, <2>2
<1>15. set[n].gravity = IF GravityStyles = {} THEN g ELSE Plugin[styles[Latest(GravityStyles)]].gravity
    <2> HIDE DEF Set
    <2>1. CASE GravityStyles = {}
        BY <1>11, <2>1
    <2>2. CASE GravityStyles # {}
        BY <1>11, <1>12, <1>13, <2>2
    <2> QED BY <2>1, <2>2
<1> QED BY <1>2, <1>11, <1>14, <1>15

(***************************************************************************)
(* ModesStyles: the invariant.                                             *)
(***************************************************************************)
\* The gravity is the map's unless a style is there to set it.
PutBack(list, g) == (\A i \in DOMAIN list : Plugin[list[i]].gravity = Unset) => g = 100

\* What a style does to a move is only seen during that move: what lies
\* between two moves keeps the styles compatible, the gravity put back, and
\* the run on a course.
RulesCore ==
    /\ TypeOKRules /\ RegistryFits
    /\ styles \in GoodLists
    /\ PutBack(styles, gravity)
    /\ timerRunning => course # NoCourse

RulesInv == RulesCore /\ RightPhysics

LEMMA NewRegistry ==
    ASSUME RegistryFits, DOMAIN styleInfos' = DOMAIN styleInfos,
           \A i \in DOMAIN styleInfos : /\ styleInfos'[i].name = styleInfos[i].name
                                        /\ styleInfos'[i].excludes \subseteq styleInfos[i].excludes
    PROVE  GoodLists \subseteq GoodLists'
<1>1. ASSUME NEW n \in Names
      PROVE  /\ InfoOf(n)' = InfoOf(n) /\ n \in Names'
             /\ styleInfos'[InfoOf(n)].excludes \subseteq styleInfos[InfoOf(n)].excludes
    <2>1. PICK k \in DOMAIN styleInfos : styleInfos[k].name = n
        BY DEF Names
    <2>2. InfoOf(n) = k
        BY <2>1, InfoIs
    <2>3. \A i \in DOMAIN styleInfos' : styleInfos'[i].name = n => i = k
        BY <2>1 DEF RegistryFits
    <2>4. k \in DOMAIN styleInfos' /\ styleInfos'[k].name = n
        BY <2>1
    <2>5. InfoOf(n)' = k
        BY <2>3, <2>4 DEF InfoOf
    <2> QED BY <2>1, <2>2, <2>4, <2>5 DEF Names
<1>2. ASSUME NEW s \in Names, NEW t \in Names, ~Exclusive(s, t)
      PROVE  ~Exclusive(s, t)'
    BY <1>1, <1>2 DEF Exclusive
<1>3. SUFFICES ASSUME NEW list \in GoodLists PROVE list \in GoodLists'
    OBVIOUS
<1>4. /\ list \in Seq(DOMAIN Plugin)
      /\ \A i \in DOMAIN list : list[i] \in Names
      /\ \A i, j \in DOMAIN list : ~Exclusive(list[i], list[j])
    BY DEF GoodLists
<1>5. \A i \in DOMAIN list : list[i] \in Names'
    BY <1>1, <1>4
<1>6. \A i, j \in DOMAIN list : ~Exclusive(list[i], list[j])'
    BY <1>2, <1>4
<1> QED BY <1>4, <1>5, <1>6 DEF GoodLists

LEMMA FirstPlaceIs ==
    ASSUME styles \in Seq(DOMAIN Plugin), NEW name, Has(name)
    PROVE  FirstPlace(name) \in 1 .. Len(styles) /\ styles[FirstPlace(name)] = name
<1> DEFINE found == {i \in 1 .. Len(styles) : styles[i] = name}
<1>1. DOMAIN styles = 1 .. Len(styles) /\ Len(styles) \in Nat
    BY LenProperties
<1>2. found \in SUBSET Nat /\ found # {}
    BY <1>1 DEF Has
<1> HIDE DEF found
<1>3. PICK m \in found : \A k \in found : m <= k
    BY <1>2, LeastOf
<1> USE DEF found
<1>4. m \in DOMAIN styles /\ styles[m] = name /\ \A j \in 1 .. m - 1 : styles[j] # name
    <2>1. m \in Nat /\ m <= Len(styles)
        BY <1>1, <1>2
    <2>2. ASSUME NEW j \in 1 .. m - 1, styles[j] = name
          PROVE  FALSE
        <3>1. j \in found
            BY <1>1, <2>1, <2>2
        <3>2. m <= j
            BY <1>3, <3>1
        <3> QED BY <2>1, <2>2, <3>2
    <2> QED BY <1>1, <2>2
<1> QED BY <1>1, <1>4 DEF FirstPlace

\* A style goes: the ones that stay were there before.
LEMMA RemovedIsGood ==
    ASSUME RulesCore, NEW name, RemoveStyle(name)
    PROVE  /\ styles' \in GoodLists /\ ToSet(styles') \subseteq ToSet(styles)
           /\ gravity' \in Nat /\ PutBack(styles', gravity')
<1>1. styles \in Seq(DOMAIN Plugin) /\ Has(name)
    BY DEF RulesCore, TypeOKRules, RemoveStyle
<1> DEFINE p == FirstPlace(name)
<1>2. p \in 1 .. Len(styles) /\ styles[p] = name /\ name \in DOMAIN Plugin
    BY <1>1, FirstPlaceIs, ElementOfSeq
<1>3. styles' = RemoveAt(styles, p) /\ gravity' = CleanedUp({name})
    BY DEF RemoveStyle
<1> HIDE DEF p
<1>4. DOMAIN styles = 1 .. Len(styles) /\ Len(styles) \in Nat
    BY <1>1, LenProperties
<1>5. /\ styles' \in Seq(DOMAIN Plugin) /\ DOMAIN styles' = 1 .. Len(styles) - 1
      /\ \A i \in 1 .. Len(styles) - 1 : styles'[i] = IF i < p THEN styles[i] ELSE styles[i + 1]
    BY <1>1, <1>2, <1>3, RemovedIs
<1>6. \A i \in DOMAIN styles' : \E k \in DOMAIN styles : styles'[i] = styles[k]
    <2>1. ASSUME NEW i \in 1 .. Len(styles) - 1 PROVE i \in 1 .. Len(styles) /\ i + 1 \in 1 .. Len(styles)
        BY <1>4
    <2> QED BY <1>4, <1>5, <2>1
<1>7. styles' \in GoodLists
    BY <1>5, <1>6 DEF GoodLists, RulesCore
<1>8. ToSet(styles') \subseteq ToSet(styles)
    BY <1>6 DEF ToSet
<1>9. gravity' = (IF Plugin[name].gravity # Unset THEN 100 ELSE gravity) /\ gravity' \in Nat
    BY <1>3 DEF CleanedUp, RulesCore, TypeOKRules
<1>10. ASSUME \A i \in DOMAIN styles' : Plugin[styles'[i]].gravity = Unset
       PROVE  gravity' = 100
    <2>1. CASE Plugin[name].gravity # Unset
        BY <1>9, <2>1
    <2>2. CASE Plugin[name].gravity = Unset
        <3>1. ASSUME NEW k \in DOMAIN styles PROVE Plugin[styles[k]].gravity = Unset
            <4>1. CASE k = p
                BY <1>2, <2>2, <4>1
            <4>2. CASE k < p
                <5>1. k \in 1 .. Len(styles) - 1
                    BY <1>2, <1>4, <4>2
                <5> QED BY <1>5, <1>10, <4>2, <5>1
            <4>3. CASE p < k
                <5>1. k - 1 \in 1 .. Len(styles) - 1 /\ ~(k - 1 < p) /\ (k - 1) + 1 = k
                    BY <1>2, <1>4, <4>3
                <5> QED BY <1>5, <1>10, <5>1
            <4> QED BY <1>2, <1>4, <4>1, <4>2, <4>3
        <3> QED BY <1>9, <2>2, <3>1 DEF RulesCore, PutBack
    <2> QED BY <2>1, <2>2
<1> QED BY <1>7, <1>8, <1>9, <1>10 DEF PutBack

\* All styles go at once.
LEMMA ClearedIsGood ==
    ASSUME RulesCore, gravity' = CleanedUp(ToSet(styles))
    PROVE  gravity' = 100
<1>1. CASE \E n \in ToSet(styles) : Plugin[n].gravity # Unset
    BY <1>1 DEF CleanedUp
<1>2. CASE ~\E n \in ToSet(styles) : Plugin[n].gravity # Unset
    BY <1>2 DEF CleanedUp, RulesCore, PutBack, ToSet
<1> QED BY <1>1, <1>2

\* A step that leaves the registry alone and is no move.
LEMMA QuietStep ==
    ASSUME RulesCore, UNCHANGED <<registry, modeCvars, maxVelocity, processing, command>>, ~processing,
           mode' \in Mode, styles' \in GoodLists, gravity' \in Nat, PutBack(styles', gravity'),
           timerRunning' \in BOOLEAN, course' \in Course \cup {NoCourse}, timerRunning' => course' # NoCourse
    PROVE  RulesInv'
<1>1. GoodLists' = GoodLists /\ RegistryFits'
    BY DEF GoodLists, Exclusive, InfoOf, Names, registry, RulesCore, RegistryFits
<1>2. TypeOKRules'
    BY DEF TypeOKRules, RulesCore, GoodLists, registry
<1> QED BY <1>1, <1>2 DEF RulesInv, RulesCore, RightPhysics, PutBack

LEMMA RulesInitially == InitRules => RulesInv
<1> SUFFICES ASSUME InitRules PROVE RulesInv
    OBVIOUS
<1>1. PICK loadout \in Loadouts : styleInfos = LoadStylePlugins(loadout)
    BY DEF InitRules
<1>2. /\ loadout \in Seq(DOMAIN Plugin)
      /\ \A i, j \in DOMAIN loadout : loadout[i] = loadout[j] => i = j
    BY InputAssumption
<1>3. /\ DOMAIN styleInfos = DOMAIN loadout
      /\ \A i \in DOMAIN loadout : styleInfos[i] = RegisterStyle(loadout[i], Plugin[loadout[i]].excludes)
    BY <1>1 DEF LoadStylePlugins
<1>4. \A i \in DOMAIN loadout : loadout[i] \in DOMAIN Plugin
    BY <1>2, ElementOfSeq, LenProperties
<1>5. \A i \in DOMAIN loadout : styleInfos[i] \in StyleInfo /\ styleInfos[i].name = loadout[i]
                                /\ styleInfos[i].excludes = Plugin[loadout[i]].excludes
    <2>1. SUFFICES ASSUME NEW i \in DOMAIN loadout, NEW n, n = loadout[i], NEW info, info = styleInfos[i]
                   PROVE  info \in StyleInfo /\ info.name = n /\ info.excludes = Plugin[n].excludes
        OBVIOUS
    <2>2. n \in DOMAIN Plugin /\ Plugin[n].excludes \in SUBSET DOMAIN Plugin
        BY <1>4, <2>1, PluginFields
    <2>3. info = [name |-> n, loaded |-> TRUE, excludes |-> Plugin[n].excludes]
        BY <1>3, <2>1 DEF RegisterStyle
    <2> QED BY <2>2, <2>3 DEF StyleInfo
<1>6. styleInfos \in Seq(StyleInfo)
    <2>1. Len(loadout) \in Nat /\ DOMAIN loadout = 1 .. Len(loadout)
        BY <1>2, LenProperties
    <2>2. styleInfos = [i \in 1 .. Len(loadout) |-> styleInfos[i]]
        BY <1>1, <2>1 DEF LoadStylePlugins
    <2>3. styleInfos \in [1 .. Len(loadout) -> StyleInfo]
        BY <1>5, <2>1, <2>2
    <2> QED BY <2>1, <2>3
<1>7. RegistryFits
    BY <1>2, <1>3, <1>5, <1>6 DEF RegistryFits
<1>8. styles = <<>> /\ styles \in GoodLists /\ PutBack(styles, gravity)
    BY EmptySeq DEF InitRules, GoodLists, PutBack
<1>9. TypeOKRules
    <2>1. NoCommand \in Command
        BY DEF NoCommand, Command
    <2>2. mode \in Mode /\ modeCvars \in Mode /\ 0 \in 0 .. MaxReloads
        BY RulesAssumption DEF InitRules
    <2>3. styles \in Seq(DOMAIN Plugin)
        BY <1>8 DEF GoodLists
    <2>4. reloads = 0 /\ maxVelocity = 3500 /\ gravity = 100 /\ command = NoCommand
        BY DEF InitRules
    <2>5. timerRunning = FALSE /\ processing = FALSE /\ course = NoCourse
        BY DEF InitRules
    <2>6. reloads \in 0 .. MaxReloads /\ maxVelocity \in Nat /\ gravity \in Nat
        BY <2>2, <2>4
    <2> QED BY <2>1, <2>2, <2>3, <2>4, <2>5, <2>6 DEF TypeOKRules
<1> QED BY <1>7, <1>8, <1>9 DEF RulesInv, RulesCore, RightPhysics, InitRules

\* What a run keeps in a step: see RunKeepsItsRules.
KeepsItsRules ==
    timerRunning /\ timerRunning' =>
        /\ mode' = mode
        /\ ToSet(styles') \subseteq ToSet(styles)

LEMMA AddStyleStep ==
    ASSUME RulesCore, ~processing, NEW name, AddStyle(name)
    PROVE  RulesInv' /\ KeepsItsRules
<1>1. styles' = Added(styles, name) /\ gravity' = gravity /\ timerRunning' = FALSE
    BY DEF AddStyle, Added, physics
<1>2. styles' \in GoodLists
    BY <1>1, AddedIsGood DEF RulesCore
<1>3. PutBack(styles', gravity')
    <2>1. styles' = Append(styles, name) /\ styles \in Seq(DOMAIN Plugin)
        BY DEF AddStyle, RulesCore, TypeOKRules
    <2>2. \A i \in DOMAIN styles : i \in DOMAIN styles' /\ styles'[i] = styles[i]
        BY <2>1
    <2> QED BY <1>1, <2>2 DEF PutBack, RulesCore
<1>4. mode' = mode /\ course' = course /\ UNCHANGED <<registry, modeCvars, maxVelocity, processing, command>>
    BY DEF AddStyle, physics, moving
<1>5. RulesInv'
    BY <1>1, <1>2, <1>3, <1>4, QuietStep DEF RulesCore, TypeOKRules
<1> QED BY <1>1, <1>5 DEF KeepsItsRules

LEMMA RemoveStyleStep ==
    ASSUME RulesCore, ~processing, NEW name, RemoveStyle(name), UNCHANGED <<registry, AfterRemoving>>
    PROVE  RulesInv' /\ KeepsItsRules
<1>1. /\ styles' \in GoodLists /\ ToSet(styles') \subseteq ToSet(styles)
      /\ gravity' \in Nat /\ PutBack(styles', gravity')
    BY RemovedIsGood
<1>2. /\ mode' = mode /\ timerRunning' = timerRunning /\ course' = course
      /\ UNCHANGED <<registry, modeCvars, maxVelocity, processing, command>>
    BY DEF AfterRemoving, runVars, moving
<1>3. RulesInv'
    BY <1>1, <1>2, QuietStep DEF RulesCore, TypeOKRules
<1> QED BY <1>1, <1>2, <1>3 DEF KeepsItsRules

LEMMA CommandStyleStep ==
    ASSUME RulesCore, CommandStyle
    PROVE  RulesInv' /\ KeepsItsRules
<1>1. ~processing
    BY DEF CommandStyle
<1>2. CASE \E name \in Names : AddStyle(name)
    BY <1>1, <1>2, AddStyleStep
<1>3. CASE \E name \in Names : RemoveStyle(name) /\ UNCHANGED <<registry, AfterRemoving>>
    BY <1>1, <1>3, RemoveStyleStep
<1>4. CASE \E name \in Names : ToggleStyle(name)
    <2>1. PICK name \in Names : ToggleStyle(name)
        BY <1>4
    <2> QED BY <1>1, <2>1, AddStyleStep, RemoveStyleStep DEF ToggleStyle
<1>5. CASE ClearStyles /\ UNCHANGED <<registry, AfterRemoving>>
    <2>1. styles' = <<>> /\ gravity' = CleanedUp(ToSet(styles))
        BY <1>5 DEF ClearStyles
    <2>2. styles' \in GoodLists /\ ToSet(styles') \subseteq ToSet(styles)
        BY <2>1, EmptySeq DEF GoodLists, ToSet
    <2>3. gravity' = 100 /\ PutBack(styles', gravity')
        BY <2>1, ClearedIsGood DEF PutBack
    <2>4. /\ mode' = mode /\ timerRunning' = timerRunning /\ course' = course
          /\ UNCHANGED <<registry, modeCvars, maxVelocity, processing, command>>
        BY <1>5 DEF AfterRemoving, runVars, moving
    <2>5. RulesInv'
        BY <1>1, <2>2, <2>3, <2>4, QuietStep DEF RulesCore, TypeOKRules
    <2> QED BY <2>2, <2>4, <2>5 DEF KeepsItsRules
<1> QED BY <1>2, <1>3, <1>4, <1>5 DEF CommandStyle

\* The styles are added anew; no run is on.
LEMMA RefreshStep ==
    ASSUME RulesCore, ~processing, NEW X, NEW names \in Seq(X), RefreshStyles(names), mode' \in Mode, ~timerRunning',
           timerRunning' \in BOOLEAN, course' \in Course \cup {NoCourse},
           UNCHANGED <<registry, modeCvars, maxVelocity, moving>>
    PROVE  RulesInv' /\ KeepsItsRules
<1>1. styles' = AddAll(<<>>, names) /\ gravity' = CleanedUp(ToSet(styles))
    BY DEF RefreshStyles
<1>2. styles' \in GoodLists
    BY <1>1, AddAllIsGood DEF RulesCore
<1>3. gravity' = 100 /\ PutBack(styles', gravity')
    BY <1>1, ClearedIsGood DEF PutBack
<1>4. UNCHANGED <<registry, modeCvars, maxVelocity, processing, command>>
    BY DEF moving
<1>5. RulesInv'
    BY <1>2, <1>3, <1>4, QuietStep
<1> QED BY <1>5 DEF KeepsItsRules

\* A plugin goes: with it, perhaps, a style of the player, and not
\* necessarily its own.
LEMMA UnregisterStep ==
    ASSUME RulesCore, NEW name \in Names, UnregisterStyle(name) \/ Unpause(name)
    PROVE  RulesInv' /\ KeepsItsRules
<1> DEFINE k == InfoOf(name)
<1>1. k \in DOMAIN styleInfos /\ styleInfos[k].name = name /\ styleInfos[k] \in StyleInfo /\ name \in DOMAIN Plugin
    <2>1. PICK i \in DOMAIN styleInfos : styleInfos[i].name = name
        BY DEF Names
    <2> QED BY <2>1, InfoIs DEF RulesCore
<1>2. PICK info : /\ info \in StyleInfo /\ info.name = name /\ info.excludes = {}
                  /\ styleInfos' = [styleInfos EXCEPT ![k] = info]
    <2>1. CASE UnregisterStyle(name)
        <3> DEFINE info == [styleInfos[k] EXCEPT !.loaded = FALSE, !.excludes = {}]
        <3>1. info \in StyleInfo /\ info.name = name /\ info.excludes = {}
            BY <1>1 DEF StyleInfo
        <3>2. styleInfos' = [styleInfos EXCEPT ![k] = info]
            BY <2>1 DEF UnregisterStyle
        <3> QED BY <3>1, <3>2
    <2>2. CASE Unpause(name)
        <3>1. RegisterStyle(name, {}) \in StyleInfo /\ RegisterStyle(name, {}).name = name /\ RegisterStyle(name, {}).excludes = {}
            BY <1>1 DEF StyleInfo, RegisterStyle
        <3>2. styleInfos' = [styleInfos EXCEPT ![k] = RegisterStyle(name, {})]
            BY <2>2 DEF Unpause
        <3> QED BY <3>1, <3>2
    <2> QED BY <2>1, <2>2
<1> HIDE DEF k
<1>3. /\ DOMAIN styleInfos' = DOMAIN styleInfos
      /\ \A i \in DOMAIN styleInfos : styleInfos'[i] = IF i = k THEN info ELSE styleInfos[i]
    BY <1>2 DEF RulesCore, RegistryFits
<1>4. styleInfos' \in Seq(StyleInfo)
    BY <1>1, <1>2, ExceptSeq DEF RulesCore, RegistryFits
<1>5. \A i \in DOMAIN styleInfos : /\ styleInfos'[i].name = styleInfos[i].name
                                   /\ styleInfos'[i].excludes \subseteq styleInfos[i].excludes
    BY <1>1, <1>2, <1>3
<1>6. RegistryFits'
    <2>1. \A i, j \in DOMAIN styleInfos' : styleInfos'[i].name = styleInfos'[j].name => i = j
        BY <1>3, <1>5 DEF RulesCore, RegistryFits
    <2>2. \A i \in DOMAIN styleInfos' : styleInfos'[i].excludes \subseteq Plugin[styleInfos'[i].name].excludes
        BY <1>3, <1>5 DEF RulesCore, RegistryFits
    <2> QED BY <1>4, <2>1, <2>2 DEF RegistryFits
<1>7. GoodLists \subseteq GoodLists'
    BY <1>3, <1>5, NewRegistry DEF RulesCore
<1>8. /\ ~processing /\ reloads < MaxReloads /\ reloads' = reloads + 1
      /\ mode' = mode /\ timerRunning' = timerRunning /\ course' = course
      /\ modeCvars' = modeCvars /\ maxVelocity' = maxVelocity /\ processing' = processing /\ command' = command
    BY DEF UnregisterStyle, Unpause, AfterRemoving, runVars, moving, rules, physics
<1>9. /\ styles' \in GoodLists /\ ToSet(styles') \subseteq ToSet(styles)
      /\ gravity' \in Nat /\ PutBack(styles', gravity')
    <2>1. CASE UNCHANGED <<styles, gravity>>
        BY <2>1 DEF RulesCore, TypeOKRules
    <2>2. CASE \E n : RemoveStyle(n)
        BY <2>2, RemovedIsGood
    <2>3. UNCHANGED <<styles, gravity>> \/ \E n : RemoveStyle(n)
        BY DEF UnregisterStyle, Unpause, rules, physics
    <2> QED BY <2>1, <2>2, <2>3
<1>10. TypeOKRules'
    <2>1. reloads' \in 0 .. MaxReloads
        BY <1>8, RulesAssumption DEF RulesCore, TypeOKRules
    <2>2. styles' \in Seq(DOMAIN Plugin)
        BY <1>9 DEF GoodLists
    <2> QED BY <1>8, <1>9, <2>1, <2>2 DEF RulesCore, TypeOKRules
<1>11. RulesInv'
    BY <1>6, <1>7, <1>8, <1>9, <1>10 DEF RulesInv, RulesCore, RightPhysics, PutBack
<1> QED BY <1>8, <1>9, <1>11 DEF KeepsItsRules

LEMMA SessionStep ==
    ASSUME RulesCore,
           \/ \E m \in Mode : CommandMode(m)
           \/ ResetPlayer
           \/ OnPlayerActive
           \/ \E m \in Mode, names \in Preferred : OnPlayerPreferenceLoaded(m, names)
    PROVE  RulesInv' /\ KeepsItsRules
<1>1. TypeOKRules
    BY DEF RulesCore
<1>2. ASSUME NEW m \in Mode, CommandMode(m)
      PROVE  RulesInv' /\ KeepsItsRules
    <2>1. /\ mode' = m /\ timerRunning' = FALSE /\ styles' = styles /\ course' = course /\ gravity' = gravity /\ ~processing
          /\ UNCHANGED <<registry, modeCvars, maxVelocity, processing, command>>
        BY <1>2 DEF CommandMode, SwitchToMode, physics, moving
    <2>2. RulesInv'
        BY <2>1, QuietStep DEF RulesCore, TypeOKRules
    <2> QED BY <2>1, <2>2 DEF KeepsItsRules
<1>3. ASSUME ResetPlayer
      PROVE  RulesInv' /\ KeepsItsRules
    BY <1>3, RefreshStep, RulesAssumption DEF ResetPlayer, SwitchToMode
<1>4. ASSUME OnPlayerActive
      PROVE  RulesInv' /\ KeepsItsRules
    BY <1>1, <1>4, RefreshStep DEF OnPlayerActive, SwitchToMode, TypeOKRules
<1>5. ASSUME NEW m \in Mode, NEW names \in Preferred, OnPlayerPreferenceLoaded(m, names)
      PROVE  RulesInv' /\ KeepsItsRules
    <2>1. names \in Seq(STRING)
        BY RulesAssumption
    <2>2. /\ ~processing /\ ~timerRunning' /\ mode' = m /\ RefreshStyles(names)
          /\ timerRunning' \in BOOLEAN /\ course' \in Course \cup {NoCourse}
          /\ UNCHANGED <<registry, modeCvars, maxVelocity, moving>>
        BY <1>1, <1>5 DEF OnPlayerPreferenceLoaded, runVars, TypeOKRules
    <2> QED BY <2>1, <2>2, RefreshStep
<1> QED BY <1>2, <1>3, <1>4, <1>5

LEMMA RunStep ==
    ASSUME RulesCore, (\E c \in Course : TouchStartZone(c)) \/ TimerStart \/ TimerStop
    PROVE  RulesInv' /\ KeepsItsRules
<1>1. /\ ~processing /\ UNCHANGED <<registry, mode, styles, gravity, modeCvars, maxVelocity, processing, command>>
      /\ timerRunning' \in BOOLEAN /\ course' \in Course \cup {NoCourse}
      /\ timerRunning' => course' # NoCourse
    BY RulesAssumption DEF TouchStartZone, TimerStart, TimerStop, rules, physics, moving, RulesCore, TypeOKRules
<1>2. RulesInv'
    BY <1>1, QuietStep DEF RulesCore, TypeOKRules
<1> QED BY <1>1, <1>2 DEF KeepsItsRules

\* A move, and what the moves of the others leave behind: rules and run stay.
LEMMA SameRules ==
    ASSUME RulesCore, UNCHANGED <<registry, rules, runVars>>
    PROVE  /\ GoodLists' = GoodLists /\ RegistryFits' /\ KeepsItsRules
           /\ styles' = styles /\ mode' = mode /\ timerRunning' = timerRunning /\ course' = course /\ reloads' = reloads
           /\ styleInfos' = styleInfos
BY DEF GoodLists, Exclusive, InfoOf, Names, registry, rules, runVars, RulesCore, RegistryFits, KeepsItsRules

LEMMA OthersMoveStep ==
    ASSUME RulesCore, OthersMove
    PROVE  RulesInv' /\ KeepsItsRules
<1>1. UNCHANGED <<registry, rules, runVars>> /\ gravity' = gravity /\ processing' = processing /\ command' = command
    BY DEF OthersMove, moving
<1>2. modeCvars' \in Mode /\ ~processing
    BY DEF OthersMove
<1>3. maxVelocity' \in Nat
    <2>1. \A n \in Names : n \in DOMAIN Plugin
        BY InfoIs DEF Names, RulesCore
    <2>2. \A n \in Names : Plugin[n].maxVel \in Nat
        BY <2>1, PluginFields
    <2>3. \A c \in Course : MaxVelOf[c] \in Nat
        BY RulesAssumption
    <2> QED BY <2>2, <2>3 DEF OthersMove
<1>4. RulesInv'
    BY <1>1, <1>2, <1>3, SameRules DEF RulesInv, RulesCore, RightPhysics, TypeOKRules, PutBack
<1> QED BY <1>1, <1>4, SameRules

LEMMA MoveByRulesStep ==
    ASSUME RulesCore, NEW cmd \in Commands, MoveByRules(cmd)
    PROVE  RulesInv' /\ KeepsItsRules
<1> DEFINE v == ApplyModeSettings.maxVelocity
           before == [maxVelocity |-> v, gravity |-> gravity]
           set == SetByStyles(before)
<1>1. /\ TypeOKRules /\ styles \in Seq(DOMAIN Plugin) /\ gravity \in Nat /\ maxVelocity \in Nat /\ mode \in Mode
      /\ course \in Course \cup {NoCourse}
    BY DEF RulesCore, TypeOKRules
<1>2. /\ processing' = TRUE /\ command' = SetupMoveBy(cmd)
      /\ modeCvars' = mode
      /\ maxVelocity' = set.maxVelocity /\ gravity' = set.gravity
      /\ UNCHANGED <<registry, rules, runVars>>
    BY DEF MoveByRules, ApplyModeSettings
<1>3. v \in Nat /\ v = IF VelStyles = {} /\ course # NoCourse THEN MaxVelOf[course] ELSE maxVelocity
    BY <1>1, RulesAssumption DEF ApplyModeSettings
<1>4. /\ set.maxVelocity \in Nat /\ set.gravity \in Nat
      /\ set.maxVelocity = IF VelStyles = {} THEN v ELSE Plugin[styles[Latest(VelStyles)]].maxVel
      /\ set.gravity = IF GravityStyles = {} THEN gravity ELSE Plugin[styles[Latest(GravityStyles)]].gravity
    <2> HIDE DEF v
    <2> QED BY <1>1, <1>3, SetByStylesIs
<1>5. cmd \in Command
    BY InputAssumption
<1>6. /\ SetupMoveBy(cmd) \in Command
      /\ \A s \in ToSet(styles) : Plugin[s].excludes \cap ToSet(styles) = {} => Obeys(SetupMoveBy(cmd), s)
    BY <1>1, <1>5, SetupMoveByObeys
<1> HIDE DEF v, set, before
<1>7. /\ GoodLists' = GoodLists /\ RegistryFits' /\ KeepsItsRules
      /\ styles' = styles /\ mode' = mode /\ timerRunning' = timerRunning /\ course' = course /\ reloads' = reloads
      /\ styleInfos' = styleInfos
    BY <1>2, SameRules
<1>8. TypeOKRules'
    BY <1>1, <1>2, <1>4, <1>6, <1>7 DEF TypeOKRules
<1>9. VelStyles' = VelStyles /\ GravityStyles' = GravityStyles
    BY <1>7 DEF VelStyles, GravityStyles
<1>10. GravityStyles = {} => gravity = 100
    BY DEF RulesCore, PutBack, GravityStyles
<1>11. PutBack(styles', gravity')
    <2>1. (\A i \in DOMAIN styles : Plugin[styles[i]].gravity = Unset) => GravityStyles = {}
        BY DEF GravityStyles
    <2> QED BY <1>2, <1>4, <1>7, <1>10, <2>1 DEF PutBack
<1>12. RulesCore'
    BY <1>7, <1>8, <1>11 DEF RulesCore
<1>13. RightPhysics'
    <2>1. SUFFICES ASSUME timerRunning' PROVE RightPhysics'
        BY DEF RightPhysics
    <2>2. course # NoCourse
        BY <1>7, <2>1 DEF RulesCore
    <2>3. modeCvars' = mode'
        BY <1>2, <1>7
    <2>4. VelStyles = {} => maxVelocity' = MaxVelOf[course]
        BY <1>2, <1>3, <1>4, <2>2
    <2>5. maxVelocity' = IF VelStyles = {} THEN maxVelocity' ELSE Plugin[styles[Latest(VelStyles)]].maxVel
        BY <1>2, <1>4
    <2>6. gravity' = IF GravityStyles = {} THEN 100 ELSE Plugin[styles[Latest(GravityStyles)]].gravity
        BY <1>2, <1>4, <1>10
    <2>7. \A s, t \in ToSet(styles) : ~Exclusive(s, t)'
        <3>1. \A s, t \in ToSet(styles) : ~Exclusive(s, t)
            BY DEF RulesCore, GoodLists, ToSet
        <3>2. \A s, t : Exclusive(s, t)' <=> Exclusive(s, t)
            BY <1>7 DEF Exclusive, InfoOf
        <3> QED BY <3>1, <3>2
    <2>8. \A s \in ToSet(styles) : Plugin[s].excludes \cap ToSet(styles) = {} => Obeys(command', s)
        BY <1>2, <1>6
    <2>9. PredictedMaxVelocity' = IF VelStyles = {} THEN maxVelocity' ELSE Plugin[styles[Latest(VelStyles)]].maxVel
        BY <1>7, <1>9 DEF PredictedMaxVelocity
    <2> QED BY <1>7, <1>9, <2>3, <2>4, <2>5, <2>6, <2>7, <2>8, <2>9 DEF RightPhysics
<1> QED BY <1>7, <1>12, <1>13 DEF RulesInv

LEMMA RulesStep ==
    ASSUME RulesInv, [NextRules]_ruleVars
    PROVE  RulesInv' /\ (KeepsItsRules \/ UNCHANGED ruleVars)
<1>1. RulesCore
    BY DEF RulesInv
<1>2. CASE CommandStyle
    BY <1>1, <1>2, CommandStyleStep
<1>3. CASE \E name \in Names : UnregisterStyle(name) \/ Unpause(name)
    BY <1>1, <1>3, UnregisterStep
<1>4. CASE \/ \E m \in Mode : CommandMode(m)
           \/ ResetPlayer
           \/ OnPlayerActive
           \/ \E m \in Mode, names \in Preferred : OnPlayerPreferenceLoaded(m, names)
    BY <1>1, <1>4, SessionStep
<1>5. CASE (\E c \in Course : TouchStartZone(c)) \/ TimerStart \/ TimerStop
    BY <1>1, <1>5, RunStep
<1>6. CASE OthersMove
    BY <1>1, <1>6, OthersMoveStep
<1>7. CASE \E cmd \in Commands : MoveByRules(cmd)
    BY <1>1, <1>7, MoveByRulesStep
<1>8. CASE MoveByRulesPost
    <2>1. UNCHANGED <<registry, rules, runVars>> /\ physics' = physics /\ processing' = FALSE /\ command' = NoCommand
        BY <1>8 DEF MoveByRulesPost
    <2>2. NoCommand \in Command
        BY DEF NoCommand, Command
    <2>3. RulesCore'
        <3>1. modeCvars' = modeCvars /\ maxVelocity' = maxVelocity /\ gravity' = gravity
            BY <2>1 DEF physics
        <3>2. TypeOKRules'
            BY <1>1, <2>1, <2>2, <3>1, SameRules DEF RulesCore, TypeOKRules
        <3> QED BY <1>1, <2>1, <3>1, <3>2, SameRules DEF RulesCore, PutBack
    <2>4. RightPhysics'
        <3>1. ~processing'
            BY <2>1
        <3> QED BY <3>1 DEF RightPhysics
    <2> QED BY <1>1, <2>1, <2>3, <2>4, SameRules DEF RulesInv
<1>9. CASE UNCHANGED ruleVars
    <2>1. /\ UNCHANGED <<registry, rules, runVars>> /\ modeCvars' = modeCvars /\ maxVelocity' = maxVelocity
          /\ gravity' = gravity /\ processing' = processing /\ command' = command
        BY <1>9 DEF ruleVars, physics, moving
    <2>2. RulesCore'
        BY <1>1, <2>1, SameRules DEF RulesCore, TypeOKRules, PutBack
    <2>3. RightPhysics'
        <3>1. \A s, t : Exclusive(s, t)' <=> Exclusive(s, t)
            BY <1>1, <2>1, SameRules DEF Exclusive, InfoOf
        <3>2. VelStyles' = VelStyles /\ GravityStyles' = GravityStyles /\ PredictedMaxVelocity' = PredictedMaxVelocity
            BY <1>1, <2>1, SameRules DEF VelStyles, GravityStyles, PredictedMaxVelocity
        <3> QED BY <1>1, <2>1, <3>1, <3>2, SameRules DEF RulesInv, RightPhysics
    <2> QED BY <1>9, <2>2, <2>3 DEF RulesInv
<1> QED BY <1>2, <1>3, <1>4, <1>5, <1>6, <1>7, <1>8, <1>9 DEF NextRules

LEMMA RulesInvariant == SpecRules => []RulesInv
<1>1. InitRules => RulesInv
    BY RulesInitially
<1>2. RulesInv /\ [NextRules]_ruleVars => RulesInv'
    BY RulesStep
<1> QED BY <1>1, <1>2, PTL DEF SpecRules

\* The registry, the styles and the values a move is made with stay what they
\* are declared as, whatever plugins come and go.
THEOREM RulesTyped == SpecRules => []TypeOKRules
<1>1. RulesInv => TypeOKRules
    BY DEF RulesInv, RulesCore
<1> QED BY <1>1, RulesInvariant, PTL

\* A move in a run is made with the variables of the player's mode, the speed
\* limit and the gravity his last style sets (or his course and the map), on
\* input his styles allow, and with styles that do not exclude each other:
\* whatever the others' moves and the plugins did in between.
THEOREM PhysicsAreRight == SpecRules => []RightPhysics
<1>1. RulesInv => RightPhysics
    BY DEF RulesInv
<1> QED BY <1>1, RulesInvariant, PTL

\* A run that goes on has its mode, and no style it was not started with:
\* SwitchToMode and AddStyle stop the timer, a reload of preferences waits.
THEOREM RulesAreKept == SpecRules => RunKeepsItsRules
<1>1. RulesInv /\ [NextRules]_ruleVars => [KeepsItsRules]_ruleVars
    BY RulesStep
<1>2. KeepsItsRules <=> (timerRunning /\ timerRunning' => mode' = mode /\ ToSet(styles') \subseteq ToSet(styles))
    BY DEF KeepsItsRules
<1>3. RulesInv /\ [NextRules]_ruleVars =>
          [timerRunning /\ timerRunning' => mode' = mode /\ ToSet(styles') \subseteq ToSet(styles)]_ruleVars
    BY <1>1, <1>2
<1> QED BY <1>3, RulesInvariant, PTL DEF SpecRules, RunKeepsItsRules

(***************************************************************************)
(* RecordQueries: the requests for records, for any commands and any       *)
(* number of requests: what a request waits for and what it has heard can  *)
(* be told from its two states.                                            *)
(***************************************************************************)
\* Before its lookups are back a request has asked nothing.
LookingUp(r) == r.requestingFirstCourse \/ r.requestingLocalPlayer

Unasked(r) == r.localStatus \in {"disabled", "enabled"} /\ r.globalStatus \in {"disabled", "enabled"}

\* The calls of a request that may be without an answer, by its states: no more
\* than one local query and one to the API.
CallsFit(r, under) ==
    /\ LookingUp(r) => Unasked(r)
    /\ r.requestingLocalPlayer => r.kind = "pb"
    /\ "course" \in under => r.requestingFirstCourse
    /\ "player" \in under => r.requestingLocalPlayer
    /\ "ranked" \in under \/ "rankless" \in under => r.localStatus = "pending"
    /\ ~("ranked" \in under /\ "rankless" \in under)
    /\ "global" \in under => r.globalStatus = "pending"

\* Its states tell which answers came.
HeardFits(r, had) ==
    /\ r.localStatus = "received" <=> "ranked" \in had
    /\ r.globalStatus = "received" <=> "global" \in had

RequestFits(u) ==
    CallsFit(instances[u], Of(u, calls)) /\ HeardFits(instances[u], Of(u, arrived))

\* Nothing is there of a request that is not.
NothingElse ==
    /\ \A c \in calls : c.uid \in 1 .. idCount
    /\ \A c \in arrived : c.uid \in Live
    /\ answered \subseteq 1 .. idCount /\ answered \cap Live = {}

QueryInv == TypeOK /\ NothingElse /\ \A u \in Live : RequestFits(u)

(***************************************************************************)
(* The calls of a request.                                                 *)
(***************************************************************************)
LEMMA CallFields ==
    ASSUME NEW u, NEW what
    PROVE  Call(u, what).uid = u /\ Call(u, what).what = what
BY DEF Call

LEMMA OfUnion ==
    ASSUME NEW u, NEW S, NEW T
    PROVE  Of(u, S \cup T) = Of(u, S) \cup Of(u, T)
BY DEF Of

LEMMA OfOthers ==
    ASSUME NEW u, NEW S, \A c \in S : c.uid # u
    PROVE  Of(u, S) = {}
BY DEF Of

LEMMA OfCalls ==
    ASSUME NEW u, NEW W
    PROVE  Of(u, {Call(u, what) : what \in W}) = W
<1> DEFINE S == {Call(u, what) : what \in W}
<1>1. \A c \in S : c.uid = u /\ c.what \in W
    BY CallFields
<1>2. \A what \in W : Call(u, what) \in S /\ Call(u, what).what = what
    BY CallFields
<1> HIDE DEF S
<1>3. Of(u, S) \subseteq W
    BY <1>1 DEF Of
<1>4. ASSUME NEW what \in W
      PROVE  what \in Of(u, S)
    BY <1>1, <1>2 DEF Of
<1> QED BY <1>3, <1>4 DEF S

\* An answered call is no longer under way; the others are.
LEMMA OfRest ==
    ASSUME NEW S \in SUBSET Calls, NEW call \in S
    PROVE  /\ Of(call.uid, S \ {call}) = Of(call.uid, S) \ {call.what}
           /\ call.what \in Of(call.uid, S)
           /\ \A u : u # call.uid => Of(u, S \ {call}) = Of(u, S)
<1>1. \A c \in S : c.uid = call.uid /\ c.what = call.what => c = call
    BY DEF Calls
<1>2. Of(call.uid, S \ {call}) = Of(call.uid, S) \ {call.what}
    BY <1>1 DEF Of
<1> QED BY <1>2 DEF Of

(***************************************************************************)
(* What the code does to one request.                                      *)
(***************************************************************************)
LEMMA NewFits ==
    ASSUME NEW ask \in Ask, ask.kind = "top" => ~ask.elsewhere
    PROVE  LET r == NewRequest(ask) IN
               /\ r \in Request /\ HeardFits(r, {})
               /\ CallsFit(r, (IF r.requestingFirstCourse THEN {"course"} ELSE {})
                                  \cup (IF r.requestingLocalPlayer THEN {"player"} ELSE {}))
BY RequestAssumption DEF Ask, NewRequest, Request, Status, CallsFit, HeardFits, LookingUp, Unasked

LEMMA InvalidFits ==
    ASSUME NEW ask \in Ask
    PROVE  LET r == [NewRequest(ask) EXCEPT !.isValid = FALSE, !.requestingLocalPlayer = FALSE] IN
               /\ r \in Request /\ HeardFits(r, {})
               /\ CallsFit(r, (IF r.requestingFirstCourse THEN {"course"} ELSE {})
                                  \cup (IF r.requestingLocalPlayer THEN {"player"} ELSE {}))
<1> DEFINE n == NewRequest(ask)
           r == [n EXCEPT !.isValid = FALSE, !.requestingLocalPlayer = FALSE]
<1>1. n \in Request /\ n.localStatus \in {"disabled", "enabled"} /\ n.globalStatus \in {"disabled", "enabled"}
    BY RequestAssumption DEF Ask, NewRequest, Request, Status
<1> HIDE DEF n
<1>2. /\ r \in Request /\ ~r.requestingLocalPlayer
      /\ r.localStatus = n.localStatus /\ r.globalStatus = n.globalStatus
    BY <1>1 DEF Request
<1> HIDE DEF r
<1>3. /\ HeardFits(r, {})
      /\ CallsFit(r, (IF r.requestingFirstCourse THEN {"course"} ELSE {})
                         \cup (IF r.requestingLocalPlayer THEN {"player"} ELSE {}))
    BY <1>1, <1>2 DEF CallsFit, HeardFits, LookingUp, Unasked
<1> QED BY <1>2, <1>3 DEF r, n

\* A frame: a query is sent exactly when its state turns from enabled to pending.
LEMMA LocalChecked ==
    ASSUME NEW r \in Request, NEW here \in BOOLEAN
    PROVE  LET q == QueryLocal(r, here) IN
               /\ q \in Request
               /\ \A f \in {"kind", "globalStatus", "requestingFirstCourse", "requestingLocalPlayer",
                            "requestingGlobalPlayer", "queryLocalRanking"} : q[f] = r[f]
               /\ \/ q.localStatus = r.localStatus
                  \/ MayQueryLocal(r) /\ r.localStatus = "enabled" /\ q.localStatus = "pending"
BY DEF QueryLocal, Request, Status

LEMMA GlobalChecked ==
    ASSUME NEW r \in Request
    PROVE  LET q == QueryGlobal(r) IN
               /\ q \in Request
               /\ \A f \in {"kind", "requestingFirstCourse", "requestingLocalPlayer", "queryLocalRanking"} :
                      q[f] = r[f]
               /\ \/ q.globalStatus = r.globalStatus
                  \/ MayQueryGlobal(r) /\ r.globalStatus = "enabled" /\ q.globalStatus = "pending"
               /\ \/ q.localStatus = r.localStatus
                  \/ MayQueryGlobal(r) /\ r.localStatus = "enabled" /\ q.localStatus = "disabled"
BY DEF QueryGlobal, Request, Status

LEMMA AnswerFits ==
    ASSUME NEW r \in Request, NEW under, NEW had, NEW what \in under, what \in Lookups \cup Queries,
           NEW found \in BOOLEAN, NEW player \in {"none", "ranked", "banned"},
           CallsFit(r, under), HeardFits(r, had)
    PROVE  /\ Answered(r, what, found, player) \in Request
           /\ CallsFit(Answered(r, what, found, player), under \ {what})
           /\ HeardFits(Answered(r, what, found, player), IF found THEN had \cup {what} ELSE had)
<1> USE DEF CallsFit, HeardFits, LookingUp, Unasked, Request, Status
<1>1. CASE what = "course"
    BY <1>1 DEF Answered, CourseAnswer
<1>2. CASE what = "player"
    BY <1>2 DEF Answered, PlayerAnswer
<1>3. CASE what \in {"ranked", "rankless"}
    BY <1>3 DEF Answered, LocalAnswer
<1>4. CASE what = "global"
    BY <1>4 DEF Answered, GlobalAnswer
<1> QED BY <1>1, <1>2, <1>3, <1>4 DEF Lookups, Queries

\* The queries a frame sends for a request that it turns from r into q.
SentFor(r, q) ==
    (IF r.localStatus = "enabled" /\ q.localStatus = "pending"
     THEN {IF q.queryLocalRanking THEN "ranked" ELSE "rankless"} ELSE {})
    \cup (IF r.globalStatus = "enabled" /\ q.globalStatus = "pending" THEN {"global"} ELSE {})

LEMMA CheckFits ==
    ASSUME NEW r \in Request, NEW under, NEW had, NEW here \in BOOLEAN,
           CallsFit(r, under), HeardFits(r, had)
    PROVE  LET q == QueryGlobal(QueryLocal(r, here)) IN
               /\ q \in Request
               /\ CallsFit(q, under \cup SentFor(r, q)) /\ HeardFits(q, had)
<1> DEFINE p == QueryLocal(r, here)
           q == QueryGlobal(p)
<1>1. p \in Request /\ q \in Request
    BY LocalChecked, GlobalChecked
<1>2. /\ p.kind = r.kind /\ p.globalStatus = r.globalStatus
      /\ p.requestingFirstCourse = r.requestingFirstCourse
      /\ p.requestingLocalPlayer = r.requestingLocalPlayer
      /\ p.queryLocalRanking = r.queryLocalRanking
      /\ \/ p.localStatus = r.localStatus
         \/ MayQueryLocal(r) /\ r.localStatus = "enabled" /\ p.localStatus = "pending"
    BY LocalChecked
<1>3. /\ q.kind = p.kind
      /\ q.requestingFirstCourse = p.requestingFirstCourse
      /\ q.requestingLocalPlayer = p.requestingLocalPlayer
      /\ q.queryLocalRanking = p.queryLocalRanking
      /\ \/ q.globalStatus = p.globalStatus
         \/ MayQueryGlobal(p) /\ p.globalStatus = "enabled" /\ q.globalStatus = "pending"
      /\ \/ q.localStatus = p.localStatus
         \/ MayQueryGlobal(p) /\ p.localStatus = "enabled" /\ q.localStatus = "disabled"
    BY <1>1, GlobalChecked
<1> HIDE DEF p, q
<1>4. LookingUp(r) => ~MayQueryLocal(r) /\ ~MayQueryGlobal(p)
    BY <1>2 DEF LookingUp, MayQueryLocal, MayQueryGlobal, CallsFit
<1>5. CallsFit(q, under \cup SentFor(r, q))
    <2>1. LookingUp(q) => Unasked(q)
        BY <1>2, <1>3, <1>4 DEF LookingUp, Unasked, CallsFit
    <2>2. "ranked" \in SentFor(r, q) \/ "rankless" \in SentFor(r, q) =>
              r.localStatus = "enabled" /\ q.localStatus = "pending"
        BY DEF SentFor
    <2>3. "global" \in SentFor(r, q) => r.globalStatus = "enabled" /\ q.globalStatus = "pending"
        BY DEF SentFor
    <2>4. ~("ranked" \in SentFor(r, q) /\ "rankless" \in SentFor(r, q))
        BY DEF SentFor
    <2>5. "course" \notin SentFor(r, q) /\ "player" \notin SentFor(r, q)
        BY DEF SentFor
    <2>6. /\ r.localStatus = "pending" => q.localStatus = "pending"
          /\ r.globalStatus = "pending" => q.globalStatus = "pending"
        BY <1>2, <1>3
    <2> QED BY <1>2, <1>3, <2>1, <2>2, <2>3, <2>4, <2>5, <2>6 DEF CallsFit
<1>6. HeardFits(q, had)
    BY <1>2, <1>3 DEF HeardFits
<1> QED BY <1>1, <1>2, <1>3, <1>5, <1>6 DEF p, q

\* Whoever is answered without being forced waits for nothing, and is told
\* what has come.
LEMMA ToldAll ==
    ASSUME NEW r \in Request, NEW under \in SUBSET (Lookups \cup Queries), NEW had,
           CallsFit(r, under), HeardFits(r, had)
    PROVE  /\ Complete(r) => under \cap Queries = {}
           /\ (IF r.localStatus = "received" THEN {"local"} ELSE {})
                  \cup (IF r.globalStatus = "received" THEN {"global"} ELSE {})
                  = {SideOf(query) : query \in (had \cap Queries) \ {"rankless"}}
<1>1. Complete(r) => under \cap Queries = {}
    BY DEF Complete, Over, CallsFit, Queries
<1>2. (had \cap Queries) \ {"rankless"} =
          (IF r.localStatus = "received" THEN {"ranked"} ELSE {})
              \cup (IF r.globalStatus = "received" THEN {"global"} ELSE {})
    BY DEF HeardFits, Queries
<1>3. SideOf("ranked") = "local" /\ SideOf("global") = "global"
    BY DEF SideOf
<1> QED BY <1>1, <1>2, <1>3

(***************************************************************************)
(* The steps.                                                              *)
(***************************************************************************)
\* The type invariant but for what was said.
TypeOfRequests ==
    /\ Live \subseteq 1 .. idCount /\ idCount \in 0 .. MaxRequests
    /\ \A u \in Live : instances[u] \in Request
    /\ gone \subseteq Live /\ calls \subseteq Calls /\ arrived \subseteq Calls
    /\ answered \subseteq Uids

LEMMA NothingSaid ==
    ASSUME TypeOfRequests', said' = <<>>, NothingElse', \A u \in Live' : RequestFits(u)'
    PROVE  QueryInv'
BY DEF QueryInv, TypeOK, TypeOfRequests

LEMMA EnterStep ==
    ASSUME QueryInv, NEW request \in Request, Enter(request), NEW new \in Nat, new = idCount + 1,
           calls' = calls \cup LookUp(idCount', request), HeardFits(request, {}),
           CallsFit(request, (IF request.requestingFirstCourse THEN {"course"} ELSE {})
                                 \cup (IF request.requestingLocalPlayer THEN {"player"} ELSE {}))
    PROVE  QueryInv'
<1> DEFINE W == (IF request.requestingFirstCourse THEN {"course"} ELSE {})
                    \cup (IF request.requestingLocalPlayer THEN {"player"} ELSE {})
<1> USE RequestAssumption
<1>1. /\ idCount' = new /\ new \in Uids /\ new \notin Live /\ Live' = Live \cup {new}
      /\ instances'[new] = request /\ \A u \in Live : instances'[u] = instances[u]
      /\ said' = <<>> /\ UNCHANGED <<gone, arrived, answered>>
    BY DEF Enter, Live, QueryInv, TypeOK, Uids
<1>2. calls' = calls \cup LookUp(new, request) /\ arrived' = arrived
    BY <1>1
<1>3. Of(new, LookUp(new, request)) = W /\ \A c \in LookUp(new, request) : c.uid = new
    <2> HIDE DEF W
    <2>1. LookUp(new, request) = {Call(new, what) : what \in W}
        BY DEF LookUp, W
    <2>2. Of(new, {Call(new, what) : what \in W}) = W
        BY OfCalls
    <2>3. \A c \in {Call(new, what) : what \in W} : c.uid = new
        BY CallFields
    <2> QED BY <2>1, <2>2, <2>3
<1>4. \A u : Of(u, calls') = Of(u, calls) \cup Of(u, LookUp(new, request))
    <2>1. \A u : Of(u, calls \cup LookUp(new, request)) = Of(u, calls) \cup Of(u, LookUp(new, request))
        BY OfUnion
    <2> QED BY <1>2, <2>1
<1> HIDE DEF W
<1>5. LookUp(new, request) \subseteq Calls
    BY <1>1 DEF LookUp, Call, Calls, Lookups
<1>6. \A c \in calls \cup arrived : c.uid # new
    BY <1>1 DEF QueryInv, NothingElse, TypeOK
<1>7. Of(new, calls') = W /\ Of(new, arrived') = {}
    <2>1. Of(new, calls) = {} /\ Of(new, arrived) = {}
        BY <1>6, OfOthers
    <2> QED BY <1>2, <1>3, <1>4, <2>1
<1>8. ASSUME NEW u \in Live
      PROVE  Of(u, calls') = Of(u, calls)
    <2>1. u # new
        BY <1>1
    <2>2. Of(u, LookUp(new, request)) = {}
        BY <1>3, <2>1, OfOthers
    <2> QED BY <1>4, <2>2
<1>9. \A u \in Live' : RequestFits(u)'
    <2>1. RequestFits(new)'
        BY <1>1, <1>7 DEF RequestFits, W
    <2>2. ASSUME NEW u \in Live
          PROVE  RequestFits(u)'
        <3>1. instances'[u] = instances[u] /\ Of(u, arrived') = Of(u, arrived)
            BY <1>1, <1>2
        <3>2. RequestFits(u)
            BY DEF QueryInv
        <3> QED BY <1>8, <3>1, <3>2 DEF RequestFits
    <2> QED BY <1>1, <2>1, <2>2
<1>10. NothingElse'
    <2>1. \A c \in calls' : c.uid \in 1 .. idCount'
        BY <1>1, <1>2, <1>3 DEF QueryInv, NothingElse, TypeOK
    <2>2. answered' \subseteq 1 .. idCount' /\ answered' \cap Live' = {}
        <3>1. answered \subseteq 1 .. idCount /\ answered \cap Live = {} /\ idCount \in Nat
            BY DEF QueryInv, NothingElse, TypeOK
        <3>2. idCount + 1 \notin 1 .. idCount /\ 1 .. idCount \subseteq 1 .. idCount + 1
            BY <3>1
        <3> QED BY <1>1, <3>1, <3>2
    <2> QED BY <1>1, <2>1, <2>2 DEF QueryInv, NothingElse
<1>11. TypeOfRequests'
    <2>1. Live' \subseteq 1 .. idCount' /\ idCount' \in 0 .. MaxRequests
        <3>1. Live \subseteq 1 .. idCount /\ idCount \in 0 .. MaxRequests
            BY DEF QueryInv, TypeOK, Uids
        <3>2. idCount' \in 0 .. MaxRequests
            BY <1>1 DEF Uids, RequestAssumption
        <3>3. 1 .. idCount \subseteq 1 .. idCount' /\ new \in 1 .. idCount'
            BY <1>1, <3>1
        <3> QED BY <1>1, <3>1, <3>2, <3>3
    <2>2. \A u \in Live' : instances'[u] \in Request
        BY <1>1 DEF QueryInv, TypeOK
    <2> QED BY <1>1, <1>2, <1>5, <2>1, <2>2 DEF QueryInv, TypeOK, TypeOfRequests
<1> QED BY <1>1, <1>9, <1>10, <1>11, NothingSaid

LEMMA AnswerStep ==
    ASSUME QueryInv, NEW call \in calls, NEW found \in BOOLEAN,
           NEW player \in {"none", "ranked", "banned"}, Answer(call, found, player)
    PROVE  QueryInv'
<1>1. /\ calls' = calls \ {call} /\ said' = <<>> /\ UNCHANGED <<idCount, gone, answered>>
      /\ call \in Calls /\ calls \subseteq Calls /\ call.what \in Lookups \cup Queries
    BY DEF Answer, QueryInv, TypeOK, Calls
<1>2. CASE call.uid \notin Live
    <2>1. UNCHANGED <<instances, arrived>>
        BY <1>2 DEF Answer
    <2>2. \A u \in Live : Of(u, calls') = Of(u, calls)
        BY <1>1, <1>2, OfRest
    <2>3. \A u \in Live' : RequestFits(u)'
        BY <2>1, <2>2 DEF QueryInv, RequestFits, Live
    <2>4. TypeOfRequests' /\ NothingElse'
        BY <1>1, <2>1 DEF QueryInv, TypeOK, TypeOfRequests, NothingElse, Live
    <2> QED BY <1>1, <2>3, <2>4, NothingSaid
<1>3. CASE call.uid \in Live
    <2> DEFINE v == call.uid
               r == instances[v]
               a == Answered(r, call.what, found, player)
    <2>1. /\ instances' = [instances EXCEPT ![v] = a]
          /\ arrived' = IF found THEN arrived \cup {call} ELSE arrived
        BY <1>3 DEF Answer, Update
    <2>2. r \in Request /\ RequestFits(v)
        BY <1>3 DEF QueryInv, TypeOK
    <2>3. call.what \in Of(v, calls) /\ Of(v, calls') = Of(v, calls) \ {call.what}
        BY <1>1, OfRest
    <2>4. a \in Request /\ CallsFit(a, Of(v, calls'))
          /\ HeardFits(a, IF found THEN Of(v, arrived) \cup {call.what} ELSE Of(v, arrived))
        <3>1. CallsFit(r, Of(v, calls)) /\ HeardFits(r, Of(v, arrived))
            BY <2>2 DEF RequestFits
        <3> HIDE DEF r, v
        <3> DEFINE under == Of(v, calls)
                   had == Of(v, arrived)
        <3> HIDE DEF r, v, under, had
        <3>2. call.what \in Lookups \cup Queries /\ call.what \in under
            BY <1>1, <2>3 DEF under
        <3>3. CallsFit(r, under) /\ HeardFits(r, had)
            BY <3>1 DEF under, had
        <3>4. /\ a \in Request /\ CallsFit(a, under \ {call.what})
              /\ HeardFits(a, IF found THEN had \cup {call.what} ELSE had)
            BY <2>2, <3>2, <3>3, AnswerFits
        <3> QED BY <2>3, <3>4 DEF under, had
    <2> HIDE DEF a
    <2>5. Live' = Live /\ instances'[v] = a /\ \A u \in Live : u # v => instances'[u] = instances[u]
        BY <1>3, <2>1 DEF Live
    <2>6. Of(v, arrived') = IF found THEN Of(v, arrived) \cup {call.what} ELSE Of(v, arrived)
        <3>1. Of(v, {call}) = {call.what}
            BY DEF Of
        <3> QED BY <2>1, <3>1, OfUnion
    <2>7. RequestFits(v)'
        BY <2>4, <2>5, <2>6 DEF RequestFits
    <2>8. ASSUME NEW u \in Live, u # v
          PROVE  RequestFits(u)'
        <3>1. Of(u, calls') = Of(u, calls)
            BY <1>1, <2>8, OfRest
        <3>2. Of(u, {call}) = {}
            BY <2>8, OfOthers
        <3>3. Of(u, arrived') = Of(u, arrived)
            BY <2>1, <3>2, OfUnion
        <3> QED BY <2>5, <2>8, <3>1, <3>3 DEF QueryInv, RequestFits
    <2>9. TypeOfRequests'
        <3>1. \A u \in Live' : instances'[u] \in Request
            BY <2>4, <2>5 DEF QueryInv, TypeOK
        <3>2. calls' \subseteq Calls /\ arrived' \subseteq Calls
            BY <1>1, <2>1 DEF QueryInv, TypeOK
        <3> QED BY <1>1, <2>5, <3>1, <3>2 DEF QueryInv, TypeOK, TypeOfRequests
    <2>10. NothingElse'
        BY <1>1, <1>3, <2>1, <2>5 DEF QueryInv, NothingElse
    <2> QED BY <1>1, <2>5, <2>7, <2>8, <2>9, <2>10, NothingSaid
<1> QED BY <1>2, <1>3

\* What a step says, in the words of AnsweredOnceWithAll.
SaidRight ==
    \A u \in DOMAIN said' :
        /\ u \notin answered /\ u \notin Live'
        /\ said'[u].forced \/ said'[u].due = {}
        /\ said'[u].told = {SideOf(query) : query \in said'[u].had \ {"rankless"}}

\* A request in the frame that checks it.
LEMMA CheckedFits ==
    ASSUME QueryInv, NEW u \in Live
    PROVE  /\ Checked[u] \in Request
           /\ CallsFit(Checked[u], Of(u, calls) \cup SentFor(instances[u], Checked[u]))
           /\ HeardFits(Checked[u], Of(u, arrived))
<1> DEFINE r == instances[u]
           under == Of(u, calls)
           had == Of(u, arrived)
<1>1. r \in Request /\ CallsFit(r, under) /\ HeardFits(r, had)
    BY DEF QueryInv, TypeOK, RequestFits
<1>2. Checked[u] = QueryGlobal(QueryLocal(r, u \notin gone)) /\ (u \notin gone) \in BOOLEAN
    BY DEF Checked
<1> HIDE DEF r, under, had
<1>3. LET q == QueryGlobal(QueryLocal(r, u \notin gone)) IN
          q \in Request /\ CallsFit(q, under \cup SentFor(r, q)) /\ HeardFits(q, had)
    BY <1>1, <1>2, CheckFits
<1> QED BY <1>2, <1>3 DEF r, under, had

\* The queries of all requests, told apart again.
LEMMA SentByEach ==
    ASSUME NEW checked, NEW u \in Live
    PROVE  Of(u, UNION {Sent(v, checked[v]) : v \in Live}) = SentFor(instances[u], checked[u])
<1>1. ASSUME NEW v \in Live
      PROVE  /\ Sent(v, checked[v]) = {Call(v, what) : what \in SentFor(instances[v], checked[v])}
             /\ \A c \in Sent(v, checked[v]) : c.uid = v
    <2>1. Sent(v, checked[v]) = {Call(v, what) : what \in SentFor(instances[v], checked[v])}
        BY DEF Sent, SentFor
    <2> QED BY <2>1, CallFields
<1>2. Of(u, Sent(u, checked[u])) = SentFor(instances[u], checked[u])
    <2>1. Of(u, {Call(u, what) : what \in SentFor(instances[u], checked[u])}) = SentFor(instances[u], checked[u])
        BY OfCalls
    <2> QED BY <1>1, <2>1
<1>3. \A c : c.uid = u =>
          (c \in UNION {Sent(v, checked[v]) : v \in Live} <=> c \in Sent(u, checked[u]))
    BY <1>1
<1>4. Of(u, UNION {Sent(v, checked[v]) : v \in Live}) = Of(u, Sent(u, checked[u]))
    BY <1>3 DEF Of
<1> QED BY <1>2, <1>4

LEMMA CheckStep ==
    ASSUME QueryInv, CheckRequests
    PROVE  QueryInv' /\ SaidRight
<1> DEFINE checked == Checked
           removed == {u \in Live : Removed(checked[u])}
           toldNow == {v \in removed \ gone : checked[v].isValid}
           issued == UNION {Sent(u, checked[u]) : u \in Live}
<1>1. /\ calls' = calls \cup issued
      /\ instances' = [u \in Live \ removed |-> checked[u]]
      /\ arrived' = {c \in arrived : c.uid \notin removed}
      /\ gone' = gone \ removed
      /\ said' = [u \in toldNow |-> Reply(u, checked[u], calls')]
      /\ answered' = answered \cup DOMAIN said'
      /\ idCount' = idCount
    BY DEF CheckRequests, CheckReplies
<1>2. /\ DOMAIN said' = toldNow /\ toldNow \subseteq removed /\ removed \subseteq Live
      /\ Live' = Live \ removed /\ \A u \in Live' : instances'[u] = checked[u]
      /\ \A u \in toldNow : said'[u] = Reply(u, checked[u], calls')
    BY <1>1 DEF Live
<1>3. \A u \in Live : Of(u, issued) = SentFor(instances[u], checked[u])
    BY SentByEach
<1>4. \A u \in Live : checked[u] \in Request
    BY CheckedFits
<1>5. \A u \in Live : /\ CallsFit(checked[u], Of(u, calls) \cup SentFor(instances[u], checked[u]))
                      /\ HeardFits(checked[u], Of(u, arrived))
    BY CheckedFits
<1>6. issued \subseteq Calls /\ \A c \in issued : c.uid \in Live
    <2>1. ASSUME NEW u \in Live
          PROVE  \A c \in Sent(u, checked[u]) : c \in Calls /\ c.uid = u
        <3>1. u \in Uids
            BY RequestAssumption DEF QueryInv, TypeOK, Uids
        <3> QED BY <3>1 DEF Sent, Call, Calls, Queries
    <2> QED BY <2>1
<1> HIDE DEF checked, removed, toldNow, issued
<1>7. \A u \in Live : Of(u, calls') = Of(u, calls) \cup SentFor(instances[u], checked[u])
    <2>1. \A u : Of(u, calls \cup issued) = Of(u, calls) \cup Of(u, issued)
        BY OfUnion
    <2> QED BY <1>1, <1>3, <2>1
<1>8. calls' \subseteq Calls /\ \A u : Of(u, calls') \subseteq Lookups \cup Queries
    <2>1. calls' \subseteq Calls
        BY <1>1, <1>6 DEF QueryInv, TypeOK
    <2> QED BY <2>1 DEF Of, Calls
<1>9. \A u \in Live' : RequestFits(u)'
    <2>1. ASSUME NEW u \in Live'
          PROVE  RequestFits(u)'
        <3>1. Of(u, arrived') = Of(u, arrived)
            BY <1>1, <1>2, <2>1 DEF Of
        <3> QED BY <1>2, <1>5, <1>7, <2>1, <3>1 DEF RequestFits
    <2> QED BY <2>1
<1>10. NothingElse'
    <2>1. \A c \in calls' : c.uid \in 1 .. idCount'
        BY <1>1, <1>6 DEF QueryInv, NothingElse, TypeOK
    <2>2. \A c \in arrived' : c.uid \in Live'
        BY <1>1, <1>2 DEF QueryInv, NothingElse
    <2>3. answered' \subseteq 1 .. idCount' /\ answered' \cap Live' = {}
        BY <1>1, <1>2 DEF QueryInv, NothingElse, TypeOK
    <2> QED BY <2>1, <2>2, <2>3 DEF NothingElse
<1>11. ASSUME NEW u \in toldNow
       PROVE  /\ said'[u].forced = ~Complete(checked[u])
              /\ said'[u].told = (IF checked[u].localStatus = "received" THEN {"local"} ELSE {})
                                     \cup (IF checked[u].globalStatus = "received" THEN {"global"} ELSE {})
              /\ said'[u].had = Of(u, arrived) \cap Queries /\ said'[u].due = Of(u, calls') \cap Queries
              /\ said'[u] \in Replies
    <2> DEFINE forced == ~Complete(checked[u])
               told == (IF checked[u].localStatus = "received" THEN {"local"} ELSE {})
                           \cup (IF checked[u].globalStatus = "received" THEN {"global"} ELSE {})
               had == Of(u, arrived) \cap Queries
               due == Of(u, calls') \cap Queries
    <2>1. said'[u] = [forced |-> forced, told |-> told, had |-> had, due |-> due]
        BY <1>2 DEF Reply
    <2>2. forced \in BOOLEAN
        BY DEF Complete
    <2>3. told \in SUBSET Sides /\ had \in SUBSET Queries /\ due \in SUBSET Queries
        BY DEF Sides
    <2> HIDE DEF forced, told, had, due
    <2>4. [forced |-> forced, told |-> told, had |-> had, due |-> due] \in Replies
        BY <2>2, <2>3 DEF Replies
    <2> QED BY <2>1, <2>4 DEF forced, told, had, due
<1>12. TypeOK'
    <2>1. Live' \subseteq 1 .. idCount' /\ idCount' \in 0 .. MaxRequests /\ gone' \subseteq Live'
        BY <1>1, <1>2 DEF QueryInv, TypeOK
    <2>2. \A u \in Live' : instances'[u] \in Request
        BY <1>2, <1>4
    <2>3. arrived' \subseteq Calls /\ answered' \subseteq Uids
        BY <1>1, <1>2, RequestAssumption DEF QueryInv, TypeOK, Uids
    <2> QED BY <1>2, <1>8, <1>11, <2>1, <2>2, <2>3 DEF TypeOK
<1>13. SaidRight
    <2>1. ASSUME NEW u \in toldNow
          PROVE  /\ u \notin answered /\ u \notin Live'
                 /\ said'[u].forced \/ said'[u].due = {}
                 /\ said'[u].told = {SideOf(query) : query \in said'[u].had \ {"rankless"}}
        <3> DEFINE r == checked[u]
                   under == Of(u, calls')
                   had == Of(u, arrived)
        <3>1. u \in Live /\ u \notin answered /\ u \notin Live'
            BY <1>2, <2>1 DEF QueryInv, NothingElse
        <3>2. /\ r \in Request /\ CallsFit(r, under) /\ HeardFits(r, had)
              /\ under \in SUBSET (Lookups \cup Queries)
            BY <1>4, <1>5, <1>7, <1>8, <3>1
        <3> HIDE DEF r, under, had
        <3>3. /\ Complete(r) => under \cap Queries = {}
              /\ (IF r.localStatus = "received" THEN {"local"} ELSE {})
                     \cup (IF r.globalStatus = "received" THEN {"global"} ELSE {})
                     = {SideOf(query) : query \in (had \cap Queries) \ {"rankless"}}
            BY <3>2, ToldAll
        <3>4. /\ said'[u].forced = ~Complete(r) /\ said'[u].due = under \cap Queries
              /\ said'[u].had = had \cap Queries
              /\ said'[u].told = (IF r.localStatus = "received" THEN {"local"} ELSE {})
                                     \cup (IF r.globalStatus = "received" THEN {"global"} ELSE {})
            BY <1>11, <2>1 DEF r, under, had
        <3>5. said'[u].forced \/ said'[u].due = {}
            BY <3>3, <3>4 DEF Complete
        <3>6. said'[u].told = {SideOf(query) : query \in said'[u].had \ {"rankless"}}
            BY ONLY <3>3, <3>4
        <3> QED BY <3>1, <3>5, <3>6
    <2> QED BY <1>2, <2>1 DEF SaidRight
<1> QED BY <1>9, <1>10, <1>12, <1>13 DEF QueryInv

\* The clock changes the ages only.
LEMMA TickStep ==
    ASSUME QueryInv, Tick
    PROVE  QueryInv'
<1>1. /\ instances' = [u \in Live |-> [instances[u] EXCEPT !.age = Min({@ + 1, Timeout + 1})]]
      /\ said' = <<>> /\ UNCHANGED <<idCount, gone, calls, arrived, answered>>
    BY DEF Tick
<1>2. ASSUME NEW young \in 0 .. Timeout + 1
      PROVE  Min({young + 1, Timeout + 1}) \in 0 .. Timeout + 1
    <2> DEFINE S == {young + 1, Timeout + 1}
    <2>1. \E m \in S : \A n \in S : m <= n
        <3>1. CASE young + 1 <= Timeout + 1
            BY <3>1, RequestAssumption
        <3>2. CASE ~(young + 1 <= Timeout + 1)
            BY <3>2, RequestAssumption
        <3> QED BY <3>1, <3>2
    <2>2. Min(S) \in S /\ \A n \in S : Min(S) <= n
        BY <2>1 DEF Min
    <2> QED BY <2>2, RequestAssumption
<1>3. ASSUME NEW u \in Live
      PROVE  /\ instances'[u] \in Request
             /\ \A f \in {"kind", "localStatus", "globalStatus", "requestingFirstCourse", "requestingLocalPlayer"} :
                    instances'[u][f] = instances[u][f]
    <2> DEFINE r == instances[u]
               young == Min({r.age + 1, Timeout + 1})
    <2>1. r \in Request /\ young \in 0 .. Timeout + 1
        BY <1>2 DEF QueryInv, TypeOK, Request
    <2>2. instances'[u] = [r EXCEPT !.age = young]
        BY <1>1
    <2> HIDE DEF r, young
    <2>3. [r EXCEPT !.age = young] \in Request
        BY <2>1 DEF Request
    <2>4. \A f \in {"kind", "localStatus", "globalStatus", "requestingFirstCourse", "requestingLocalPlayer"} :
              [r EXCEPT !.age = young][f] = r[f]
        BY <2>1 DEF Request
    <2> QED BY <2>2, <2>3, <2>4 DEF r
<1>4. Live' = Live
    BY <1>1 DEF Live
<1>5. \A u \in Live' : RequestFits(u)'
    <2>1. ASSUME NEW u \in Live
          PROVE  RequestFits(u)'
        <3>1. Of(u, calls') = Of(u, calls) /\ Of(u, arrived') = Of(u, arrived)
            BY <1>1
        <3>2. CallsFit(instances[u], Of(u, calls)) /\ HeardFits(instances[u], Of(u, arrived))
            BY DEF QueryInv, RequestFits
        <3>3. CallsFit(instances'[u], Of(u, calls)) /\ HeardFits(instances'[u], Of(u, arrived))
            BY <1>3, <3>2 DEF CallsFit, HeardFits, LookingUp, Unasked
        <3> QED BY <3>1, <3>3 DEF RequestFits
    <2> QED BY <1>4, <2>1
<1>6. TypeOfRequests' /\ NothingElse'
    BY <1>1, <1>3, <1>4 DEF QueryInv, TypeOK, TypeOfRequests, NothingElse
<1> QED BY <1>1, <1>5, <1>6, NothingSaid

\* A question that is lost, a player who leaves.
LEMMA FewerStep ==
    ASSUME QueryInv, said' = <<>>, UNCHANGED <<instances, idCount, arrived, answered>>,
           calls' \subseteq calls, gone' \subseteq Live
    PROVE  QueryInv'
<1>1. Live' = Live
    BY DEF Live
<1>2. ASSUME NEW u \in Live
      PROVE  RequestFits(u)'
    <2>1. Of(u, calls') \subseteq Of(u, calls) /\ Of(u, arrived') = Of(u, arrived)
        BY DEF Of
    <2>2. CallsFit(instances[u], Of(u, calls)) /\ HeardFits(instances[u], Of(u, arrived))
        BY DEF QueryInv, RequestFits
    <2>3. CallsFit(instances[u], Of(u, calls'))
        BY <2>1, <2>2 DEF CallsFit
    <2> QED BY <2>1, <2>2, <2>3 DEF RequestFits
<1>3. TypeOfRequests' /\ NothingElse'
    BY <1>1 DEF QueryInv, TypeOK, TypeOfRequests, NothingElse
<1> QED BY <1>1, <1>2, <1>3, NothingSaid

LEMMA QueryStep ==
    ASSUME QueryInv, Next
    PROVE  QueryInv' /\ SaidRight
<1> DEFINE quiet == said' = <<>>
<1>1. quiet => SaidRight
    BY DEF SaidRight
<1>2. PICK new \in Nat : new = idCount + 1
    BY DEF QueryInv, TypeOK
<1>3. ASSUME NEW ask \in Asks, Create(ask)
      PROVE  QueryInv' /\ quiet
    <2>1. ask \in Ask
        BY RequestAssumption
    <2> DEFINE n == NewRequest(ask)
    <2>2. /\ Enter(n) /\ calls' = calls \cup LookUp(idCount', n)
          /\ ask.kind = "top" => ~ask.elsewhere
        BY <1>3 DEF Create
    <2>3. /\ n \in Request /\ HeardFits(n, {})
          /\ CallsFit(n, (IF n.requestingFirstCourse THEN {"course"} ELSE {})
                             \cup (IF n.requestingLocalPlayer THEN {"player"} ELSE {}))
        BY <2>1, <2>2, NewFits
    <2> HIDE DEF n
    <2> QED BY <1>2, <2>2, <2>3, EnterStep DEF Enter
<1>4. ASSUME NEW ask \in Asks, CreateInvalid(ask)
      PROVE  QueryInv' /\ quiet
    <2>1. ask \in Ask
        BY RequestAssumption
    <2> DEFINE n == [NewRequest(ask) EXCEPT !.isValid = FALSE, !.requestingLocalPlayer = FALSE]
    <2>2. Enter(n) /\ calls' = calls \cup LookUp(idCount', n)
        BY <1>4 DEF CreateInvalid
    <2>3. /\ n \in Request /\ HeardFits(n, {})
          /\ CallsFit(n, (IF n.requestingFirstCourse THEN {"course"} ELSE {})
                             \cup (IF n.requestingLocalPlayer THEN {"player"} ELSE {}))
        BY <2>1, InvalidFits
    <2> HIDE DEF n
    <2> QED BY <1>2, <2>2, <2>3, EnterStep DEF Enter
<1>5. CASE CheckRequests
    BY <1>5, CheckStep
<1>6. ASSUME NEW call \in calls, NEW found \in BOOLEAN, NEW player \in {"none", "ranked", "banned"},
             Answer(call, found, player)
      PROVE  QueryInv' /\ quiet
    BY <1>6, AnswerStep DEF Answer
<1>7. ASSUME NEW call \in calls, Lose(call)
      PROVE  QueryInv' /\ quiet
    BY <1>7, FewerStep DEF Lose, QueryInv, TypeOK
<1>8. ASSUME Tick
      PROVE  QueryInv' /\ quiet
    BY <1>8, TickStep DEF Tick
<1>9. ASSUME NEW u \in Uids, Leave(u)
      PROVE  QueryInv' /\ quiet
    BY <1>9, FewerStep DEF Leave, QueryInv, TypeOK
<1> HIDE DEF quiet
<1> QED BY <1>1, <1>3, <1>4, <1>5, <1>6, <1>7, <1>8, <1>9 DEF Next, quiet

LEMMA QueryInit == Init => QueryInv
<1> SUFFICES ASSUME Init PROVE QueryInv
    OBVIOUS
<1>1. Live = {} /\ DOMAIN said = {}
    BY DEF Init, Live
<1> QED BY <1>1, RequestAssumption DEF Init, QueryInv, TypeOK, NothingElse

LEMMA QueryRest ==
    ASSUME QueryInv, UNCHANGED vars
    PROVE  QueryInv'
<1>1. Live' = Live
    BY DEF vars, Live
<1>2. TypeOK' /\ NothingElse'
    BY <1>1 DEF vars, QueryInv, TypeOK, NothingElse
<1>3. \A u \in Live : RequestFits(u)'
    <2>1. \A u : Of(u, calls') = Of(u, calls) /\ Of(u, arrived') = Of(u, arrived)
        BY DEF vars
    <2>2. instances' = instances
        BY DEF vars
    <2> QED BY <2>1, <2>2 DEF QueryInv, RequestFits
<1> QED BY <1>1, <1>2, <1>3 DEF QueryInv

LEMMA QueryInvHolds == Spec => []QueryInv
<1>1. QueryInv /\ [Next]_vars => QueryInv'
    BY QueryStep, QueryRest
<1> QED BY <1>1, QueryInit, PTL DEF Spec

(***************************************************************************)
(* The theorems.                                                           *)
(***************************************************************************)
\* Every variable has its type.
THEOREM QueriesTyped == Spec => []TypeOK
<1>1. QueryInv => TypeOK
    BY DEF QueryInv
<1> QED BY <1>1, QueryInvHolds, PTL

\* While the course or the player of a valid request is looked up, nothing is
\* asked about a record and neither side counts as answered, in whichever order
\* the two lookups come back.  After a failed lookup the request goes on.
THEOREM LookupsAreFirst == Spec => []LookupsComeFirst
<1>1. ASSUME QueryInv, NEW u \in Live, Of(u, calls) \cap Lookups # {}
      PROVE  /\ Of(u, calls) \cap Queries = {}
             /\ {instances[u].localStatus, instances[u].globalStatus} \subseteq {"enabled", "disabled"}
    <2>1. CallsFit(instances[u], Of(u, calls))
        BY <1>1 DEF QueryInv, RequestFits
    <2> QED BY <1>1, <2>1 DEF CallsFit, LookingUp, Unasked, Lookups, Queries
<1>2. QueryInv => LookupsComeFirst
    BY <1>1 DEF LookupsComeFirst
<1> QED BY <1>2, QueryInvHolds, PTL

\* A player is answered once; unless the timeout forced it, nothing he asked is
\* under way any more, and he is told all that had come.
THEOREM AnsweredOnce == Spec => AnsweredOnceWithAll
<1>1. ASSUME QueryInv, [Next]_vars
      PROVE  [SaidRight]_vars
    BY <1>1, QueryStep
<1>2. [][SaidRight]_vars => AnsweredOnceWithAll
    BY DEF SaidRight, AnsweredOnceWithAll
<1> QED BY <1>1, <1>2, QueryInvHolds, PTL DEF Spec
=============================================================================
