------------------------------ MODULE Movement ------------------------------
(***************************************************************************)
(* The hooks around a player's move (utils/hooks, movement/mv_player,      *)
(* surf/surf_player): which of the engine's steps the services hear of,    *)
(* and which of two origins a teleport has to change.  While the engine    *)
(* processes a move it works on a copy of the pawn's data, the move data,  *)
(* which it puts back when the move is finished.                           *)
(*                                                                         *)
(* The engine is external.  It is taken to change FL_ONGROUND in           *)
(* CategorizePosition and by a jump, or between moves; and to jump only    *)
(* from the ground.  Positions are one of three places.  What the services *)
(* do about what they hear is modelled with them; the ramp fixes, which    *)
(* are geometry, are a step of the engine here.                            *)
(*                                                                         *)
(* A definition marked "Defect" is not part of the model: it is the next   *)
(* definition with a bug in it, which the properties must tell apart.      *)
(***************************************************************************)
EXTENDS Naturals

Places    == {"ramp", "stage", "start"}
Nowhere   == "nowhere"
MoveTypes == {"walk", "ladder", "noclip", "none"}

VARIABLES
    phase,          \* idle, simulated, set up, processed, or left to be finished
    onGround,       \* the pawn's FL_ONGROUND
    moveType, lastKnownMoveType,
    pawnOrigin,
    moveData,       \* m_vecAbsOrigin of currentMoveData, and of moveDataPost
    flags,          \* the booleans of MovementPlayer
    heard,          \* what the services were last told: on the ground or not
    heardType,      \* the move type when they were last told that it changed
    unheardLadder,  \* history: he took the ladder he is on from the ground, and
                    \* they were told of no move type since
    pushedOff,      \* history: a push took the ground away since they heard of it
    toldTwice,      \* history: they were told what they knew
    sent            \* history: where the last teleport sent him, unless he moved since

engine   == <<onGround, moveType>>
places   == <<pawnOrigin, moveData, sent>>
hearing  == <<heard, pushedOff, toldTwice>>
typesHeard == <<heardType, unheardLadder>>
heardVars == <<hearing, typesHeard>>
moveVars == <<phase, engine, lastKnownMoveType, places, flags, heardVars>>

Flags == [walkMoved : BOOLEAN, oldWalkMoved : BOOLEAN, takeoffFromLadder : BOOLEAN,
          inPerf : BOOLEAN, inRealPerf : BOOLEAN, jumped : BOOLEAN,
          previousOnGround : BOOLEAN, ignoreNextCategorizePosition : BOOLEAN,
          processingDuck : BOOLEAN, duckBugged : BOOLEAN,
          collidingWithWorld : BOOLEAN, processingMovement : BOOLEAN]

NoFlags == [walkMoved |-> FALSE, oldWalkMoved |-> FALSE, takeoffFromLadder |-> FALSE,
            inPerf |-> FALSE, inRealPerf |-> FALSE, jumped |-> FALSE,
            previousOnGround |-> FALSE, ignoreNextCategorizePosition |-> FALSE,
            processingDuck |-> FALSE, duckBugged |-> FALSE,
            collidingWithWorld |-> FALSE, processingMovement |-> FALSE]

InitMoves ==
    /\ phase = "idle"
    /\ onGround \in BOOLEAN /\ moveType = "walk" /\ lastKnownMoveType = "walk"
    /\ pawnOrigin = "start" /\ moveData = "start" /\ sent = Nowhere
    /\ flags = NoFlags
    /\ heard = FALSE /\ pushedOff = FALSE /\ toldTwice = FALSE
    /\ heardType = "walk" /\ unheardLadder = FALSE

(***************************************************************************)
(* What the services are told.                                             *)
(***************************************************************************)
\* OnStartTouchGround, OnStopTouchGround of the timer, the mode, the styles.
Hear(ground) ==
    /\ heard' = ground
    /\ pushedOff' = FALSE
    /\ toldTwice' = (toldTwice \/ (heard = ground /\ ~pushedOff))

RegisterTakeoff(fl, jumped, fromLadder) ==
    [fl EXCEPT !.takeoffFromLadder = fromLadder, !.inRealPerf = fl.inPerf, !.jumped = jumped]

RegisterLanding(fl) ==
    [fl EXCEPT !.duckBugged = fl.processingDuck, !.inPerf = FALSE, !.inRealPerf = FALSE]

\* OnChangeMoveType.
HearType(type) == heardType' = type /\ unheardLadder' = FALSE

\* What the hooks make of a change of the ground flag.
GroundChanged(fl, ground) ==
    /\ flags' = IF ground THEN RegisterLanding(fl) ELSE RegisterTakeoff(fl, FALSE, FALSE)
    /\ Hear(ground)

(***************************************************************************)
(* A tick of the player: commands are simulated, and each is a move.       *)
(***************************************************************************)
\* The change of move type is reported, if it was not yet.
PhysicsSimulate ==
    /\ phase = "idle" /\ phase' = "simulated"
    /\ IF moveType # lastKnownMoveType THEN HearType(moveType) ELSE UNCHANGED typesHeard
    /\ UNCHANGED <<engine, lastKnownMoveType, places, flags, hearing>>

\* SetupMove: the move data are filled from the pawn.
SetupMove ==
    /\ phase = "simulated" /\ phase' = "set up"
    /\ moveData' = pawnOrigin
    /\ UNCHANGED <<engine, lastKnownMoveType, pawnOrigin, sent, flags, heardVars>>

\* Ground gained or lost between two moves is noticed before the next one.
OnProcessMovement ==
    /\ phase = "set up" /\ phase' = "processed"
    /\ LET fl == [flags EXCEPT !.duckBugged = FALSE, !.processingMovement = TRUE,
                               !.walkMoved = FALSE, !.takeoffFromLadder = FALSE,
                               !.collidingWithWorld = FALSE]
       IN  IF flags.previousOnGround # onGround THEN GroundChanged(fl, onGround)
           ELSE flags' = fl /\ UNCHANGED hearing
    /\ UNCHANGED <<engine, lastKnownMoveType, places, typesHeard>>

WalkMove ==
    /\ phase = "processed" /\ moveType = "walk" /\ onGround
    /\ flags' = [flags EXCEPT !.walkMoved = TRUE]
    /\ UNCHANGED <<phase, engine, lastKnownMoveType, places, heardVars>>

\* The engine moves him; a collision changes his velocity.
TryPlayerMove ==
    /\ phase = "processed"
    /\ moveData' \in Places
    /\ sent' = Nowhere
    /\ \/ flags' = [flags EXCEPT !.collidingWithWorld = TRUE]
       \/ flags' = flags
    /\ UNCHANGED <<phase, engine, lastKnownMoveType, pawnOrigin, heardVars>>

WaterMove ==
    /\ phase = "processed" /\ moveType = "walk"
    /\ flags' = [flags EXCEPT !.ignoreNextCategorizePosition = TRUE]
    /\ UNCHANGED <<phase, engine, lastKnownMoveType, places, heardVars>>

\* Ducking may put him onto the ground, or off it: CategorizePosition comes
\* between the two hooks then.
Duck ==
    /\ phase = "processed"
    /\ flags' = [flags EXCEPT !.processingDuck = ~@]
    /\ UNCHANGED <<phase, engine, lastKnownMoveType, places, heardVars>>

\* Skipped once after a move in water.
CategorizePosition(ground) ==
    /\ phase = "processed"
    /\ IF flags.ignoreNextCategorizePosition
       THEN /\ flags' = [flags EXCEPT !.ignoreNextCategorizePosition = FALSE]
            /\ UNCHANGED <<onGround, hearing>>
       ELSE /\ onGround' = ground
            /\ IF onGround # ground THEN GroundChanged(flags, ground)
               ELSE UNCHANGED <<flags, hearing>>
    /\ UNCHANGED <<phase, moveType, lastKnownMoveType, places, typesHeard>>

\* Defect: only the takeoff is registered.
OnJumpLegacyUnheard ==
    /\ phase = "processed" /\ onGround /\ moveType = "walk" /\ ~flags.processingDuck
    /\ onGround' = FALSE
    /\ flags' = RegisterTakeoff(
           [flags EXCEPT !.inPerf = ~flags.takeoffFromLadder /\ ~flags.oldWalkMoved], TRUE, FALSE)
    /\ UNCHANGED <<phase, moveType, lastKnownMoveType, places, heardVars>>

\* The engine's jump went through: it changed the velocity wished for.
OnJumpLegacy ==
    /\ phase = "processed" /\ onGround /\ moveType = "walk" /\ ~flags.processingDuck
    /\ onGround' = FALSE
    /\ flags' = RegisterTakeoff(
           [flags EXCEPT !.inPerf = ~flags.takeoffFromLadder /\ ~flags.oldWalkMoved], TRUE, FALSE)
    /\ Hear(FALSE)
    /\ UNCHANGED <<phase, moveType, lastKnownMoveType, places, typesHeard>>

\* Defect: a ladder is never reported.
GrabLadderUnheard ==
    /\ flags' = IF onGround THEN flags ELSE RegisterLanding(flags)
    /\ unheardLadder' = onGround
    /\ UNCHANGED heardType

\* A ladder taken from the ground is reported to nobody.
GrabLadder ==
    IF onGround
    THEN unheardLadder' = TRUE /\ UNCHANGED <<flags, heardType>>
    ELSE flags' = RegisterLanding(flags) /\ HearType("ladder")

\* On a ladder, off it, or by a jump from it.
LadderMove ==
    /\ phase = "processed"
    /\ \/ /\ moveType = "ladder" /\ moveType' = "walk"
          /\ \E jumped \in BOOLEAN : flags' = RegisterTakeoff(flags, jumped, TRUE)
          /\ HearType("walk")
       \/ /\ moveType = "walk" /\ moveType' = "ladder"
          /\ GrabLadder
    /\ UNCHANGED <<phase, onGround, lastKnownMoveType, places, hearing>>

(***************************************************************************)
(* After the engine's move.                                                *)
(***************************************************************************)
\* MovementPlayer::OnProcessMovementPost.
EndProcessing(fl, ground) ==
    LET settled == IF ground \/ moveType # "walk"
                   THEN [fl EXCEPT !.inRealPerf = FALSE, !.inPerf = FALSE] ELSE fl
    IN  [settled EXCEPT !.processingMovement = FALSE, !.oldWalkMoved = fl.walkMoved,
                        !.previousOnGround = ground]

\* The push triggers' ApplyPushes comes first: an upward push takes the
\* ground away, of which nobody is told.
OnProcessMovementPost(pushed) ==
    /\ phase = "processed" /\ ~flags.processingDuck
    /\ phase' = "left"
    /\ pushed => onGround
    /\ onGround' = (onGround /\ ~pushed)
    /\ pushedOff' = (pushedOff \/ pushed)
    /\ flags' = EndProcessing(flags, onGround')
    /\ UNCHANGED <<moveType, lastKnownMoveType, places, heard, typesHeard, toldTwice>>

\* The engine puts the move data back.
FinishMove ==
    /\ phase = "left" /\ phase' = "simulated"
    /\ pawnOrigin' = moveData
    /\ UNCHANGED <<engine, lastKnownMoveType, moveData, sent, flags, heardVars>>

PhysicsSimulatePost ==
    /\ phase = "simulated" /\ phase' = "idle"
    /\ lastKnownMoveType' = moveType
    /\ UNCHANGED <<engine, places, flags, heardVars>>

(***************************************************************************)
(* Teleports: by triggers within a move, by anything outside of one.       *)
(***************************************************************************)
\* Defect: the move data are left alone.
OnTeleportPawnOnly(place) == moveData' = moveData

\* The mode's: what the engine works on must follow.
OnTeleport(place) == moveData' = IF flags.processingMovement THEN place ELSE moveData

\* The engine's Teleport with its hook, for a position.
Teleport(place) ==
    /\ phase \in {"idle", "simulated", "processed"}
    /\ OnTeleport(place)
    /\ pawnOrigin' = place
    /\ sent' = place
    /\ UNCHANGED <<phase, engine, lastKnownMoveType, flags, heardVars>>

\* A trigger of the engine that sets the pawn's origin by itself: noticed
\* after the touch.
UpdatePlayerPostTouch(place) ==
    /\ phase = "processed" /\ pawnOrigin # place
    /\ pawnOrigin' = place /\ moveData' = place
    /\ sent' = place
    /\ UNCHANGED <<phase, engine, lastKnownMoveType, flags, heardVars>>

\* SetOrigin: the copy alone within a move, Teleport otherwise.
SetOrigin(place) ==
    IF flags.processingMovement
    THEN /\ moveData' = place
         /\ sent' = place
         /\ UNCHANGED <<phase, engine, lastKnownMoveType, pawnOrigin, flags, heardVars>>
    ELSE Teleport(place)

\* SetMoveType, by a service: pausing, noclip, saved locations.
SetMoveType(type) ==
    /\ phase \in {"idle", "simulated"}
    /\ type # moveType /\ moveType' = type
    /\ HearType(type)
    /\ UNCHANGED <<phase, onGround, lastKnownMoveType, places, flags, hearing>>

\* The engine's own, when he dies or spawns: not in a tick in which a service
\* changed it, for what goes back and forth is not noticed.
EngineSetsMoveType(type) ==
    /\ phase = "idle"
    /\ moveType = lastKnownMoveType /\ (heardType = moveType \/ unheardLadder)
    /\ type # moveType /\ moveType' = type
    /\ unheardLadder' = FALSE
    /\ UNCHANGED <<phase, onGround, lastKnownMoveType, places, flags, hearing, heardType>>

\* The ground goes or comes between two moves: what he stood on went away, or
\* he spawned.
GroundBetweenMoves ==
    /\ phase \in {"idle", "simulated"}
    /\ onGround' = ~onGround
    /\ UNCHANGED <<phase, moveType, lastKnownMoveType, places, flags, heardVars>>

\* Reset: another player takes the slot.
ResetMovement ==
    /\ phase = "idle"
    /\ flags' = NoFlags
    /\ heard' = FALSE /\ pushedOff' = FALSE
    /\ sent' = Nowhere
    /\ UNCHANGED <<phase, engine, lastKnownMoveType, pawnOrigin, moveData, typesHeard, toldTwice>>

NextMoves ==
    \/ PhysicsSimulate \/ SetupMove \/ OnProcessMovement
    \/ WalkMove \/ TryPlayerMove \/ WaterMove \/ Duck \/ OnJumpLegacy \/ LadderMove
    \/ \E ground \in BOOLEAN : CategorizePosition(ground)
    \/ \E pushed \in BOOLEAN : OnProcessMovementPost(pushed)
    \/ FinishMove \/ PhysicsSimulatePost
    \/ \E place \in Places : Teleport(place) \/ UpdatePlayerPostTouch(place)
    \/ \E place \in Places : phase \in {"idle", "processed"} /\ SetOrigin(place)
    \/ \E type \in MoveTypes : SetMoveType(type) \/ EngineSetsMoveType(type)
    \/ GroundBetweenMoves
    \/ ResetMovement

SpecMoves == InitMoves /\ [][NextMoves]_moveVars

(***************************************************************************)
(* Properties.                                                             *)
(***************************************************************************)
TypeOKMoves ==
    /\ phase \in {"idle", "simulated", "set up", "processed", "left"}
    /\ onGround \in BOOLEAN /\ {moveType, lastKnownMoveType} \subseteq MoveTypes
    /\ {pawnOrigin, moveData} \subseteq Places /\ sent \in Places \cup {Nowhere}
    /\ flags \in Flags
    /\ {heard, pushedOff, toldTwice, unheardLadder} \subseteq BOOLEAN /\ heardType \in MoveTypes

\* The timer, the mode and the triggers know during a move, and when it ends,
\* whether the player stands on the ground, and are never told twice in a row
\* (a start zone left without OnStartTouchGround starts no run; a landing told
\* twice is fixed twice).  Only an upward push that ends a move is not told,
\* until the ground is heard of again.  And they know how he moves, but for the
\* ladder he is on if he took it from the ground (one grabbed in the air they
\* know of), until they are told of his move type again.
GroundIsHeard ==
    /\ ~toldTwice
    /\ phase \in {"processed", "left"} => heard = (onGround \/ pushedOff)
    /\ phase # "idle" => heardType = moveType \/ (moveType = "ladder" /\ unheardLadder)

\* Wherever a teleport comes in, in the middle of a move or from a trigger at
\* its end, the player is there until he moves by himself: finishing the move
\* does not take him back.
TeleportSticks ==
    sent # Nowhere =>
        IF phase \in {"processed", "left"} THEN moveData = sent ELSE pawnOrigin = sent
=============================================================================
