---------------------------- MODULE TriggerTouch ----------------------------
(***************************************************************************)
(* SurfTriggerService of one player: the list of the triggers he touches,  *)
(* kept by the plugin instead of the engine, what the mapping API is told  *)
(* of it, and the pushes of push triggers.  A tick is OnPhysicsSimulate,   *)
(* up to two steps of the movement (the first between two ticks), and      *)
(* OnPhysicsSimulatePost.  Between any two of them the world may take a    *)
(* trigger away, change a filter, kill the player or let him noclip.       *)
(*                                                                         *)
(* Time is counted in halves of a tick from the start of the tick, so that *)
(* the times of pushes move towards the past when a tick ends.             *)
(*                                                                         *)
(* A definition marked "Defect" is not part of the model: it is the next   *)
(* definition with a bug in it, which the properties must tell apart.      *)
(***************************************************************************)
EXTENDS Integers, FiniteSets, SequencesExt

CONSTANTS
    Triggers,       \* the trigger entities
    Plain,          \* those the mapping API does not know
    TimerZones,     \* those the mode lets a player touch on whole ticks only
    Pushes,         \* push triggers
    Conditions,     \* of a push: "start", "touch", "end", "jump"
    CancelOnTeleport,   \* the push triggers whose pushes a teleport cancels
    Delay, Cooldown     \* of every push, in halves of a tick

ASSUME TriggerAssumption ==
    /\ IsFiniteSet(Triggers)
    /\ Plain \subseteq Triggers /\ TimerZones \subseteq Triggers \ Plain
    /\ Pushes \subseteq Triggers \ (Plain \cup TimerZones) /\ CancelOnTeleport \subseteq Pushes
    /\ Conditions \subseteq {"start", "touch", "end", "jump"} /\ Delay \in Nat /\ Cooldown \in Nat

Idle == -1
None == -1 - Cooldown   \* a time that no longer counts

VARIABLES
    touch,      \* triggerTrackers, pushEvents and what the timer was told
    there,      \* the triggers that exist
    passes,     \* those whose filter the player passes
    solid,      \* alive, not noclipping, in the standard collision group
    step,       \* how many halves of the tick have been moved, or Idle between ticks
    lastPush,   \* history: the time of each push trigger's last push
    early       \* history: the push triggers that pushed before they had rested

world == <<there, passes, solid>>
triggerVars == <<touch, there, passes, solid, step, lastPush, early>>

(***************************************************************************)
(* What a handler works on: the trackers in their order, the pushes, and   *)
(* how many starts the timer was told more than ends.                      *)
(***************************************************************************)
Tracker == [trigger : Triggers, touchedThisTick : BOOLEAN, mappingApiStartedTouch : BOOLEAN]
PushEvent == [source : Pushes, pushTime : Int, applied : BOOLEAN]

Tracked(s) == {s.trackers[i].trigger : i \in DOMAIN s.trackers}
PlaceOf(s, t) == CHOOSE i \in DOMAIN s.trackers : s.trackers[i].trigger = t
TrackerOf(s, t) == s.trackers[PlaceOf(s, t)]
Without(s, t) == [s EXCEPT !.trackers = IF t \in Tracked(s) THEN RemoveAt(@, PlaceOf(s, t)) ELSE @]
Put(s, tracker) ==
    [s EXCEPT !.trackers = [i \in DOMAIN @ |-> IF @[i].trigger = tracker.trigger THEN tracker ELSE @[i]]]

\* A push that is waiting, or resting after it was applied, is not added again.
AddPushEvent(s, t, condition, now) ==
    IF t \in Pushes /\ condition \in Conditions /\ \A event \in s.pushEvents : event.source # t
    THEN [s EXCEPT !.pushEvents = @ \cup {[source |-> t, pushTime |-> now + Delay, applied |-> FALSE]}]
    ELSE s

OnMappingApiTriggerStartTouchPost(s, t, now) == AddPushEvent([s EXCEPT !.inside[t] = @ + 1], t, "start", now)
OnMappingApiTriggerEndTouchPost(s, t, now)   == AddPushEvent([s EXCEPT !.inside[t] = @ - 1], t, "end", now)

\* The mode: timer zones are touched on whole ticks only.
OnTriggerTouchPre(t, now) == t \in TimerZones => now % 2 = 0

\* A filter lost inside is an end, one won inside a start.
OnTriggerTouchPost(s, t, now) ==
    LET tracker == TrackerOf(s, t) IN
    IF t \in Plain THEN s
    ELSE IF t \notin passes
    THEN IF ~tracker.mappingApiStartedTouch THEN s
         ELSE OnMappingApiTriggerEndTouchPost(
                  Put(s, [tracker EXCEPT !.mappingApiStartedTouch = FALSE]), t, now)
    ELSE AddPushEvent(
             IF tracker.mappingApiStartedTouch THEN s
             ELSE OnMappingApiTriggerStartTouchPost(
                      Put(s, [tracker EXCEPT !.mappingApiStartedTouch = TRUE]), t, now),
             t, "touch", now)

\* Triggers of the mapping API are touched on every change of the origin,
\* others once a tick.
Touch(s, t, silent, now) ==
    IF t \notin Tracked(s) \/ (t \in Plain /\ TrackerOf(s, t).touchedThisTick) \/ ~OnTriggerTouchPre(t, now)
    THEN s
    ELSE OnTriggerTouchPost(
             Put(s, [TrackerOf(s, t) EXCEPT !.touchedThisTick = @ \/ ~silent]), t, now)

StartTouch(s, t, now) ==
    IF t \in Tracked(s) \/ ~OnTriggerTouchPre(t, now) THEN s
    ELSE LET starts == t \notin Plain /\ t \in passes
             new == [s EXCEPT !.trackers = Append(@, [trigger |-> t, touchedThisTick |-> FALSE,
                                                      mappingApiStartedTouch |-> starts])]
         IN  Touch(IF starts THEN OnMappingApiTriggerStartTouchPost(new, t, now) ELSE new, t, TRUE, now)

\* Defect: an end is fired whether or not the start was.
OnTriggerEndTouchPostAlways(s, t, now) ==
    IF t \in Plain THEN s ELSE OnMappingApiTriggerEndTouchPost(s, t, now)

OnTriggerEndTouchPost(s, t, now) ==
    IF t \in Plain \/ ~TrackerOf(s, t).mappingApiStartedTouch THEN s
    ELSE OnMappingApiTriggerEndTouchPost(s, t, now)

EndTouch(s, t, now) ==
    IF t \notin Tracked(s) \/ ~OnTriggerTouchPre(t, now) THEN s
    ELSE LET touched == IF t \in Plain THEN Touch(s, t, FALSE, now) ELSE s
         IN  Without(OnTriggerEndTouchPost(touched, t, now), t)

\* A trigger that is gone is ended without a look at whether it was started.
Disappeared(s, t, now) ==
    Without(IF t \in Plain THEN s ELSE OnMappingApiTriggerEndTouchPost(s, t, now), t)

(***************************************************************************)
(* The walks over the trackers.                                            *)
(***************************************************************************)
TriggersOf(s) == [i \in DOMAIN s.trackers |-> s.trackers[i].trigger]

\* Defect: the walk starts at the second tracker.
EndTouchTail(s, now) ==
    LET t == TriggersOf(s)
        walk[i \in 0 .. Len(t)] == IF i <= 1 THEN s ELSE EndTouch(walk[i - 1], t[i], now)
    IN  walk[Len(t)]

\* The walk goes forward while EndTouch takes its tracker out, so that the one
\* after it is passed over; a tracker whose trigger is gone is taken out with
\* the index set back.
EndTouchNext(walk, t, now) ==
    IF walk.skip THEN [walk EXCEPT !.skip = FALSE]
    ELSE IF t \notin there THEN [walk EXCEPT !.s = Disappeared(@, t, now)]
    ELSE LET ended == EndTouch(walk.s, t, now) IN [s |-> ended, skip |-> t \notin Tracked(ended)]

EndTouchAll(s, now) ==
    LET t == TriggersOf(s)
        walk[i \in 0 .. Len(t)] ==
            IF i = 0 THEN [s |-> s, skip |-> FALSE] ELSE EndTouchNext(walk[i - 1], t[i], now)
    IN  walk[Len(t)].s

TouchNext(s, t, now) ==
    IF t \in there THEN Touch(s, t, FALSE, now) ELSE Disappeared(s, t, now)

TouchAll(s, now) ==
    LET t == TriggersOf(s)
        walk[i \in 0 .. Len(t)] == IF i = 0 THEN s ELSE TouchNext(walk[i - 1], t[i], now)
    IN  walk[Len(t)]

\* Backwards: who is no longer hit is left.
LeaveNext(s, t, hit, now) ==
    IF t \notin there THEN Disappeared(s, t, now) ELSE IF t \notin hit THEN EndTouch(s, t, now) ELSE s

LeaveOthers(s, hit, now) ==
    LET t == Reverse(TriggersOf(s))
        walk[i \in 0 .. Len(t)] == IF i = 0 THEN s ELSE LeaveNext(walk[i - 1], t[i], hit, now)
    IN  walk[Len(t)]

\* What a trace hits, in the order of the trace: any one will do, as triggers
\* can be entered one by one.
Order == SetToSeq(Triggers)

HitNext(s, t, hit, now) ==
    IF t \notin hit THEN s
    ELSE IF t \notin Tracked(s) THEN StartTouch(s, t, now)
    ELSE IF t \notin Plain THEN Touch(s, t, FALSE, now) ELSE s

TouchHit(s, hit, now) ==
    LET walk[i \in 0 .. Len(Order)] == IF i = 0 THEN s ELSE HitNext(walk[i - 1], Order[i], hit, now)
    IN  walk[Len(Order)]

UpdateTriggerTouchList(s, hit, now) ==
    IF ~solid THEN EndTouchAll(s, now) ELSE TouchHit(LeaveOthers(s, hit, now), hit, now)

PassNext(s, t, path, now) == IF t \in path THEN StartTouch(s, t, now) ELSE s

TouchTriggersAlongPath(s, path, now) ==
    LET walk[i \in 0 .. Len(Order)] == IF i = 0 THEN s ELSE PassNext(walk[i - 1], Order[i], path, now)
    IN  IF ~solid THEN s ELSE walk[Len(Order)]

(***************************************************************************)
(* The pushes.  Nothing is done in a step without length.                  *)
(***************************************************************************)
\* Defect: a push at the very end of a step is left to the next one.
DueBefore(event, now, frametime) == now - frametime < event.pushTime /\ event.pushTime < now

Due(event, now, frametime) == now - frametime < event.pushTime /\ event.pushTime <= now

ApplyPushes(s, now, frametime) ==
    [s EXCEPT !.pushEvents = {[event EXCEPT !.applied = @ \/ Due(event, now, frametime)] : event \in @}]

Rested(event, now, frametime) == event.applied /\ now - frametime >= event.pushTime + Cooldown

CleanupPushEvents(s, now, frametime) ==
    [s EXCEPT !.pushEvents = {event \in @ : ~Rested(event, now, frametime)}]

\* The two calls, and what they push.
Pushing(s, now, frametime) ==
    IF frametime = 0 THEN s ELSE CleanupPushEvents(ApplyPushes(s, now, frametime), now, frametime)

Pushed(s, now, frametime) ==
    {event \in s.pushEvents : frametime # 0 /\ ~event.applied /\ Due(event, now, frametime)}

Sources(pushed) == {event.source : event \in pushed}
LastPush(pushed, t) ==
    IF t \in Sources(pushed) THEN (CHOOSE event \in pushed : event.source = t).pushTime ELSE lastPush[t]
TooSoon(pushed) ==
    Sources({event \in pushed : lastPush[event.source] # None
                                    /\ event.pushTime < lastPush[event.source] + Cooldown})

(***************************************************************************)
(* The tick.                                                               *)
(***************************************************************************)
NoTouch == [trackers |-> <<>>, pushEvents |-> {}, inside |-> [t \in Triggers |-> 0]]

InitTriggers ==
    /\ touch = NoTouch /\ there = Triggers /\ passes = Triggers /\ solid = TRUE /\ step = Idle
    /\ lastPush = [t \in Pushes |-> None] /\ early = {}

\* The triggers that are gone are ended.
EndVanishedNext(s, t, now) == IF t \in there THEN s ELSE Disappeared(s, t, now)

EndVanished(s, now) ==
    LET t == TriggersOf(s)
        walk[i \in 0 .. Len(t)] == IF i = 0 THEN s ELSE EndVanishedNext(walk[i - 1], t[i], now)
    IN  walk[Len(t)]

OnPhysicsSimulateTriggers ==
    /\ step = Idle /\ step' = 0
    /\ touch' = [EndVanished(touch, 2) EXCEPT !.trackers =
                    [i \in DOMAIN @ |-> [@[i] EXCEPT !.touchedThisTick = FALSE]]]
    /\ UNCHANGED <<world, lastPush, early>>

\* OnStopTouchGround looks at neither the filter nor whether the touch was started.
JumpNext(s, t, now) == IF t \in there THEN AddPushEvent(s, t, "jump", now) ELSE s

OnStopTouchGround(s, jumped, now) ==
    LET t == TriggersOf(s)
        walk[i \in 0 .. Len(t)] == IF i = 0 THEN s ELSE JumpNext(walk[i - 1], t[i], now)
    IN  IF jumped THEN walk[Len(t)] ELSE s

\* A step of the movement, up to a half of the tick: the ground left, the
\* triggers along its path, those at its end, OnProcessMovementPost.
ProcessMovement(now, path, hit, jumped) ==
    LET walked  == UpdateTriggerTouchList(
                       TouchTriggersAlongPath(OnStopTouchGround(touch, jumped, now), path, now), hit, now)
        pushed  == Pushed(walked, now, now - step)
    IN  /\ step # Idle /\ now \in {1, 2} /\ now >= step /\ step' = now
        /\ touch' = Pushing(walked, now, now - step)
        /\ lastPush' = [t \in Pushes |-> LastPush(pushed, t)]
        /\ early' = early \cup TooSoon(pushed)
        /\ UNCHANGED world

\* The end of the tick, with the time of the next one as the new zero.
Shifted(s) == [s EXCEPT !.pushEvents = {[event EXCEPT !.pushTime = @ - 2] : event \in @}]
Counts(time) == time # None /\ time + Cooldown > 2

OnPhysicsSimulatePostTriggers(hit) ==
    LET walked == TouchAll(UpdateTriggerTouchList(touch, hit, 2), 2)
        pushed == Pushed(walked, 2, 2)
    IN  /\ step # Idle /\ step' = Idle
        /\ touch' = Shifted(Pushing(walked, 2, 2))
        /\ lastPush' = [t \in Pushes |-> IF Counts(LastPush(pushed, t)) THEN LastPush(pushed, t) - 2 ELSE None]
        /\ early' = early \cup TooSoon(pushed)
        /\ UNCHANGED world

(***************************************************************************)
(* The rest of the world.                                                  *)
(***************************************************************************)
OnTeleportTriggers ==
    /\ touch' = [touch EXCEPT !.pushEvents = {event \in @ : event.source \notin CancelOnTeleport}]
    /\ lastPush' = [t \in Pushes |-> IF t \in CancelOnTeleport THEN None ELSE lastPush[t]]
    /\ UNCHANGED <<world, step, early>>

Reset ==
    /\ touch' = NoTouch /\ lastPush' = [t \in Pushes |-> None]
    /\ UNCHANGED <<world, step, early>>

Disappear(t) ==
    /\ t \in there /\ there' = there \ {t}
    /\ UNCHANGED <<touch, passes, solid, step, lastPush, early>>

\* A new round makes its triggers anew, with handles of their own.
Appear(t) ==
    /\ t \in Triggers \ (there \cup Tracked(touch)) /\ there' = there \cup {t}
    /\ touch' = [touch EXCEPT !.inside[t] = 0]
    /\ UNCHANGED <<passes, solid, step, lastPush, early>>

ChangeFilter(t) ==
    /\ t \in Triggers \ Plain
    /\ passes' = (passes \ {t}) \cup ({t} \ passes)
    /\ UNCHANGED <<touch, there, solid, step, lastPush, early>>

ChangeSolid ==
    /\ solid' = ~solid
    /\ UNCHANGED <<touch, there, passes, step, lastPush, early>>

\* No trace is made for a player who is not solid.
Reached == IF solid THEN there ELSE {}

NextTriggers ==
    \/ OnPhysicsSimulateTriggers
    \/ \E now \in {1, 2}, jumped \in BOOLEAN, hit \in SUBSET Reached :
           \E path \in SUBSET (Reached \ hit) : ProcessMovement(now, path, hit, jumped)
    \/ \E hit \in SUBSET Reached : OnPhysicsSimulatePostTriggers(hit)
    \/ OnTeleportTriggers
    \/ Reset
    \/ \E t \in Triggers : Disappear(t) \/ Appear(t) \/ ChangeFilter(t)
    \/ ChangeSolid

SpecTriggers == InitTriggers /\ [][NextTriggers]_triggerVars

(***************************************************************************)
(* Properties.                                                             *)
(***************************************************************************)
\* Every variable has its type.
TypeOKTriggers ==
    /\ touch.trackers \in Seq(Tracker) /\ touch.pushEvents \subseteq PushEvent
    /\ touch.inside \in [Triggers -> Int]
    /\ there \subseteq Triggers /\ passes \subseteq Triggers /\ solid \in BOOLEAN /\ step \in Idle .. 2
    /\ lastPush \in [Pushes -> Int] /\ early \subseteq Pushes

\* The timer is told of starts and ends in turn, whatever the filters do in
\* between: it was told one start more exactly while the tracker says so
\* (callbacks.cpp:88).  Triggers that have vanished are left out: their end is
\* fired also when their filter kept the start away.
StartsAndEndsMatch ==
    \A t \in there : touch.inside[t] =
        IF t \in Tracked(touch) /\ TrackerOf(touch, t).mappingApiStartedTouch THEN 1 ELSE 0

\* The same for every trigger.
EndsHadStarts == \A t \in Triggers : touch.inside[t] >= 0

\* No push waits for a time that has passed: each is applied in the step, or at
\* the latest at the end of the tick, in which it is due (surf_trigger.cpp:52).
\* A missed one would stay and keep its trigger from pushing for good.
NoPushIsMissed ==
    step = Idle => \A event \in touch.pushEvents : ~event.applied => event.pushTime > 0

\* A trigger does not push again before the cooldown of its last push is over,
\* unless a teleport cancelled it (callbacks.cpp:122).
PushesRest == early = {}

\* Both: every push is applied when it is due, and then its trigger rests.
PushesAreGiven == NoPushIsMissed /\ PushesRest

\* A walk ends every other touch only (surf_trigger.cpp:198), so a player who is
\* dead or noclips is rid of at least half of them with every tick.
OutOfReach ==
    [][step # Idle /\ step' = Idle /\ ~solid =>
           Len(touch'.trackers) <= Len(touch.trackers) \div 2]_triggerVars
=============================================================================
