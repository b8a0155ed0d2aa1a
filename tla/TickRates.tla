----------------------------- MODULE TickRates -----------------------------
(***************************************************************************)
(* The modes of other tick rates (surf/mode/surf_mode_*t, surf_mode_source)*)
(* on a server that runs 64 ticks a second.  A tick is doubled by asking   *)
(* the engine for a movement step at its half (m_arrForceSubtickMoveWhen): *)
(* a mode doubles k of every 64 ticks.                                     *)
(*                                                                         *)
(* The four services of the modes are the same code with another k.  A     *)
(* slot of m_arrForceSubtickMoveWhen holds a time in the middle of a tick; *)
(* it is written here as the number of that tick, counted from the current *)
(* one, and past ones are all Past.  Times within a tick are in quarters.  *)
(***************************************************************************)
EXTENDS Integers, SequencesExt

CONSTANTS
    MaxMoves        \* bound: the subtick moves of one command

ASSUME MovesAssumption == MaxMoves \in Nat

\* How many of 64 ticks each mode doubles.
Period    == 64
Surf64t   == 0
Surf85t   == 21
Surf102t  == 39
Surf128t  == 64
SurfSource == 2
Rates == {Surf64t, Surf85t, Surf102t, Surf128t, SurfSource}

Quarters == 4
Half     == 2
Past     == -1
Slots    == 4
Longest  == Half + 1    \* ages beyond half a tick are alike

Buttons == {"jump", "attack", "other"}
SubtickMove == [button : Buttons, pressed : BOOLEAN, when : 0 .. Quarters - 1]

VARIABLES
    rate,               \* the mode of the player
    tick,               \* tickcount, modulo Period
    when,               \* m_arrForceSubtickMoveWhen
    sinceRelease,       \* quarters from lastJumpReleaseTime to the last tick
    oldJumpPressed,     \* m_bOldJumpPressed
    simulation,         \* before, during or after the PhysicsSimulate of the tick
    moves               \* the subtick moves of the command, as the mode left them

tickVars == <<rate, tick, when, sinceRelease, oldJumpPressed, simulation, moves>>

InitTicks ==
    /\ rate = Surf64t /\ tick \in 0 .. Period - 1
    /\ when = [i \in 1 .. Slots |-> Past]
    /\ sinceRelease = Longest /\ oldJumpPressed = FALSE
    /\ simulation = "before" /\ moves = <<>>

doubleTickrate == (tick * rate) % Period < rate

\* The engine's: the tick goes by, and with it the times in the slots.
NextTick ==
    /\ simulation # "during" /\ simulation' = "before"
    /\ tick' = (tick + 1) % Period
    /\ when' = [i \in 1 .. Slots |-> IF when[i] > Past THEN when[i] - 1 ELSE Past]
    /\ sinceRelease' = IF sinceRelease + Quarters > Longest THEN Longest
                       ELSE sinceRelease + Quarters
    /\ UNCHANGED <<rate, oldJumpPressed, moves>>

\* A new service: it has seen no jump released yet.
SwitchRate(r) ==
    /\ simulation # "during"
    /\ rate' = r
    /\ sinceRelease' = Longest
    /\ UNCHANGED <<tick, when, oldJumpPressed, simulation, moves>>

(***************************************************************************)
(* The three hooks of a mode.                                              *)
(***************************************************************************)
\* The first slot that is this tick's or past is made this tick's.
OnPhysicsSimulate ==
    LET usable == {i \in 1 .. Slots : when[i] <= 0}
    IN  when' = IF ~doubleTickrate \/ usable = {} THEN when
                ELSE [when EXCEPT ![CHOOSE i \in usable : \A j \in usable : i <= j] = 0]

Halved(m) == IF m.button = "attack" THEN m
             ELSE [m EXCEPT !.when = IF doubleTickrate /\ m.when >= Half THEN Half ELSE 0]

\* What lastJumpReleaseTime and m_bOldJumpPressed become with one move.
JumpSeen(jump, m) ==
    CASE m.button # "jump" \/ m.when = 0 -> jump
      [] m.pressed -> [jump EXCEPT !.old = @ /\ jump.since + m.when <= Half]
      [] OTHER -> [jump EXCEPT !.since = -m.when]

OnSetupMove(cmd) ==
    LET jump == FoldLeft(JumpSeen, [since |-> sinceRelease, old |-> oldJumpPressed], cmd)
    IN  /\ moves' = [j \in DOMAIN cmd |-> Halved(cmd[j])]
        /\ sinceRelease' = jump.since
        /\ oldJumpPressed' = jump.old

\* The hook before PhysicsSimulate, and OnSetupMove of the command in it.
SimulateTick(cmd) ==
    /\ simulation = "before" /\ simulation' = "during"
    /\ OnPhysicsSimulate
    /\ OnSetupMove(cmd)
    /\ UNCHANGED <<rate, tick>>

\* Each slot in turn takes the next tick that no slot before it has, unless it
\* is set to a later one.
Taken(slot, next) == IF when[slot] > next THEN when[slot] ELSE next
After(slot, next) == IF when[slot] > next THEN next ELSE next + 1

Ahead(from) ==
    LET second == After(1, from)
        third  == After(2, second)
        fourth == After(3, third)
    IN  <<Taken(1, from), Taken(2, second), Taken(3, third), Taken(4, fourth)>>

\* Defect: the tick after the next one is the first.
OnPhysicsSimulatePostLate ==
    /\ when' = IF doubleTickrate THEN Ahead(2) ELSE when
    /\ simulation' = "after" /\ moves' = <<>>

\* The slots are set for the ticks to come, for the client to predict.
OnPhysicsSimulatePost ==
    /\ when' = IF doubleTickrate THEN Ahead(1) ELSE when
    /\ simulation' = "after" /\ moves' = <<>>

\* The engine has seen the jump button by the end of the simulation.
SimulateTickPost ==
    /\ simulation = "during"
    /\ OnPhysicsSimulatePost
    /\ oldJumpPressed' \in BOOLEAN
    /\ UNCHANGED <<rate, tick, sinceRelease>>

Moves == UNION {[1 .. n -> SubtickMove] : n \in 0 .. MaxMoves}

NextTicks ==
    \/ NextTick
    \/ \E r \in Rates : SwitchRate(r)
    \/ \E cmd \in Moves : SimulateTick(cmd)
    \/ SimulateTickPost

SpecTicks == InitTicks /\ [][NextTicks]_tickVars

TypeOKTicks ==
    /\ rate \in Rates /\ tick \in 0 .. Period - 1
    /\ when \in [1 .. Slots -> Past .. Slots]
    /\ sinceRelease \in 1 - Quarters .. Longest
    /\ oldJumpPressed \in BOOLEAN /\ simulation \in {"before", "during", "after"}
    /\ moves \in Seq(SubtickMove)

Split == \E i \in 1 .. Slots : when[i] = 0

\* Every tick the mode doubles is simulated in two halves, whatever the player's
\* other modes, and the ticks in which he was not simulated, left in the slots;
\* and his input moves to the half only in a tick that has one.
HalvesAreSimulated ==
    simulation = "during" =>
        /\ doubleTickrate => Split
        /\ \A j \in DOMAIN moves :
              moves[j].button # "attack" /\ moves[j].when # 0 => moves[j].when = Half /\ Split

\* A comment of each mode counts on the ticks it does not double being whole
\* ("21 ticks with 128t timing, 43 ticks with 64t timing", surf_mode_85t.cpp:140).
\* They are not: see the README.
OthersAreWhole == simulation = "during" /\ Split => doubleTickrate
=============================================================================
