------------------------------ MODULE MCPlayer ------------------------------
(***************************************************************************)
(* Instances for TLC of the modules about one player: the rules he moves   *)
(* by, the tick rate of his mode, the hooks around his move, his saved     *)
(* locations, the IDs of modes and styles.  The five are models of their   *)
(* own that share no variable.  They are checked in one run: the initial   *)
(* state chooses one of them, and only that one takes steps.               *)
(***************************************************************************)
EXTENDS ModesStyles, TickRates, Movement, SavedLocations, PluginIDs

CONSTANTS Main, Bonus, T64, T85, Ramp, Stage

VARIABLE model      \* which of the five takes steps

MCLoadouts == {<<>>, <<"3500vel", "10000vel", "LG", "HG">>, <<"HSW", "OnlyW", "LG">>}
MCPreferred == {<<>>, <<"10000vel", "HG">>, <<"HSW", "OnlyW">>}
MCDefaultStyles == <<"LG">>
MCMaxVelOf == [c \in Course |-> IF c = Main THEN 3500 ELSE 5000]
MCCommands ==
    {NoCommand,
     [keys |-> {"left"}, forwardmove |-> 1, leftmove |-> 0],
     [keys |-> {"back"}, forwardmove |-> 0, leftmove |-> 0],
     [keys |-> {}, forwardmove |-> -1, leftmove |-> 1]}

MCBuiltIn == [kind |-> "mode", short |-> "64t", long |-> "64tick"]
MC85 == [kind |-> "mode", short |-> "85t", long |-> "85tick"]
MCLowGrav == [kind |-> "style", short |-> "LG", long |-> "Low Gravity"]
MCHighGrav == [kind |-> "style", short |-> "HG", long |-> "High Gravity"]
MCPluginFiles == <<MC85, MCLowGrav>>

\* New tables; one that knows the plugins from before, in another order; one
\* in which another mode has the short name of a plugin; one in which that is
\* its name.
RowOf(p) == [short |-> p.short, long |-> p.long]
MCTablesBefore ==
    {[mode |-> <<>>, style |-> <<>>],
     [mode |-> <<RowOf(MC85), RowOf(MCBuiltIn)>>, style |-> <<RowOf(MCHighGrav)>>],
     [mode |-> <<[short |-> "85t", long |-> "85"]>>, style |-> <<>>],
     [mode |-> <<[short |-> "85", long |-> "85t"]>>, style |-> <<>>]}

playerVars == <<model, ruleVars, tickVars, moveVars, locationVars, idVars>>

\* The models that take no steps stay in one initial state.
InitPlayer ==
    /\ model \in {"rules", "ticks", "moves", "locations", "ids"}
    /\ InitRules /\ InitTicks /\ InitMoves /\ InitLocations /\ InitIDs
    /\ model # "rules" => styleInfos = <<>>
    /\ model # "ticks" => tick = 0
    /\ model # "moves" => onGround
    /\ model # "locations" => pawn.origin = Ramp
    /\ model # "ids" => migrations = 0

NextPlayer ==
    \/ model = "rules" /\ NextRules /\ UNCHANGED <<model, tickVars, moveVars, locationVars, idVars>>
    \/ model = "ticks" /\ NextTicks /\ UNCHANGED <<model, ruleVars, moveVars, locationVars, idVars>>
    \/ model = "moves" /\ NextMoves /\ UNCHANGED <<model, ruleVars, tickVars, locationVars, idVars>>
    \/ model = "locations" /\ NextLocations /\ UNCHANGED <<model, ruleVars, tickVars, moveVars, idVars>>
    \/ model = "ids" /\ NextIDs /\ UNCHANGED <<model, ruleVars, tickVars, moveVars, locationVars>>

SpecPlayer == InitPlayer /\ [][NextPlayer]_playerVars

\* Each model's type invariant.
TypeOKPlayer == TypeOKRules /\ TypeOKTicks /\ TypeOKMoves /\ TypeOKLocations /\ TypeOKIDs
=============================================================================
