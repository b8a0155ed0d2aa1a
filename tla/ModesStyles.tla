---------------------------- MODULE ModesStyles ----------------------------
(***************************************************************************)
(* The rules a player moves by: his mode (surf/mode), his styles           *)
(* (surf/style, each a plugin), and the console variables of the server,   *)
(* which are shared by all players and are therefore set anew before every *)
(* move of each of them (SurfPlayer::OnProcessMovement).                   *)
(*                                                                         *)
(* One player is modelled; what the moves of the others leave behind in    *)
(* the shared variables is arbitrary (OthersMove).  Which names a player   *)
(* has stored is the business of Preferences: here any list may be loaded. *)
(* A paused plugin stays in memory; unloading one while a player has its   *)
(* style runs code that is gone, and is left out.  What the console        *)
(* variables of the client are told is left out too.                       *)
(*                                                                         *)
(* A definition marked "Defect" is not part of the model: it is the next   *)
(* definition with a bug in it, which the properties must tell apart.      *)
(***************************************************************************)
EXTENDS Integers, SequencesExt

CONSTANTS
    Mode,           \* the modes whose plugins are loaded
    DefaultMode,    \* the option defaultMode
    DefaultStyles,  \* the option defaultStyles: a sequence of names
    Loadouts,       \* the sets of style plugins a server may have: sequences
    Preferred,      \* the lists of styles a player may have stored
    Course, NoCourse,
    MaxVelOf,       \* course -> SurfCourseDescriptor::maxVel
    Commands,       \* the inputs of a player: see Command
    MaxReloads      \* bound: how often plugins are paused or unpaused

ASSUME RulesAssumption ==
    /\ DefaultMode \in Mode
    /\ NoCourse \notin Course
    /\ MaxVelOf \in [Course -> Nat]
    /\ DefaultStyles \in Seq(STRING) /\ Preferred \subseteq Seq(STRING)
    /\ MaxReloads \in Nat

VARIABLES
    styleInfos,     \* the style registry: StylePluginInfo of every known style
    reloads,        \* how often it was changed
    mode, styles,   \* modeService, styleServices
    timerRunning, course,
    modeCvars,      \* the mode whose values the shared variables have
    maxVelocity,    \* sv_maxvelocity
    gravity,        \* the pawn's gravity scale, in percent
    processing,     \* between OnProcessMovement and its post
    command         \* the command being processed

registry == <<styleInfos, reloads>>
rules    == <<mode, styles>>
runVars  == <<timerRunning, course>>
physics  == <<modeCvars, maxVelocity, gravity>>
moving     == <<processing, command>>
ruleVars     == <<registry, rules, runVars, physics, moving>>

(***************************************************************************)
(* The style plugins: what each excludes, and what it does to a move.      *)
(***************************************************************************)
Unset == 0
StylePlugin(name, excludes) ==
    [name |-> name, excludes |-> excludes, maxVel |-> Unset, gravity |-> Unset]

Vel3500      == [StylePlugin("3500vel", {"5000vel", "10000vel"}) EXCEPT !.maxVel = 3500]
Vel5000      == [StylePlugin("5000vel", {"3500vel", "10000vel"}) EXCEPT !.maxVel = 5000]
Vel10000     == [StylePlugin("10000vel", {"5000vel", "3500vel"}) EXCEPT !.maxVel = 10000]
LowGrav      == [StylePlugin("LG", {"HG"}) EXCEPT !.gravity = 50]
HighGrav     == [StylePlugin("HG", {"LG"}) EXCEPT !.gravity = 150]
TAS          == StylePlugin("TAS", {})
Sideways     == StylePlugin("SW", {"HSW", "OnlyW"})
OnlyW        == StylePlugin("OnlyW", {"HSW", "SW"})
HalfSideways == StylePlugin("HSW", {"SW", "OnlyW"})

Plugins == {Vel3500, Vel5000, Vel10000, LowGrav, HighGrav, TAS, Sideways, OnlyW, HalfSideways}
Plugin == [name \in {p.name : p \in Plugins} |-> CHOOSE p \in Plugins : p.name = name]

\* A command: the keys of its subtick moves, and its analog axes.
Keys       == {"forward", "back", "left", "right"}
AlongKeys  == {"forward", "back"}
AcrossKeys  == {"left", "right"}
Command    == [keys : SUBSET Keys, forwardmove : -1 .. 1, leftmove : -1 .. 1]
NoCommand  == [keys |-> {}, forwardmove |-> 0, leftmove |-> 0]

DropAcross(cmd) == [cmd EXCEPT !.keys = @ \ AcrossKeys, !.leftmove = 0]
DropAlong(cmd)  == [cmd EXCEPT !.keys = @ \ AlongKeys, !.forwardmove = 0]
MovesAlong(cmd)  == cmd.keys \cap AlongKeys # {} \/ cmd.forwardmove # 0
MovesAcross(cmd) == cmd.keys \cap AcrossKeys # {} \/ cmd.leftmove # 0

SidewaysSetupMove(cmd) == DropAcross(cmd)

OnlyWSetupMove(cmd) ==
    [DropAcross(cmd) EXCEPT !.keys = @ \ {"back"}, !.forwardmove = IF @ < 0 THEN 0 ELSE @]

HalfSidewaysSetupMove(cmd) ==
    CASE MovesAcross(cmd) /\ ~MovesAlong(cmd) -> DropAcross(cmd)
      [] MovesAlong(cmd) /\ ~MovesAcross(cmd) -> DropAlong(cmd)
      [] OTHER -> cmd

SetupMoveOf(cmd, name) ==
    CASE name = "SW" -> SidewaysSetupMove(cmd)
      [] name = "OnlyW" -> OnlyWSetupMove(cmd)
      [] name = "HSW" -> HalfSidewaysSetupMove(cmd)
      [] OTHER -> cmd

\* No plugin is in the directory twice, and what a player sends is a command.
ASSUME InputAssumption ==
    /\ \A loadout \in Loadouts :
          /\ loadout \in Seq(DOMAIN Plugin)
          /\ \A i, j \in DOMAIN loadout : loadout[i] = loadout[j] => i = j
    /\ Commands \subseteq Command

(***************************************************************************)
(* The registry.                                                           *)
(***************************************************************************)
InfoOf(name) == CHOOSE i \in DOMAIN styleInfos : styleInfos[i].name = name
Has(name) == \E i \in DOMAIN styles : styles[i] = name

RegisterStyle(name, excludes) == [name |-> name, loaded |-> TRUE, excludes |-> excludes]

\* The styles of the plugin directory, each with what it excludes.
LoadStylePlugins(names) ==
    [i \in DOMAIN names |-> RegisterStyle(names[i], Plugin[names[i]].excludes)]

(***************************************************************************)
(* Changing styles.                                                        *)
(***************************************************************************)
CanAdd(list, name) ==
    /\ \E i \in DOMAIN styleInfos : /\ styleInfos[i].name = name
                                    /\ styleInfos[i].loaded
                                    /\ \A j \in DOMAIN list : list[j] \notin styleInfos[i].excludes
    /\ \A j \in DOMAIN list : list[j] # name

Added(list, name) == IF CanAdd(list, name) THEN Append(list, name) ELSE list

\* One after the other.
AddAll(list, names) ==
    LET added[i \in 0 .. Len(names)] ==
            IF i = 0 THEN list ELSE Added(added[i - 1], names[i])
    IN  added[Len(names)]

\* A style that sets the gravity puts it back when it goes.
CleanedUp(names) == IF \E n \in names : Plugin[n].gravity # Unset THEN 100 ELSE gravity

\* Defect: the timer is left running.
AddStyleOnly(name) ==
    /\ CanAdd(styles, name)
    /\ styles' = Append(styles, name)
    /\ UNCHANGED <<registry, mode, runVars, physics, moving>>

AddStyle(name) ==
    /\ CanAdd(styles, name)
    /\ styles' = Append(styles, name)
    /\ timerRunning' = FALSE
    /\ UNCHANGED <<registry, mode, course, physics, moving>>

FirstPlace(name) ==
    CHOOSE i \in DOMAIN styles : styles[i] = name /\ \A j \in 1 .. i - 1 : styles[j] # name

\* The timer goes on: the run loses the style.
RemoveStyle(name) ==
    /\ Has(name)
    /\ styles' = RemoveAt(styles, FirstPlace(name))
    /\ gravity' = CleanedUp({name})

AfterRemoving == <<mode, runVars, modeCvars, maxVelocity, moving>>

ToggleStyle(name) ==
    IF Has(name) THEN RemoveStyle(name) /\ UNCHANGED <<registry, AfterRemoving>>
                 ELSE AddStyle(name)

ClearStyles ==
    /\ styles' = <<>>
    /\ gravity' = CleanedUp(ToSet(styles))

SwitchToMode(m) ==
    /\ mode' = m
    /\ timerRunning' = FALSE

\* The styles are cleared, then added again one by one.
RefreshStyles(names) ==
    /\ styles' = AddAll(<<>>, names)
    /\ gravity' = CleanedUp(ToSet(styles))

(***************************************************************************)
(* Commands, plugins and sessions.                                         *)
(***************************************************************************)
InitRules ==
    /\ \E loadout \in Loadouts : styleInfos = LoadStylePlugins(loadout)
    /\ reloads = 0
    /\ mode = DefaultMode /\ styles = <<>>
    /\ timerRunning = FALSE /\ course = NoCourse
    /\ modeCvars = DefaultMode /\ maxVelocity = 3500 /\ gravity = 100
    /\ processing = FALSE /\ command = NoCommand

Names == {styleInfos[i].name : i \in DOMAIN styleInfos}

\* surf_mode, surf_<mode>: nothing happens when it is the player's already.
CommandMode(m) ==
    /\ ~processing /\ m # mode
    /\ SwitchToMode(m)
    /\ UNCHANGED <<registry, styles, course, physics, moving>>

\* surf_style, surf_addstyle, surf_togglestyle, surf_removestyle, surf_clearstyles.
CommandStyle ==
    /\ ~processing
    /\ \/ \E name \in Names : AddStyle(name)
       \/ \E name \in Names : RemoveStyle(name) /\ UNCHANGED <<registry, AfterRemoving>>
       \/ \E name \in Names : ToggleStyle(name)
       \/ ClearStyles /\ UNCHANGED <<registry, AfterRemoving>>

\* The name each player's style is compared with is that of the info at the
\* style's own place in the player's list, not of the plugin that goes.
Mistaken == {i \in DOMAIN styles \cap DOMAIN styleInfos : styles[i] = styleInfos[i].name}

UnregisterStyle(name) ==
    /\ ~processing /\ reloads < MaxReloads
    /\ styleInfos[InfoOf(name)].loaded
    /\ styleInfos' = [styleInfos EXCEPT ![InfoOf(name)] =
                         [@ EXCEPT !.loaded = FALSE, !.excludes = {}]]
    /\ reloads' = reloads + 1
    /\ IF Mistaken = {} THEN UNCHANGED <<styles, gravity>>
       ELSE RemoveStyle(styles[CHOOSE i \in Mistaken : \A j \in Mistaken : i <= j])
    /\ UNCHANGED AfterRemoving

\* The plugin registers again, without what it excludes.
Unpause(name) ==
    /\ ~processing /\ reloads < MaxReloads
    /\ ~styleInfos[InfoOf(name)].loaded
    /\ styleInfos' = [styleInfos EXCEPT ![InfoOf(name)] = RegisterStyle(name, {})]
    /\ reloads' = reloads + 1
    /\ UNCHANGED <<rules, runVars, physics, moving>>

\* ResetPlayer: the player leaves, and his place is made ready for another one.
ResetPlayer ==
    /\ ~processing
    /\ SwitchToMode(DefaultMode)
    /\ RefreshStyles(DefaultStyles)
    /\ course' = NoCourse
    /\ UNCHANGED <<registry, modeCvars, maxVelocity, moving>>

OnPlayerActive ==
    /\ ~processing
    /\ SwitchToMode(mode)
    /\ RefreshStyles(styles)
    /\ UNCHANGED <<registry, course, modeCvars, maxVelocity, moving>>

\* OnPlayerPreferenceLoaded of the modes, then of the styles.
OnPlayerPreferenceLoaded(m, names) ==
    /\ ~processing /\ ~timerRunning
    /\ mode' = m
    /\ RefreshStyles(names)
    /\ UNCHANGED <<registry, runVars, modeCvars, maxVelocity, moving>>

(***************************************************************************)
(* The run: see SurfTimer for when it may start.                           *)
(***************************************************************************)
\* Touching a start zone makes its course the current one.
TouchStartZone(c) ==
    /\ ~processing
    /\ course' = c
    /\ UNCHANGED <<registry, rules, timerRunning, physics, moving>>

TimerStart ==
    /\ ~processing /\ course # NoCourse /\ ~timerRunning
    /\ timerRunning' = TRUE
    /\ UNCHANGED <<registry, rules, course, physics, moving>>

TimerStop ==
    /\ ~processing /\ timerRunning
    /\ timerRunning' = FALSE
    /\ UNCHANGED <<registry, rules, course, physics, moving>>

(***************************************************************************)
(* Moves.                                                                  *)
(***************************************************************************)
\* The others' moves leave the shared variables as their rules want them.
OthersMove ==
    /\ ~processing
    /\ modeCvars' \in Mode
    /\ maxVelocity' \in {MaxVelOf[c] : c \in Course} \cup {Plugin[n].maxVel : n \in Names}
    /\ maxVelocity' # Unset
    /\ UNCHANGED <<registry, rules, runVars, gravity, moving>>

\* The places of the styles that set the limit of the speed, and the gravity.
VelStyles     == {i \in DOMAIN styles : Plugin[styles[i]].maxVel # Unset}
GravityStyles == {i \in DOMAIN styles : Plugin[styles[i]].gravity # Unset}

\* Defect: the limit of the course is left to its start zone.
ApplyModeCvars == [modeCvars |-> mode, maxVelocity |-> maxVelocity]

\* The limit of the course gives way to a style that has one; a player without
\* either moves with what the last one left.
ApplyModeSettings ==
    [modeCvars |-> mode,
     maxVelocity |-> IF VelStyles = {} /\ course # NoCourse THEN MaxVelOf[course]
                     ELSE maxVelocity]

\* OnSetupMove of each style in turn.
SetupMoveBy(cmd) ==
    LET left[i \in 0 .. Len(styles)] ==
            IF i = 0 THEN cmd ELSE SetupMoveOf(left[i - 1], styles[i])
    IN  left[Len(styles)]

\* OnProcessMovement of a style: from what the ones before it have set.
SetBy(name, set) ==
    LET Over(value, old) == IF value = Unset THEN old ELSE value
    IN  [maxVelocity |-> Over(Plugin[name].maxVel, set.maxVelocity),
         gravity     |-> Over(Plugin[name].gravity, set.gravity)]

SetByStyles(before) ==
    LET set[i \in 0 .. Len(styles)] == IF i = 0 THEN before ELSE SetBy(styles[i], set[i - 1])
    IN  set[Len(styles)]

\* The settings of the mode, then those of each style in turn.
MoveByRules(cmd) ==
    LET set == SetByStyles([maxVelocity |-> ApplyModeSettings.maxVelocity, gravity |-> gravity]) IN
    /\ ~processing
    /\ processing' = TRUE
    /\ command' = SetupMoveBy(cmd)
    /\ modeCvars' = ApplyModeSettings.modeCvars
    /\ maxVelocity' = set.maxVelocity /\ gravity' = set.gravity
    /\ UNCHANGED <<registry, rules, runVars>>

MoveByRulesPost ==
    /\ processing
    /\ processing' = FALSE /\ command' = NoCommand
    /\ UNCHANGED <<registry, rules, runVars, physics>>

NextRules ==
    \/ \E m \in Mode : CommandMode(m)
    \/ CommandStyle
    \/ \E name \in Names : UnregisterStyle(name) \/ Unpause(name)
    \/ ResetPlayer
    \/ OnPlayerActive
    \/ \E m \in Mode, names \in Preferred : OnPlayerPreferenceLoaded(m, names)
    \/ \E c \in Course : TouchStartZone(c)
    \/ TimerStart
    \/ TimerStop
    \/ OthersMove
    \/ \E cmd \in Commands : MoveByRules(cmd)
    \/ MoveByRulesPost

SpecRules == InitRules /\ [][NextRules]_ruleVars

(***************************************************************************)
(* Properties.                                                             *)
(***************************************************************************)
TypeOKRules ==
    /\ mode \in Mode /\ styles \in Seq(DOMAIN Plugin)
    /\ reloads \in 0 .. MaxReloads
    /\ timerRunning \in BOOLEAN /\ course \in Course \cup {NoCourse}
    /\ modeCvars \in Mode /\ maxVelocity \in Nat /\ gravity \in Nat
    /\ processing \in BOOLEAN /\ command \in Command

\* A run goes by the rules it was started with: while it is on the mode stays
\* the same and no style comes in, whatever the player, the loading of his
\* preferences and the plugins do (SwitchToMode and AddStyle stop the timer;
\* removing a style does not, so a run may lose one).
RunKeepsItsRules ==
    [][timerRunning /\ timerRunning' =>
        /\ mode' = mode
        /\ ToSet(styles') \subseteq ToSet(styles)]_ruleVars

\* Two styles exclude each other when both plugins say so: one that has been
\* paused comes back without its list.
Exclusive(s, t) ==
    /\ t \in styleInfos[InfoOf(s)].excludes
    /\ s \in styleInfos[InfoOf(t)].excludes

Latest(places) == CHOOSE i \in places : \A j \in places : j <= i

\* SurfPlayer::GetCvarValueFromModeStyles("sv_maxvelocity"): the styles are
\* asked from the last one back.
PredictedMaxVelocity ==
    IF VelStyles = {} THEN maxVelocity ELSE Plugin[styles[Latest(VelStyles)]].maxVel

Obeys(cmd, name) ==
    CASE name = "SW" -> ~MovesAcross(cmd)
      [] name = "OnlyW" -> ~MovesAcross(cmd) /\ "back" \notin cmd.keys /\ cmd.forwardmove >= 0
      [] name = "HSW" -> MovesAlong(cmd) <=> MovesAcross(cmd)
      [] OTHER -> TRUE

\* Whatever the moves of the others left behind, and whichever styles came
\* and went: a player in a run moves with the variables of his mode, with the
\* speed limit of his style or else of his course, with the gravity of his
\* style or else the map's, with input his styles allow, and no two of his
\* styles exclude each other.
RightPhysics ==
    processing /\ timerRunning =>
        /\ modeCvars = mode
        /\ VelStyles = {} => maxVelocity = MaxVelOf[course]
        /\ maxVelocity = PredictedMaxVelocity
        /\ gravity = IF GravityStyles = {} THEN 100
                     ELSE Plugin[styles[Latest(GravityStyles)]].gravity
        /\ \A s, t \in ToSet(styles) : ~Exclusive(s, t)
        /\ \A s \in ToSet(styles) :
              Plugin[s].excludes \cap ToSet(styles) = {} => Obeys(command, s)
=============================================================================
