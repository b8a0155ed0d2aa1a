----------------------------- MODULE MCMapSetup -----------------------------
(***************************************************************************)
(* Instances for TLC of the two modules about what the database knows of a *)
(* map.  MapSetup: two maps that share a course name with another number   *)
(* each; one map has a course whose checkpoints have a gap and one that    *)
(* uses the last number.  TimeCaches: two maps, of which some have a       *)
(* record from before.  They are models of their own that share no         *)
(* variable; the initial state chooses one, and only that one takes steps. *)
(***************************************************************************)
EXTENDS MapSetup, TimeCaches, TLC

CONSTANTS Summit, Valley, Main, Bonus, Extra

VARIABLE model      \* which of the two takes steps

MCCoursesOf == [m \in Maps |-> IF m = Summit THEN {Main, Bonus} ELSE {Main, Bonus, Extra}]
MCNumber == [m \in Maps |-> [c \in Courses |->
                CASE c = Main -> 1
                  [] c = Bonus -> IF m = Summit THEN 2 ELSE 3
                  [] OTHER -> 2]]
MCCheckpoints == [m \in Maps |-> [c \in Courses |->
                CASE c = Main -> IF m = Summit THEN {1, 2} ELSE {1}
                  [] c = Bonus -> IF m = Summit THEN {} ELSE {1, 2, 3}
                  [] OTHER -> {1, 3}]]
MCOldBests == {[any |-> 2, plain |-> 2]}

courseSetupVars == vars
setupVars == <<model, courseSetupVars, cacheVars>>

\* The model that takes no steps stays in one initial state, up to symmetry.
InitSetup ==
    /\ model \in {"courses", "caches"}
    /\ Init /\ InitCaches
    /\ model # "courses" => map = Summit
    /\ model # "caches" => records = [m \in Map |-> NoBest]

NextSetup ==
    \/ model = "courses" /\ Next /\ UNCHANGED <<model, cacheVars>>
    \/ model = "caches" /\ NextCaches /\ UNCHANGED <<model, courseSetupVars>>

SpecSetup == InitSetup /\ [][NextSetup]_setupVars

\* The maps and the players of TimeCaches are alike, and no property is about
\* an order of them.
Alike == Permutations(Map) \cup Permutations(Steam)
=============================================================================
