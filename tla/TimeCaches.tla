----------------------------- MODULE TimeCaches -----------------------------
(***************************************************************************)
(* The times a run is compared with (surf/timer/surf_timer.cpp): the       *)
(* server record and the player's local and global bests, cached when the  *)
(* map is set up, a player is set up and a run is saved, and looked at in  *)
(* every tick, to tell a player once that he has missed one.               *)
(*                                                                         *)
(* One mode and one course: a key of the caches is the course's guid,      *)
(* which is counted from 1 on every map, so all maps share it.  One slot   *)
(* for players; others end runs too.  The database answers in order        *)
(* (external: one worker), late, and may fail.  The cache of world records *)
(* stays empty: nothing calls SurfGlobalService::UpdateRecordCache.        *)
(*                                                                         *)
(* A definition marked "Defect" is not part of the model: it is the next   *)
(* definition with a bug in it, which the properties must tell apart.      *)
(***************************************************************************)
EXTENDS Integers, Sequences, FiniteSetsExt

CONSTANTS
    Map, Steam,         \* maps; players by their SteamID64
    Nobody, NoMap,      \* an empty slot; a course without a local ID
    Levels,             \* the levels players ask for, of 0 .. 5
    GlobalTimes,        \* the times the API answers
    OldBests,           \* the records others left when the server started
    MaxRunTime, MaxChanges, MaxSaves, MaxUsers, MaxQueries     \* bounds

ASSUME CacheAssumption ==
    /\ Nobody \notin Steam /\ NoMap \notin Map /\ Levels \subseteq 0 .. 5
    /\ GlobalTimes \subseteq 1 .. MaxRunTime
    /\ OldBests \subseteq {best \in [any : 1 .. MaxRunTime, plain : 1 .. MaxRunTime + 1] : best.any <= best.plain}
    /\ {MaxRunTime, MaxChanges, MaxSaves, MaxUsers, MaxQueries} \subseteq Nat

\* CompareType; COMPARETYPE_COUNT is 5.
NONE == 0
SPB == 1
GPB == 2
SR == 3
WR == 4
Never == MaxRunTime + 1     \* no time is known
Times == 1 .. MaxRunTime
\* The best of a course: of all runs, and of the runs without a style.
NoBest == [any |-> Never, plain |-> Never]
Bests  == [any : Times \cup {Never}, plain : Times \cup {Never}]

VARIABLES
    mapName, mapLoading, mapReady, loadCount,   \* mapReady: SurfDatabaseService::mapSetUp
    courseID,           \* localDatabaseID: the map whose course has this ID
    queries,            \* transactions the database has not answered
    records, personal,  \* the tables: map -> best; player -> map -> best
    saveCount,
    player, userCount,  \* who has the slot; the user ID of his session
    srCache, localPBCache, globalPBCache,
    preferredCompareType, currentCompareType,
    timerOn, runTime, styled,   \* the run that is on; without one they, the
    missed,                     \* level and the time told to be missed do not matter
    srKnown, pbKnown,   \* history: the records, his bests were read with the course known
    mixed               \* history: an ID came for the course of another map

mapCacheVars == <<mapName, mapLoading, mapReady, loadCount, courseID, mixed>>
tableVars    == <<records, personal, saveCount>>
userVars     == <<player, userCount>>
knownVars    == <<srCache, localPBCache, srKnown, pbKnown>>
levelVars    == <<preferredCompareType, currentCompareType>>
timingVars   == <<timerOn, runTime, styled, missed>>
cacheVars == <<mapCacheVars, queries, tableVars, userVars, knownVars, globalPBCache, levelVars, timingVars>>

\* A transaction, of a player's session or of nobody's.
Query(kind, user, of) ==
    [kind |-> kind, map |-> of, user |-> user, steam |-> IF user = 0 THEN Nobody ELSE player,
     load |-> 0, time |-> Never, plain |-> TRUE]
QueryAllRecords == Query("records", 0, mapName)
QueryAllPBs     == Query("pbs", userCount, mapName)
SaveTime(user, time, plain) ==
    [Query("save", user, courseID) EXCEPT !.load = loadCount, !.time = time, !.plain = plain]
Ask(qs)         == Len(qs) <= MaxQueries /\ queries' = qs

InitCaches ==
    /\ mapName \in Map /\ mapLoading = TRUE /\ mapReady = FALSE /\ loadCount = 0
    /\ courseID = NoMap /\ mixed = FALSE /\ queries = <<>>
    /\ records \in [Map -> {NoBest} \cup OldBests]
    /\ personal = [s \in Steam |-> [m \in Map |-> NoBest]] /\ saveCount = 0
    /\ player = Nobody /\ userCount = 0
    /\ srCache = Never /\ localPBCache = Never /\ srKnown = FALSE /\ pbKnown = FALSE
    /\ globalPBCache = Never
    /\ preferredCompareType = GPB /\ currentCompareType = NONE
    /\ timerOn = FALSE /\ runTime = 0 /\ styled = FALSE /\ missed = NONE

(***************************************************************************)
(* The level a run is compared at.                                         *)
(***************************************************************************)
GetCompareTargetForType(level) ==
    CASE level = SPB -> localPBCache
      [] level = GPB -> globalPBCache
      [] level = SR  -> srCache
      [] OTHER       -> Never

\* The highest level up to the preferred one of which a time is known.
UpdateCurrentCompareType(preferred) ==
    Max({NONE} \cup {level \in 1 .. preferred : GetCompareTargetForType(level) # Never})

\* surf_comparelevel; the level of the run that is on follows.
SetCompareTarget(level) ==
    /\ player # Nobody /\ level \in Levels \cap (NONE .. WR)
    /\ preferredCompareType' = level
    /\ currentCompareType' = IF timerOn THEN UpdateCurrentCompareType(level) ELSE NONE
    /\ UNCHANGED <<mapCacheVars, queries, tableVars, userVars, knownVars, globalPBCache, timingVars>>

\* The preference came, or changed: COMPARETYPE_COUNT itself is let through,
\* and the current level waits for the next run.
ApplyCompareType(level) ==
    /\ player # Nobody /\ level \in Levels
    /\ preferredCompareType' = level
    /\ UNCHANGED <<mapCacheVars, queries, tableVars, userVars, knownVars, globalPBCache, currentCompareType,
                   timingVars>>

(***************************************************************************)
(* A run.                                                                  *)
(***************************************************************************)
StartCompared ==
    /\ player # Nobody /\ ~mapLoading
    /\ timerOn' = TRUE /\ runTime' = 0 /\ styled' \in BOOLEAN /\ missed' = NONE
    /\ currentCompareType' = UpdateCurrentCompareType(preferredCompareType)
    /\ UNCHANGED <<mapCacheVars, queries, tableVars, userVars, knownVars, globalPBCache, preferredCompareType>>

\* The player is told once, and not in a run with styles.
CheckMissedTime(time) ==
    IF missed = NONE /\ ~styled /\ time > GetCompareTargetForType(currentCompareType)
    THEN currentCompareType ELSE missed

TickCompared ==
    /\ timerOn /\ runTime < MaxRunTime
    /\ runTime' = runTime + 1 /\ missed' = CheckMissedTime(runTime')
    /\ UNCHANGED <<mapCacheVars, queries, tableVars, userVars, knownVars, globalPBCache, levelVars, timerOn, styled>>

NoRun == timerOn' = FALSE /\ runTime' = 0 /\ styled' = FALSE /\ missed' = NONE /\ currentCompareType' = NONE

\* TimerStop: a command, a death, a new round, and everything else that stops it.
StopCompared ==
    /\ timerOn /\ NoRun
    /\ UNCHANGED <<mapCacheVars, queries, tableVars, userVars, knownVars, globalPBCache, preferredCompareType>>

\* SaveTime, under the ID the course has: the slot's run, or somebody else's.
Save(user, time, plain) ==
    /\ courseID # NoMap /\ saveCount < MaxSaves /\ saveCount' = saveCount + 1
    /\ Ask(Append(queries, SaveTime(user, time, plain)))

EndCompared ==
    /\ timerOn /\ runTime > 0 /\ NoRun
    /\ Save(userCount, runTime, ~styled)
    /\ UNCHANGED <<mapCacheVars, records, personal, userVars, knownVars, globalPBCache, preferredCompareType>>

SomebodyEnds(time) ==
    /\ ~mapLoading /\ \E plain \in BOOLEAN : Save(0, time, plain)
    /\ UNCHANGED <<mapCacheVars, records, personal, userVars, knownVars, globalPBCache, levelVars, timingVars>>

(***************************************************************************)
(* Maps and players.                                                       *)
(***************************************************************************)
\* Defect: the records of the map before stay.
ClearRecordCacheOfPlayers ==
    /\ localPBCache' = Never /\ srKnown' = FALSE /\ pbKnown' = FALSE /\ UNCHANGED srCache

\* The local bests go with the records, the global bests stay.
ClearRecordCache ==
    /\ srCache' = Never /\ localPBCache' = Never /\ srKnown' = FALSE /\ pbKnown' = FALSE

\* StartupServer, then the courses of the map are created.  The pawns are gone:
\* no run goes on before the round start stops the timers.
LoadMap(m) ==
    /\ ~mapLoading /\ loadCount < MaxChanges /\ loadCount' = loadCount + 1
    /\ mapName' = m /\ mapLoading' = TRUE /\ courseID' = NoMap /\ mixed' = FALSE
    /\ ClearRecordCache /\ NoRun
    /\ UNCHANGED <<mapReady, queries, tableVars, userVars, globalPBCache, preferredCompareType>>

\* ActivateServer, SetupMap.
ActivateMap ==
    /\ mapLoading /\ mapLoading' = FALSE /\ mapReady' = FALSE
    /\ Ask(Append(queries, Query("map", 0, mapName)))
    /\ UNCHANGED <<mapName, loadCount, courseID, mixed, tableVars, userVars, knownVars, globalPBCache, levelVars,
                   timingVars>>

\* A round: TimerStopAll and SetupLocalCourses.  With a map that is not set up
\* it stops the timers only, which StopCompared does as well.
StartRound ==
    /\ ~mapLoading /\ mapReady
    /\ Ask(Append(queries, Query("courses", 0, mapName)))
    /\ NoRun
    /\ UNCHANGED <<mapCacheVars, tableVars, userVars, knownVars, globalPBCache, preferredCompareType>>

Connect(steam) ==
    /\ player = Nobody /\ userCount < MaxUsers
    /\ player' = steam /\ userCount' = userCount + 1
    /\ UNCHANGED <<mapCacheVars, queries, tableVars, knownVars, globalPBCache, levelVars, timingVars>>

\* SetupClient.
Authorize ==
    /\ player # Nobody
    /\ Ask(Append(queries, Query("client", userCount, mapName)))
    /\ UNCHANGED <<mapCacheVars, tableVars, player, userCount, knownVars, globalPBCache, levelVars, timingVars>>

\* Defect: the bests of who had the slot stay.
ResetTimer == NoRun /\ pbKnown' = FALSE /\ UNCHANGED localPBCache

\* SurfTimerService::Reset: neither the global bests nor the level.
Reset == NoRun /\ pbKnown' = FALSE /\ localPBCache' = Never

Disconnect ==
    /\ player # Nobody /\ player' = Nobody /\ Reset
    /\ UNCHANGED <<mapCacheVars, queries, tableVars, userCount, srCache, srKnown, globalPBCache,
                   preferredCompareType>>

\* The API's answer for a player who is here and the map that is on; others
\* are passed over.
PlayerRecords(time) ==
    /\ player # Nobody /\ globalPBCache' = time
    /\ UNCHANGED <<mapCacheVars, queries, tableVars, userVars, knownVars, levelVars, timingVars>>

(***************************************************************************)
(* The answers of the database.                                            *)
(***************************************************************************)
Better(best, query) ==
    [any |-> Min({best.any, query.time}),
     plain |-> IF query.plain THEN Min({best.plain, query.time}) ELSE best.plain]

\* The submission may be gone by then: cleared with the map it was made on, or
\* announced without the answer.  Runs with styles have no callback.
SavedAnswer(query) ==
    LET asks == (IF query.user # 0 /\ query.user = userCount /\ player # Nobody THEN <<QueryAllPBs>> ELSE <<>>)
                    \o <<QueryAllRecords>>
        there == query.load = loadCount \/ (mapLoading /\ query.load = loadCount - 1)
    IN  /\ records' = [records EXCEPT ![query.map] = Better(@, query)]
        /\ personal' = IF query.user = 0 THEN personal
                       ELSE [personal EXCEPT ![query.steam][query.map] = Better(@, query)]
        /\ \/ query.plain /\ there /\ Ask(Tail(queries) \o asks) /\ UNCHANGED <<srKnown, pbKnown>>
           \/ query.plain /\ Ask(Tail(queries)) /\ srKnown' = FALSE /\ pbKnown' = FALSE
           \/ ~query.plain /\ Ask(Tail(queries)) /\ UNCHANGED <<srKnown, pbKnown>>
        /\ UNCHANGED <<mapCacheVars, srCache, localPBCache>>

\* OnMapSetup asks for the records: before any round could ask for the courses.
MapSetUp(query) ==
    /\ IF query.map = mapName THEN mapReady' = TRUE /\ Ask(Append(Tail(queries), QueryAllRecords))
       ELSE UNCHANGED mapReady /\ Ask(Tail(queries))
    /\ UNCHANGED <<mapName, mapLoading, loadCount, courseID, mixed, records, personal, knownVars>>

CoursesSetUp(query) ==
    /\ Ask(Tail(queries)) /\ courseID' = query.map /\ mixed' = (mixed \/ query.map # mapName)
    /\ UNCHANGED <<mapName, mapLoading, mapReady, loadCount, records, personal, knownVars>>

\* OnClientSetup.
ClientSetUp(query) ==
    /\ IF query.user = userCount /\ player # Nobody THEN Ask(Append(Tail(queries), QueryAllPBs))
       ELSE Ask(Tail(queries))
    /\ UNCHANGED <<mapCacheVars, records, personal, knownVars>>

Insert(time, cache) == IF time = Never THEN cache ELSE time

\* Rows of courses whose ID is not known are passed over.
UpdateLocalRecordCache(query) ==
    /\ Ask(Tail(queries))
    /\ IF courseID = query.map
       THEN srCache' = Insert(records[query.map].any, srCache) /\ srKnown' = TRUE
       ELSE UNCHANGED <<srCache, srKnown>>
    /\ UNCHANGED <<mapCacheVars, records, personal, localPBCache, pbKnown>>

UpdateLocalPBCache(query) ==
    /\ Ask(Tail(queries))
    /\ IF courseID = query.map /\ player # Nobody /\ query.user = userCount
       THEN localPBCache' = Insert(personal[query.steam][query.map].any, localPBCache) /\ pbKnown' = TRUE
       ELSE UNCHANGED <<localPBCache, pbKnown>>
    /\ UNCHANGED <<mapCacheVars, records, personal, srCache, srKnown>>

\* OnGenericTxnFailure logs: nobody asks again.
QueryFails(query) ==
    /\ Ask(Tail(queries))
    /\ srKnown' = (srKnown /\ query.kind # "records") /\ pbKnown' = (pbKnown /\ query.kind # "pbs")
    /\ UNCHANGED <<mapCacheVars, records, personal, srCache, localPBCache>>

DatabaseAnswers ==
    /\ queries # <<>>
    /\ LET query == Head(queries) IN
          \/ query.kind = "save" /\ SavedAnswer(query)
          \/ query.kind = "map" /\ MapSetUp(query)
          \/ query.kind = "courses" /\ CoursesSetUp(query)
          \/ query.kind = "client" /\ ClientSetUp(query)
          \/ query.kind = "records" /\ UpdateLocalRecordCache(query)
          \/ query.kind = "pbs" /\ UpdateLocalPBCache(query)
          \/ QueryFails(query)
    /\ UNCHANGED <<saveCount, userVars, globalPBCache, levelVars, timingVars>>

NextCaches ==
    \/ \E level \in Levels : SetCompareTarget(level) \/ ApplyCompareType(level)
    \/ StartCompared \/ TickCompared \/ StopCompared \/ EndCompared
    \/ \E time \in Times : SomebodyEnds(time)
    \/ \E time \in GlobalTimes : PlayerRecords(time)
    \/ \E m \in Map : LoadMap(m)
    \/ ActivateMap \/ StartRound
    \/ \E steam \in Steam : Connect(steam)
    \/ Authorize \/ Disconnect \/ DatabaseAnswers

SpecCaches == InitCaches /\ [][NextCaches]_cacheVars

-----------------------------------------------------------------------------
Transaction == [kind : {"save", "map", "courses", "client", "records", "pbs"}, user : Nat, steam : Steam \cup {Nobody},
                map : Map, load : Nat, time : Times \cup {Never}, plain : BOOLEAN]

\* Every variable has its type.
TypeOKCaches ==
    /\ mapName \in Map /\ mapLoading \in BOOLEAN /\ mapReady \in BOOLEAN /\ loadCount \in Nat
    /\ courseID \in Map \cup {NoMap} /\ mixed \in BOOLEAN
    /\ queries \in Seq(Transaction)
    /\ records \in [Map -> Bests] /\ personal \in [Steam -> [Map -> Bests]] /\ saveCount \in Nat
    /\ player \in Steam \cup {Nobody} /\ userCount \in Nat
    /\ {srCache, localPBCache, globalPBCache} \subseteq Times \cup {Never}
    /\ preferredCompareType \in 0 .. 5 /\ currentCompareType \in NONE .. WR
    /\ timerOn \in BOOLEAN /\ runTime \in 0 .. MaxRunTime /\ styled \in BOOLEAN /\ missed \in NONE .. WR
    /\ srKnown \in BOOLEAN /\ pbKnown \in BOOLEAN

\* Whoever is told that he has missed the server record, or his own best on
\* the server, has: a run of this map, and of his for the second, was faster.
\* The caches are keyed by a guid that all maps share and belong to a slot that
\* players share; they are filled by answers that come when another map is on
\* or another player is here, and are not cleared by every change.  The
\* exception is a course that took the ID of the map before (setup_map_courses,
\* by name alone), for which the records of that map pass.
MissedTimesAreMissed ==
    timerOn /\ ~mixed =>
        /\ missed = SR => records[mapName].any < runTime
        /\ missed = SPB => personal[player][mapName].any < runTime

\* When the database has answered everything, the cached record and the cached
\* best of the player are the best of the table, provided they were read once
\* with the course registered and no answer got lost since: whichever runs were
\* saved meanwhile, by him, by others, before he left and came back or on the
\* map before.  The tables' queries take runs with styles too (sql_getsrs,
\* sql_getpbs), but no run with styles renews the caches: the cached time is
\* between the two bests.
KnownTimesAreBest ==
    queries = <<>> /\ ~mixed =>
        /\ srKnown => records[mapName].any <= srCache /\ srCache <= records[mapName].plain
        /\ pbKnown => /\ personal[player][mapName].any <= localPBCache
                      /\ localPBCache <= personal[player][mapName].plain

\* What surf_timer.h:139 says of the server records, "should be loaded upon map
\* start".  Not true of the code: OnMapSetup asks before a round can register
\* the courses, and every row of the answer is passed over.
RecordsAreLoaded ==
    queries = <<>> /\ courseID = mapName => srCache <= records[mapName].plain

\* The same as MissedTimesAreMissed of the global bests.  Not true of the code:
\* they are never cleared, so they are those of the map or of the player before
\* until the API's answer for this one.
GlobalTimesAreHis ==
    [][mapName' # mapName \/ player' # player => globalPBCache' = Never]_cacheVars
=============================================================================
