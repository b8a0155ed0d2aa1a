------------------------------ MODULE MapSetup ------------------------------
(***************************************************************************)
(* The courses of a map (surf/mappingapi): created when the map loads,     *)
(* counted and validated at every round start, and registered in the local *)
(* database (surf/db/setup_map, setup_map_courses), whose answers may come *)
(* rounds or maps later.  The database answers in order (external: one     *)
(* worker); a transaction may fail and is not tried again.                 *)
(*                                                                         *)
(* The descriptors are slots of a fixed array.  The sorted list points to  *)
(* slots, and FastRemove moves the last descriptor over the removed one.   *)
(*                                                                         *)
(* Left out: the bonus courses that legacy maps get while their entities   *)
(* spawn (surf_mappingapi.cpp:347-365), and the stages: their count, and   *)
(* the XOR of their numbers, which nothing reads (:840).                   *)
(*                                                                         *)
(* A definition marked "Defect" is not part of the model: it is the next   *)
(* definition with a bug in it, which the properties must tell apart.      *)
(***************************************************************************)
EXTENDS Integers, Sequences, FiniteSets

CONSTANTS
    Maps,
    Courses,            \* the names of courses; maps may share one
    CoursesOf,          \* map -> its courses
    Number,             \* map -> course -> number of the course
    Checkpoints,        \* map -> course -> numbers of its checkpoint zones
    MaxCheckpoint,      \* SURF_MAX_CHECKPOINT_ZONES
    None,               \* no name, an ID of 0
    MaxLoads, MaxRequests   \* bounds: maps loaded, transactions under way

ASSUME MapAssumption ==
    /\ IsFiniteSet(Courses)
    /\ CoursesOf \in [Maps -> SUBSET Courses]
    /\ Number \in [Maps -> [Courses -> Nat]]
    /\ \A m \in Maps : \A c, d \in CoursesOf[m] : Number[m][c] = Number[m][d] => c = d
    /\ Checkpoints \in [Maps -> [Courses -> SUBSET Int]]
    /\ MaxCheckpoint \in Nat /\ MaxLoads \in Nat /\ MaxRequests \in Nat
    /\ None \notin Maps \cup Courses \cup (Maps \X Nat)

VARIABLES
    map, loading,           \* GetCurrentMapName; from StartupServer to ActivateServer
    apiVersionLoaded,
    slots, size,            \* courseDescriptors: the array and its count
    sortedCourses,          \* g_sortedCourses: slots, in the order of the numbers
    roundIsStarting, spawned,   \* between the two events; this round's zones are there
    localDBConnected, mapSetUp, currentMapID,
    requests,               \* transactions the database has not answered
    rows,                   \* MapCourses: the courses registered of each map
    loads,                  \* history: maps loaded
    registered              \* history: the courses of this load were registered

mapVars    == <<map, loading, loads>>
courseVars == <<apiVersionLoaded, slots, size, sortedCourses>>
roundVars  == <<roundIsStarting, spawned>>
dbVars     == <<localDBConnected, mapSetUp, currentMapID, requests, rows, registered>>
vars == <<mapVars, courseVars, roundVars, dbVars>>

Slots == 1 .. Cardinality(Courses)
Descriptor == [name : Courses \cup {None}, localDatabaseID : (Maps \X Nat) \cup {None},
               checkpointCount : 0 .. MaxCheckpoint]
NewCourse(name) == [name |-> name, localDatabaseID |-> None, checkpointCount |-> 0]
NoCourses == [k \in Slots |-> NewCourse(None)]

Init ==
    /\ map \in Maps /\ loading = TRUE /\ loads = 0
    /\ apiVersionLoaded = FALSE /\ size = 0 /\ sortedCourses = <<>>
    /\ slots = NoCourses
    /\ roundIsStarting = FALSE /\ spawned = FALSE
    /\ localDBConnected = FALSE /\ mapSetUp = FALSE /\ currentMapID = None
    /\ requests = <<>> /\ rows = [m \in Maps |-> {}] /\ registered = FALSE

(***************************************************************************)
(* Loading a map.                                                          *)
(***************************************************************************)
\* ClearCourses and mapapi::Init; the flag of the database stays.
StartupServer(m) ==
    /\ ~loading /\ loads < MaxLoads
    /\ map' = m /\ loading' = TRUE /\ loads' = loads + 1
    /\ apiVersionLoaded' = FALSE /\ slots' = NoCourses /\ size' = 0 /\ sortedCourses' = <<>>
    /\ roundIsStarting' = FALSE /\ spawned' = FALSE
    /\ registered' = FALSE
    /\ UNCHANGED <<localDBConnected, mapSetUp, currentMapID, requests, rows>>

\* The first spawn group with a worldspawn has the course descriptors, in any
\* order; each is inserted where its number belongs.
OnCreateLoadingSpawnGroup ==
    /\ loading /\ ~apiVersionLoaded
    /\ apiVersionLoaded' = TRUE
    /\ size' = Cardinality(CoursesOf[map])
    /\ \E order \in [1 .. size' -> CoursesOf[map]], places \in [1 .. size' -> 1 .. size'] :
          /\ \A i, j \in 1 .. size' : i < j => order[i] # order[j]
          /\ \A i, j \in 1 .. size' : i < j => Number[map][order[places[i]]] < Number[map][order[places[j]]]
          /\ slots' = [k \in Slots |-> IF k <= size' THEN NewCourse(order[k]) ELSE slots[k]]
          /\ sortedCourses' = places
    /\ UNCHANGED <<mapVars, roundVars, dbVars>>

(***************************************************************************)
(* The local database.                                                     *)
(***************************************************************************)
MapRequest       == [kind |-> "map", of |-> map, courses |-> {}, load |-> loads]
CoursesRequest   == [kind |-> "courses", of |-> currentMapID, load |-> loads,
                     courses |-> {slots[sortedCourses[i]].name : i \in 1 .. Len(sortedCourses)}]

\* Defect: the map before stays set up until the answer.
SetupMapLater(ready) ==
    /\ mapSetUp' = mapSetUp
    /\ IF ready THEN Len(requests) < MaxRequests /\ requests' = Append(requests, MapRequest)
       ELSE UNCHANGED requests

SetupMap(ready) ==
    /\ mapSetUp' = FALSE
    /\ IF ready THEN Len(requests) < MaxRequests /\ requests' = Append(requests, MapRequest)
       ELSE UNCHANGED requests

ActivateServer ==
    /\ loading /\ apiVersionLoaded /\ loading' = FALSE
    /\ SetupMap(localDBConnected)
    /\ UNCHANGED <<map, loads, courseVars, roundVars, localDBConnected, currentMapID, rows, registered>>

\* The migrations are done.
DatabaseReady ==
    /\ ~localDBConnected /\ localDBConnected' = TRUE
    /\ SetupMap(TRUE)
    /\ UNCHANGED <<mapVars, courseVars, roundVars, currentMapID, rows, registered>>

\* Defect: the answer is taken whatever the map is by now.
MapAnswerUnchecked(request) ==
    /\ mapSetUp' = TRUE /\ currentMapID' = request.of
    /\ UNCHANGED <<rows, slots, registered>>

MapAnswer(request) ==
    /\ IF request.of = map
       THEN mapSetUp' = TRUE /\ currentMapID' = request.of
       ELSE UNCHANGED <<mapSetUp, currentMapID>>
    /\ UNCHANGED <<rows, slots, registered>>

\* The first of the list whose name it is; a place may point to a slot that is
\* no longer in use.
Named(name) == {i \in 1 .. Len(sortedCourses) : slots[sortedCourses[i]].name = name}
FirstNamed(name) == CHOOSE i \in Named(name) : \A j \in Named(name) : i <= j

\* Every row of the map updates the course of its name, whatever map is on.
CoursesAnswer(request) ==
    LET found == rows[request.of] \cup request.courses
        Updated(k) == \E name \in found : Named(name) # {} /\ sortedCourses[FirstNamed(name)] = k
    IN  /\ rows' = [rows EXCEPT ![request.of] = found]
        /\ slots' = [k \in Slots |->
                        IF Updated(k)
                        THEN [slots[k] EXCEPT !.localDatabaseID = <<request.of, Number[request.of][slots[k].name]>>]
                        ELSE slots[k]]
        /\ registered' = (registered \/ request.load = loads)
        /\ UNCHANGED <<mapSetUp, currentMapID>>

\* OnGenericTxnFailure logs.
Answer ==
    /\ requests # <<>> /\ requests' = Tail(requests)
    /\ LET request == Head(requests)
       IN  \/ request.kind = "map" /\ MapAnswer(request)
           \/ request.kind = "courses" /\ CoursesAnswer(request)
           \/ UNCHANGED <<mapSetUp, currentMapID, rows, slots, registered>>
    /\ UNCHANGED <<mapVars, apiVersionLoaded, size, sortedCourses, roundVars, localDBConnected>>

(***************************************************************************)
(* Rounds.                                                                 *)
(***************************************************************************)
OnRoundPreStart ==
    /\ ~loading /\ ~roundIsStarting
    /\ roundIsStarting' = TRUE /\ spawned' = FALSE
    /\ UNCHANGED <<mapVars, courseVars, dbVars>>

\* The game spawns the zones again before the round starts.
OnSpawn ==
    /\ roundIsStarting /\ ~spawned /\ spawned' = TRUE
    /\ UNCHANGED <<mapVars, courseVars, roundIsStarting, dbVars>>

\* SetupLocalCourses: what an answer that is still to come would have set up
\* waits for the next round.
SetupLocalCourses ==
    IF mapSetUp THEN Len(requests) < MaxRequests /\ requests' = Append(requests, CoursesRequest)
    ELSE UNCHANGED requests

Zones(k) == Checkpoints[map][slots[k].name]
InRange(k) == Zones(k) \cap (1 .. MaxCheckpoint)

\* The highest number in range.
Highest(k) == IF InRange(k) = {} THEN 0 ELSE CHOOSE n \in InRange(k) : \A i \in InRange(k) : i <= n

\* Defect: the numbers are looked at only for their range.
ValidRange(k, seen) == InRange(k) = Zones(k)

\* seenCp has no place for the last number: what is read back there is
\* whatever the build has made of it.
Valid(k, seen) ==
    /\ InRange(k) = Zones(k)
    /\ 1 .. Highest(k) \subseteq Zones(k) \cap seen

\* The first course with a wrong number is taken out and ends the loop: those
\* after it keep the counts they had, and the list keeps its places.
OnRoundStart ==
    /\ roundIsStarting /\ spawned
    /\ SetupLocalCourses
    /\ roundIsStarting' = FALSE
    /\ \E seen \in {1 .. MaxCheckpoint, 1 .. MaxCheckpoint - 1} :
       \E last \in 0 .. size :
          /\ \A k \in 1 .. last : Valid(k, seen)
          /\ last < size => ~Valid(last + 1, seen)
          /\ size' = IF last < size THEN size - 1 ELSE size
          /\ slots' = [k \in Slots |->
                          CASE k <= last -> [slots[k] EXCEPT !.checkpointCount = Highest(k)]
                            [] k = last + 1 /\ last < size -> slots[size]
                            [] OTHER -> slots[k]]
    /\ UNCHANGED <<mapVars, apiVersionLoaded, sortedCourses, spawned, localDBConnected, mapSetUp, currentMapID,
                   rows, registered>>

Next ==
    \/ \E m \in Maps : StartupServer(m)
    \/ OnCreateLoadingSpawnGroup \/ ActivateServer \/ DatabaseReady \/ Answer
    \/ OnRoundPreStart \/ OnSpawn \/ OnRoundStart

Spec == Init /\ [][Next]_vars

-----------------------------------------------------------------------------
Request == [kind : {"map", "courses"}, of : Maps, courses : SUBSET Courses, load : Nat]

\* Every variable has its type.
TypeOK ==
    /\ map \in Maps /\ loading \in BOOLEAN /\ loads \in Nat
    /\ apiVersionLoaded \in BOOLEAN /\ slots \in [Slots -> Descriptor]
    /\ size \in 0 .. Cardinality(Courses) /\ sortedCourses \in Seq(Slots)
    /\ roundIsStarting \in BOOLEAN /\ spawned \in BOOLEAN
    /\ localDBConnected \in BOOLEAN /\ mapSetUp \in BOOLEAN /\ currentMapID \in Maps \cup {None}
    /\ requests \in Seq(Request)
    /\ rows \in [Maps -> SUBSET Courses] /\ registered \in BOOLEAN

NoCourseRemoved == Len(sortedCourses) = size

\* Once a map is active and counts as set up, the map ID is its own, and once
\* the courses of this load were registered every one of them has its own ID
\* and keeps it: however late the answers for the maps before arrive, and
\* although they update courses by name alone (SetupMap, SetupCourses,
\* UpdateCourseLocalID).  A map with a course that was taken out is another
\* matter: the list then updates slots that are not in use.
IDsAreOfThisMap ==
    ~loading =>
        /\ mapSetUp => currentMapID = map
        /\ registered /\ NoCourseRemoved =>
              \A k \in 1 .. size : slots[k].localDatabaseID = <<map, Number[map][slots[k].name]>>

\* A course only has as many splits as it has checkpoint zones numbered from 1
\* on: a run can pass every one of them, whichever courses of the map were
\* taken out, in whatever order the courses were created and moved, and over
\* rounds and map changes (OnRoundStart, surf_mappingapi.cpp:778).
SplitsHaveTheirZones ==
    \A k \in 1 .. size : 1 .. slots[k].checkpointCount \subseteq Zones(k)
=============================================================================
