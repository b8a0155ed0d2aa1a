--------------------------- MODULE MapSetupProofs ---------------------------
(***************************************************************************)
(* Proofs about MapSetup and TimeCaches, for any maps, courses and players *)
(* and any bounds.                                                         *)
(***************************************************************************)
EXTENDS MapSetup, TimeCaches, FiniteSetTheorems, WellFoundedInduction, TLAPS

(***************************************************************************)
(* MapSetup: the inductive invariant.                                      *)
(***************************************************************************)
\* The slots in use and those the list points to have names.  As long as no
\* course was removed, they are the same, each once, and no two share a name.
ListInv ==
    /\ size <= Len(sortedCourses)
    /\ \A k \in 1 .. size : slots[k].name \in Courses
    /\ \A i \in 1 .. Len(sortedCourses) : slots[sortedCourses[i]].name \in Courses
    /\ NoCourseRemoved =>
          /\ \A i, j \in 1 .. size : slots[i].name = slots[j].name => i = j
          /\ \A i, j \in 1 .. size : sortedCourses[i] = sortedCourses[j] => i = j
          /\ \A k \in 1 .. size : \E i \in 1 .. size : sortedCourses[i] = k
          /\ \A i \in 1 .. size : sortedCourses[i] \in 1 .. size

\* What may be asked of the map m, with courses of these names.
Fits(request, m, active, names) ==
    /\ request.of = m
    /\ request.kind = "courses" => active /\ names \subseteq request.courses

\* The database is asked in the order of the loads, of which this is the
\* load-th.  What it is asked in this one fits; once it has answered for the
\* courses of this one (done), nothing of the loads before is left.
InOrder(q, load, done, m, active, names) ==
    \A i \in 1 .. Len(q) :
        /\ q[i].load <= load
        /\ \A j \in i .. Len(q) : q[i].load <= q[j].load
        /\ done => q[i].load = load
        /\ q[i].load = load => Fits(q[i], m, active, names)

\* The names of all courses of the map, if none was removed.
Names == {slots[k].name : k \in IF NoCourseRemoved THEN 1 .. size ELSE {}}

QueueInv == InOrder(requests, loads, registered, map, ~loading, Names)

PlaceInv == roundIsStarting \/ registered => ~loading

SetupInv == TypeOK /\ ListInv /\ QueueInv /\ PlaceInv /\ IDsAreOfThisMap

(***************************************************************************)
(* Numbers, slots and queues.                                              *)
(***************************************************************************)
\* A nonempty set of numbers up to n has a highest and a lowest one.
LEMMA HasHighest ==
    ASSUME NEW n \in Nat, NEW S, S \subseteq 0 .. n, S # {}
    PROVE  \E h \in S : \A i \in S : i <= h
<1> DEFINE T == {n - i : i \in S}
<1>1. T \subseteq Nat /\ T # {}
    <2>1. PICK i \in S : TRUE
        OBVIOUS
    <2>2. n - i \in T
        BY <2>1
    <2>3. \A j \in S : n - j \in Nat
        OBVIOUS
    <2> QED BY <2>2, <2>3
<1>2. PICK x \in T : \A y \in T : ~ (<<y, x>> \in OpToRel(<, Nat))
    BY <1>1, WFMin, NatLessThanWellFounded
<1>3. \A y \in T : ~ (y < x)
    BY <1>1, <1>2 DEF OpToRel
<1>4. PICK h \in S : x = n - h
    OBVIOUS
<1>5. \A i \in S : ~ (n - i < n - h)
    BY <1>3, <1>4
<1> QED BY <1>5

LEMMA HasLowest ==
    ASSUME NEW S, S \subseteq Nat, S # {}
    PROVE  \E l \in S : \A i \in S : l <= i
<1>1. PICK x \in S : \A y \in S : ~ (<<y, x>> \in OpToRel(<, Nat))
    BY WFMin, NatLessThanWellFounded
<1>2. \A y \in S : ~ (y < x)
    BY <1>1 DEF OpToRel
<1> QED BY <1>2

LEMMA SlotCount ==
    /\ Cardinality(Courses) \in Nat
    /\ \A m \in Maps : Cardinality(CoursesOf[m]) \in 0 .. Cardinality(Courses)
<1>1. IsFiniteSet(Courses)
    BY MapAssumption
<1>2. \A m \in Maps : CoursesOf[m] \in SUBSET Courses
    BY MapAssumption
<1> QED BY <1>1, <1>2, FS_CardinalityType, FS_Subset

\* The highest number in range is one: 0 if there is none.
LEMMA HighestIsNumber ==
    ASSUME NEW k
    PROVE  Highest(k) \in 0 .. MaxCheckpoint
<1>1. MaxCheckpoint \in Nat /\ InRange(k) \subseteq 0 .. MaxCheckpoint
    BY MapAssumption DEF InRange
<1>2. CASE InRange(k) = {}
    BY <1>1, <1>2 DEF Highest
<1>3. CASE InRange(k) # {}
    <2>1. \E h \in InRange(k) : \A i \in InRange(k) : i <= h
        BY <1>1, <1>3, HasHighest
    <2>2. Highest(k) \in InRange(k)
        BY <1>3, <2>1 DEF Highest
    <2> QED BY <1>1, <2>2
<1> QED BY <1>2, <1>3

LEMMA Asked ==
    ASSUME NEW S, NEW q \in Seq(S), NEW e \in S
    PROVE  /\ Append(q, e) \in Seq(S) /\ Len(Append(q, e)) = Len(q) + 1 /\ Len(q) \in Nat
           /\ \A i \in 1 .. Len(q) : Append(q, e)[i] = q[i]
           /\ Append(q, e)[Len(q) + 1] = e
OBVIOUS

LEMMA Answered ==
    ASSUME NEW S, NEW q \in Seq(S), q # <<>>
    PROVE  /\ Tail(q) \in Seq(S) /\ Len(Tail(q)) = Len(q) - 1 /\ Len(q) \in Nat /\ Len(q) >= 1
           /\ Head(q) = q[1] /\ Head(q) \in S
           /\ \A i \in 1 .. Len(Tail(q)) : Tail(q)[i] = q[i + 1]
OBVIOUS

(***************************************************************************)
(* MapSetup: the courses.                                                  *)
(***************************************************************************)
CourseInv ==
    /\ map \in Maps /\ slots \in [Slots -> Descriptor] /\ size \in 0 .. Cardinality(Courses)
    /\ sortedCourses \in Seq(Slots)
    /\ ListInv /\ SplitsHaveTheirZones

\* The list as the descriptors are created: its places are the slots, in an
\* order of the numbers.
LEMMA CoursesCreated ==
    ASSUME CourseInv, OnCreateLoadingSpawnGroup
    PROVE  CourseInv' /\ size' \in Nat
<1>1. /\ map' = map /\ map \in Maps /\ size' = Cardinality(CoursesOf[map])
      /\ size' \in 0 .. Cardinality(Courses) /\ Cardinality(Courses) \in Nat /\ CoursesOf[map] \subseteq Courses
    BY SlotCount, MapAssumption DEF OnCreateLoadingSpawnGroup, mapVars, CourseInv
<1>2. PICK order \in [1 .. size' -> CoursesOf[map]], places \in [1 .. size' -> 1 .. size'] :
          /\ \A i, j \in 1 .. size' : i < j => order[i] # order[j]
          /\ \A i, j \in 1 .. size' : i < j => Number[map][order[places[i]]] < Number[map][order[places[j]]]
          /\ slots' = [k \in Slots |-> IF k <= size' THEN NewCourse(order[k]) ELSE slots[k]]
          /\ sortedCourses' = places
    BY DEF OnCreateLoadingSpawnGroup
<1>3. \A c \in Courses : NewCourse(c) \in Descriptor /\ NewCourse(c).name = c /\ NewCourse(c).checkpointCount = 0
    BY MapAssumption DEF NewCourse, Descriptor
<1>4. \A i, j \in 1 .. size' : places[i] = places[j] => i = j
    <2> SUFFICES ASSUME NEW i \in 1 .. size', NEW j \in 1 .. size', places[i] = places[j], i < j
                 PROVE  FALSE
        BY <1>1
    <2>1. Number[map][order[places[i]]] \in Nat
        BY <1>1, MapAssumption
    <2> QED BY <1>2, <2>1
<1>5. \A k \in 1 .. size' : \E i \in 1 .. size' : places[i] = k
    <2> DEFINE N == 1 .. size'
    <2>1. IsFiniteSet(N)
        <3>1. 1 \in Int /\ size' \in Int
            BY <1>1
        <3> QED BY <3>1, FS_Interval
    <2>2. places \in [N -> N] /\ DOMAIN places = N
        BY places \in [1 .. size' -> 1 .. size']
    <2>3. \A i, j \in N : places[i] = places[j] => i = j
        BY <1>4
    <2> HIDE DEF N
    <2>4. places \in Injection(N, N)
        BY <2>2, <2>3 DEF Injection, IsInjective
    <2>5. places \in Surjection(N, N)
        BY <2>1, <2>4, FS_Injection
    <2>6. \A k \in N : \E i \in N : places[i] = k
        BY <2>5 DEF Surjection
    <2> QED BY <2>6 DEF N
<1>6. /\ slots' \in [Slots -> Descriptor] /\ 1 .. size' \subseteq Slots
      /\ \A k \in 1 .. size' : slots'[k].name = order[k] /\ slots'[k].checkpointCount = 0
    <2>1. Slots = 1 .. Cardinality(Courses) /\ 1 .. size' \subseteq Slots
        BY <1>1 DEF Slots
    <2>2. \A k \in Slots : slots[k] \in Descriptor
        BY DEF CourseInv
    <2>3. \A k \in 1 .. size' : order[k] \in Courses
        BY <1>1
    <2>4. \A k \in Slots : (IF k <= size' THEN NewCourse(order[k]) ELSE slots[k]) \in Descriptor
        BY <1>1, <1>3, <2>1, <2>2, <2>3
    <2>5. \A k \in 1 .. size' : slots'[k] = NewCourse(order[k])
        BY <1>1, <1>2, <2>1
    <2> QED BY <1>2, <1>3, <2>1, <2>3, <2>4, <2>5
<1>7. sortedCourses' \in Seq(Slots) /\ Len(sortedCourses') = size'
    BY <1>1, <1>2, <1>6
<1>8. \A i, j \in 1 .. size' : slots'[i].name = slots'[j].name => i = j
    <2>1. \A i, j \in 1 .. size' : order[i] = order[j] => i = j
        BY <1>1, <1>2
    <2> QED BY <1>6, <2>1
<1>9. \A k \in 1 .. size' : slots'[k].name \in Courses
    BY <1>1, <1>6
<1>10. ListInv'
    <2>1. \A i \in 1 .. Len(sortedCourses') : sortedCourses'[i] \in 1 .. size'
        BY <1>2, <1>7
    <2>2. \A i \in 1 .. Len(sortedCourses') : slots'[sortedCourses'[i]].name \in Courses
        BY <1>9, <2>1
    <2>3. size' <= Len(sortedCourses')
        BY <1>1, <1>7
    <2>4. /\ \A i, j \in 1 .. size' : sortedCourses'[i] = sortedCourses'[j] => i = j
          /\ \A k \in 1 .. size' : \E i \in 1 .. size' : sortedCourses'[i] = k
        BY <1>2, <1>4, <1>5
    <2> QED BY <1>7, <1>8, <1>9, <2>1, <2>2, <2>3, <2>4 DEF ListInv, NoCourseRemoved
<1>11. SplitsHaveTheirZones'
    BY <1>6 DEF SplitsHaveTheirZones
<1> QED BY <1>1, <1>6, <1>7, <1>10, <1>11 DEF CourseInv

\* The list is about the names alone.
LEMMA SameNames ==
    ASSUME CourseInv, UNCHANGED <<size, sortedCourses>>, \A k \in Slots : slots'[k].name = slots[k].name
    PROVE  ListInv'
<1>1. 1 .. size \subseteq Slots /\ \A i \in 1 .. Len(sortedCourses) : sortedCourses[i] \in Slots
    BY SlotCount DEF CourseInv, Slots
<1> QED BY <1>1 DEF CourseInv, ListInv, NoCourseRemoved

\* Whatever changes IDs only leaves the courses as they are.
LEMMA SameCourses ==
    ASSUME CourseInv, UNCHANGED <<map, size, sortedCourses>>, slots' \in [Slots -> Descriptor],
           \A k \in Slots : /\ slots'[k].name = slots[k].name
                            /\ slots'[k].checkpointCount = slots[k].checkpointCount
    PROVE  CourseInv'
<1>1. 1 .. size \subseteq Slots
    BY SlotCount DEF CourseInv, Slots
<1>2. SplitsHaveTheirZones'
    BY <1>1 DEF CourseInv, SplitsHaveTheirZones, Zones
<1> QED BY <1>2, SameNames DEF CourseInv

\* The first of the list with a name has the name.
LEMMA FirstIsNamed ==
    ASSUME NEW name, sortedCourses \in Seq(Slots), Named(name) # {}
    PROVE  FirstNamed(name) \in Named(name)
<1>1. Named(name) \subseteq Nat
    BY DEF Named
<1>2. \E i \in Named(name) : \A j \in Named(name) : i <= j
    BY <1>1, HasLowest
<1> QED BY <1>2 DEF FirstNamed

\* An answer for the courses gives IDs to courses with a name only, and, as
\* long as no course was removed, the right ID to every one it is about.
LEMMA CoursesAnswered ==
    ASSUME CourseInv, NEW request \in Request, rows \in [Maps -> SUBSET Courses], CoursesAnswer(request),
           UNCHANGED <<map, size, sortedCourses>>
    PROVE  /\ CourseInv' /\ rows' \in [Maps -> SUBSET Courses]
           /\ \A k \in Slots :
                 /\ slots'[k].name = slots[k].name
                 /\ slots'[k].localDatabaseID \in
                        {slots[k].localDatabaseID, <<request.of, Number[request.of][slots[k].name]>>}
           /\ NoCourseRemoved /\ (\A k \in 1 .. size : slots[k].name \in request.courses) =>
                 \A k \in 1 .. size :
                    slots'[k].localDatabaseID = <<request.of, Number[request.of][slots[k].name]>>
<1> DEFINE found == rows[request.of] \cup request.courses
           Updated(k) == \E name \in found : Named(name) # {} /\ sortedCourses[FirstNamed(name)] = k
           ID(k) == <<request.of, Number[request.of][slots[k].name]>>
<1>1. request.of \in Maps /\ request.courses \subseteq Courses /\ found \subseteq Courses
    BY DEF Request
<1>2. slots' = [k \in Slots |-> IF Updated(k) THEN [slots[k] EXCEPT !.localDatabaseID = ID(k)] ELSE slots[k]]
    BY DEF CoursesAnswer
<1>3. rows' = [rows EXCEPT ![request.of] = found]
    BY DEF CoursesAnswer
<1>4. \A k \in Slots : Updated(k) => slots[k].name \in Courses
    <2> SUFFICES ASSUME NEW k \in Slots, NEW name \in found, Named(name) # {}, sortedCourses[FirstNamed(name)] = k
                 PROVE  slots[k].name \in Courses
        OBVIOUS
    <2>1. FirstNamed(name) \in Named(name)
        BY FirstIsNamed DEF CourseInv
    <2> QED BY <1>1, <2>1 DEF Named
<1>5. \A k \in Slots : slots[k] \in Descriptor
    BY DEF CourseInv
<1>6. \A k \in Slots : Updated(k) => ID(k) \in Maps \X Nat
    BY <1>1, <1>4, MapAssumption
<1>7. ASSUME NoCourseRemoved, \A k \in 1 .. size : slots[k].name \in request.courses, NEW k \in 1 .. size
      PROVE  Updated(k) /\ k \in Slots
    <2>1. k \in Slots
        BY SlotCount DEF CourseInv, Slots
    <2>2. PICK i \in 1 .. size : sortedCourses[i] = k
        BY <1>7 DEF CourseInv, ListInv
    <2>3. i \in Named(slots[k].name)
        BY <1>7, <2>2 DEF Named, NoCourseRemoved
    <2>4. FirstNamed(slots[k].name) \in Named(slots[k].name)
        BY <2>3, FirstIsNamed DEF CourseInv
    <2>5. sortedCourses[FirstNamed(slots[k].name)] = k
        <3>1. PICK j \in Named(slots[k].name) : j = FirstNamed(slots[k].name)
            BY <2>4
        <3>2. j \in 1 .. size /\ slots[sortedCourses[j]].name = slots[k].name
            BY <1>7, <3>1 DEF Named, NoCourseRemoved
        <3>3. sortedCourses[j] \in 1 .. size
            BY <1>7, <3>2 DEF CourseInv, ListInv
        <3>4. sortedCourses[j] = k
            BY <1>7, <3>2, <3>3 DEF CourseInv, ListInv
        <3> QED BY <3>1, <3>4
    <2> QED BY <1>7, <2>1, <2>3, <2>5
<1> HIDE DEF Updated, ID
<1>8. \A k \in Slots : /\ slots'[k] \in Descriptor /\ slots'[k].name = slots[k].name
                       /\ slots'[k].checkpointCount = slots[k].checkpointCount
                       /\ slots'[k].localDatabaseID = IF Updated(k) THEN ID(k) ELSE slots[k].localDatabaseID
    BY <1>2, <1>5, <1>6 DEF Descriptor
<1>9. slots' \in [Slots -> Descriptor]
    BY <1>2, <1>8
<1>10. CourseInv'
    BY <1>8, <1>9, SameCourses
<1>11. rows' \in [Maps -> SUBSET Courses]
    BY <1>1, <1>3
<1> QED BY <1>7, <1>8, <1>10, <1>11 DEF ID

\* A round start counts what it has found valid, and moves the last course over
\* the one it removes.
LEMMA CoursesCounted ==
    ASSUME CourseInv, OnRoundStart
    PROVE  /\ CourseInv'
           /\ \/ ~NoCourseRemoved'
              \/ /\ size' = size
                 /\ \A k \in Slots : /\ slots'[k].name = slots[k].name
                                     /\ slots'[k].localDatabaseID = slots[k].localDatabaseID
<1>1. PICK seen \in {1 .. MaxCheckpoint, 1 .. MaxCheckpoint - 1}, last \in 0 .. size :
          /\ \A k \in 1 .. last : Valid(k, seen)
          /\ size' = IF last < size THEN size - 1 ELSE size
          /\ slots' = [k \in Slots |->
                          CASE k <= last -> [slots[k] EXCEPT !.checkpointCount = Highest(k)]
                            [] k = last + 1 /\ last < size -> slots[size]
                            [] OTHER -> slots[k]]
    BY DEF OnRoundStart
<1>2. /\ size \in Nat /\ last \in Nat /\ 1 .. size \subseteq Slots /\ Slots \subseteq Nat
      /\ Cardinality(Courses) \in Nat
      /\ \A i \in 1 .. Len(sortedCourses) : sortedCourses[i] \in Slots
    BY SlotCount DEF CourseInv, Slots
<1>3. /\ \A k \in Slots : k <= last => slots'[k] = [slots[k] EXCEPT !.checkpointCount = Highest(k)]
      /\ \A k \in Slots : k > last + 1 \/ (k = last + 1 /\ last = size) => slots'[k] = slots[k]
      /\ last < size => slots'[last + 1] = slots[size]
    BY <1>1, <1>2
<1>4. \A k \in Slots : k <= last \/ k > last + 1 \/ (k = last + 1 /\ last = size) \/ (k = last + 1 /\ last < size)
    BY <1>2
<1>5. \A k \in Slots : slots[k] \in Descriptor
    BY DEF CourseInv
<1>6. \A k \in Slots : k <= last =>
          /\ slots'[k] \in Descriptor /\ slots'[k].name = slots[k].name
          /\ slots'[k].localDatabaseID = slots[k].localDatabaseID
          /\ slots'[k].checkpointCount = Highest(k)
    <2> SUFFICES ASSUME NEW k \in Slots, k <= last
                 PROVE  /\ slots'[k] \in Descriptor /\ slots'[k].name = slots[k].name
                        /\ slots'[k].localDatabaseID = slots[k].localDatabaseID
                        /\ slots'[k].checkpointCount = Highest(k)
        OBVIOUS
    <2>1. Highest(k) \in 0 .. MaxCheckpoint /\ slots[k] \in Descriptor
        BY <1>5, HighestIsNumber
    <2> QED BY <1>3, <2>1 DEF Descriptor
<1>7. slots' \in [Slots -> Descriptor]
    <2>1. \A k \in Slots : slots'[k] \in Descriptor
        BY <1>2, <1>3, <1>4, <1>5, <1>6
    <2>2. DOMAIN slots' = Slots /\ slots' = [k \in Slots |-> slots'[k]]
        BY <1>1
    <2> QED BY <2>1, <2>2
<1>8. map' = map /\ sortedCourses' = sortedCourses /\ size' \in 0 .. Cardinality(Courses) /\ size' <= size
    BY <1>1, <1>2 DEF OnRoundStart, mapVars, CourseInv
<1>9. SplitsHaveTheirZones'
    <2> SUFFICES ASSUME NEW k \in 1 .. size'
                 PROVE  1 .. slots'[k].checkpointCount \subseteq Checkpoints[map][slots'[k].name]
        BY <1>8 DEF SplitsHaveTheirZones, Zones
    <2>1. k \in Slots /\ k \in 1 .. size
        BY <1>2, <1>8
    <2>2. CASE k <= last
        <3>1. k \in 1 .. last
            BY <1>2, <2>1, <2>2
        <3>2. 1 .. Highest(k) \subseteq Zones(k)
            BY <1>1, <3>1 DEF Valid
        <3> QED BY <1>6, <2>1, <2>2, <3>2 DEF Zones
    <2>3. CASE k = last + 1 /\ last < size
        <3>1. size \in 1 .. size /\ slots'[k] = slots[size]
            BY <1>2, <1>3, <2>3
        <3> QED BY <3>1 DEF CourseInv, SplitsHaveTheirZones, Zones
    <2>4. CASE k > last + 1 \/ (k = last + 1 /\ last = size)
        BY <1>3, <2>1, <2>4 DEF CourseInv, SplitsHaveTheirZones, Zones
    <2> QED BY <1>4, <2>1, <2>2, <2>3, <2>4
<1>10. CASE last = size
    <2>1. size' = size /\ \A k \in Slots : /\ slots'[k].name = slots[k].name
                                           /\ slots'[k].localDatabaseID = slots[k].localDatabaseID
        BY <1>1, <1>2, <1>3, <1>4, <1>6, <1>10
    <2> QED BY <1>7, <1>8, <1>9, <2>1, SameNames DEF CourseInv
<1>11. CASE last < size
    <2>1. size' = size - 1
        BY <1>1, <1>11
    <2>2. \A k \in Slots : slots[k].name \in Courses => slots'[k].name \in Courses
        <3>1. slots[size].name \in Courses
            BY <1>2, <1>11 DEF CourseInv, ListInv
        <3> QED BY <1>3, <1>4, <1>6, <1>11, <3>1
    <2>3. size' <= Len(sortedCourses) /\ Len(sortedCourses) # size'
        BY <1>2, <2>1 DEF CourseInv, ListInv
    <2>4. ~NoCourseRemoved'
        BY <1>8, <2>3 DEF NoCourseRemoved
    <2>5. \A k \in 1 .. size' : k \in Slots /\ slots[k].name \in Courses
        BY <1>2, <1>8 DEF CourseInv, ListInv
    <2>6. ListInv'
        BY <1>2, <1>8, <2>2, <2>3, <2>4, <2>5 DEF CourseInv, ListInv
    <2> QED BY <1>7, <1>8, <1>9, <2>4, <2>6 DEF CourseInv
<1> QED BY <1>2, <1>10, <1>11

(***************************************************************************)
(* MapSetup: the database.                                                 *)
(***************************************************************************)
LEMMA Loads ==
    ASSUME NEW q \in Seq(Request)
    PROVE  \A i \in 1 .. Len(q) : q[i] \in Request /\ q[i].load \in Nat
<1>1. \A i \in 1 .. Len(q) : q[i] \in Request
    OBVIOUS
<1>2. \A r \in Request : r.load \in Nat
    BY DEF Request
<1> QED BY <1>1, <1>2

\* An answer takes the first transaction off, and leaves the order as it is.
LEMMA QueueShorter ==
    ASSUME NEW q \in Seq(Request), q # <<>>, NEW load \in Nat, NEW done \in BOOLEAN, NEW now \in BOOLEAN,
           NEW m, NEW active, NEW names, InOrder(q, load, done, m, active, names),
           now => done \/ Head(q).load = load
    PROVE  InOrder(Tail(q), load, now, m, active, names)
<1> DEFINE n == Len(q)
<1>1. /\ Tail(q) \in Seq(Request) /\ Len(Tail(q)) = n - 1 /\ n \in Nat /\ n >= 1 /\ q[1] = Head(q)
      /\ \A i \in 1 .. n - 1 : Tail(q)[i] = q[i + 1]
    BY Answered
<1>2. \A i \in 1 .. n : q[i].load \in Nat
    BY Loads
<1> SUFFICES ASSUME NEW i \in 1 .. n - 1
             PROVE  /\ Tail(q)[i].load <= load
                    /\ \A j \in i .. n - 1 : Tail(q)[i].load <= Tail(q)[j].load
                    /\ now => Tail(q)[i].load = load
                    /\ Tail(q)[i].load = load => Fits(Tail(q)[i], m, active, names)
    BY <1>1 DEF InOrder
<1>3. i + 1 \in 1 .. n /\ 1 \in 1 .. n /\ i + 1 \in 1 .. n /\ \A j \in i .. n - 1 : j + 1 \in i + 1 .. n
    BY <1>1
<1>4. /\ q[i + 1].load <= load /\ q[1].load <= q[i + 1].load
      /\ done => q[i + 1].load = load
      /\ q[i + 1].load = load => Fits(q[i + 1], m, active, names)
      /\ \A j \in i .. n - 1 : q[i + 1].load <= q[j + 1].load
    BY <1>1, <1>3 DEF InOrder
<1>5. now => q[i + 1].load = load
    BY <1>1, <1>2, <1>3, <1>4
<1>6. \A j \in i .. n - 1 : Tail(q)[j] = q[j + 1]
    BY <1>1
<1> QED BY <1>1, <1>4, <1>5, <1>6

\* What fits may be asked at the end.
LEMMA QueueLonger ==
    ASSUME NEW q \in Seq(Request), NEW load \in Nat, NEW done \in BOOLEAN, NEW m, NEW active, NEW names,
           InOrder(q, load, done, m, active, names),
           NEW r \in Request, r.load = load, Fits(r, m, active, names)
    PROVE  InOrder(Append(q, r), load, done, m, active, names)
<1> DEFINE n == Len(q)
           p == Append(q, r)
<1>1. Len(p) = n + 1 /\ n \in Nat /\ p[n + 1] = r /\ \A i \in 1 .. n : p[i] = q[i]
    BY Asked
<1>2. \A i \in 1 .. n : q[i].load \in Nat
    BY Loads
<1> HIDE DEF p
<1> SUFFICES ASSUME NEW i \in 1 .. n + 1
             PROVE  /\ p[i].load <= load
                    /\ \A j \in i .. n + 1 : p[i].load <= p[j].load
                    /\ done => p[i].load = load
                    /\ p[i].load = load => Fits(p[i], m, active, names)
    BY <1>1 DEF InOrder, p
<1>3. CASE i = n + 1
    <2>1. \A j \in i .. n + 1 : j = n + 1
        BY <1>1, <1>3
    <2> QED BY <1>1, <1>3, <2>1
<1>4. CASE i \in 1 .. n
    <2>1. /\ q[i].load <= load /\ (done => q[i].load = load)
          /\ q[i].load = load => Fits(q[i], m, active, names)
          /\ \A j \in i .. n : q[i].load <= q[j].load
        BY <1>4 DEF InOrder
    <2>2. \A j \in i .. n + 1 : j = n + 1 \/ (j \in i .. n /\ j \in 1 .. n)
        BY <1>1, <1>4
    <2>3. \A j \in i .. n + 1 : q[i].load <= p[j].load
        BY <1>1, <2>1, <2>2
    <2> QED BY <1>1, <1>4, <2>1, <2>3
<1> QED BY <1>1, <1>3, <1>4

\* What fits still fits when the map becomes active, or when fewer names count.
LEMMA QueueRests ==
    ASSUME NEW q \in Seq(Request), NEW load, NEW done, NEW m, NEW active \in BOOLEAN, NEW names,
           NEW then \in BOOLEAN, NEW fewer, active => then /\ fewer \subseteq names,
           InOrder(q, load, done, m, active, names)
    PROVE  InOrder(q, load, done, m, then, fewer)
BY DEF InOrder, Fits

\* When another map is loaded, nothing that was asked is of the new load.
LEMMA QueueOlder ==
    ASSUME NEW q \in Seq(Request), NEW load \in Nat, NEW done, NEW m, NEW active, NEW names,
           InOrder(q, load, done, m, active, names),
           NEW other, NEW then, NEW them
    PROVE  InOrder(q, load + 1, FALSE, other, then, them)
<1>1. \A i \in 1 .. Len(q) : q[i].load \in Nat /\ q[i].load <= load
    BY Loads DEF InOrder
<1>2. \A i \in 1 .. Len(q) : q[i].load <= load + 1 /\ q[i].load # load + 1
    BY <1>1
<1> QED BY <1>2 DEF InOrder

(***************************************************************************)
(* MapSetup: the steps.                                                    *)
(***************************************************************************)
LEMMA SetupInit ==
    ASSUME Init
    PROVE  SetupInv /\ SplitsHaveTheirZones
<1> USE DEF Init
<1>1. Cardinality(Courses) \in Nat
    BY SlotCount
<1>2. NewCourse(None) \in Descriptor
    BY MapAssumption DEF NewCourse, Descriptor
<1>3. TypeOK
    <2>1. slots \in [Slots -> Descriptor]
        BY <1>2 DEF NoCourses
    <2>2. sortedCourses \in Seq(Slots) /\ requests \in Seq(Request)
        OBVIOUS
    <2>3. size \in 0 .. Cardinality(Courses) /\ rows \in [Maps -> SUBSET Courses] /\ map \in Maps /\ loads \in Nat
        BY <1>1
    <2>4. {loading, apiVersionLoaded, roundIsStarting, spawned, localDBConnected, mapSetUp, registered} \subseteq BOOLEAN
          /\ currentMapID \in Maps \cup {None}
        OBVIOUS
    <2> HIDE DEF Init
    <2> QED BY <2>1, <2>2, <2>3, <2>4 DEF TypeOK
<1>4. ListInv
    BY DEF ListInv, NoCourseRemoved
<1> QED BY <1>3, <1>4 DEF SetupInv, QueueInv, InOrder, PlaceInv, IDsAreOfThisMap, SplitsHaveTheirZones

\* The parts that a step does not touch.
LEMMA CourseInvRests ==
    ASSUME CourseInv, UNCHANGED <<map, slots, size, sortedCourses>>
    PROVE  CourseInv' /\ Names' = Names
BY DEF CourseInv, ListInv, NoCourseRemoved, SplitsHaveTheirZones, Zones, Names

LEMMA SetupStep ==
    ASSUME SetupInv, SplitsHaveTheirZones, [Next]_vars
    PROVE  SetupInv' /\ SplitsHaveTheirZones'
<1>0. CourseInv
    BY DEF SetupInv, CourseInv, TypeOK
<1>1. CASE UNCHANGED vars
    <2> USE <1>1 DEF vars, mapVars, courseVars, roundVars, dbVars
    <2>1. TypeOK' /\ PlaceInv' /\ IDsAreOfThisMap'
        BY DEF SetupInv, TypeOK, PlaceInv, IDsAreOfThisMap, NoCourseRemoved
    <2>2. QueueInv'
        BY <1>0, CourseInvRests DEF SetupInv, QueueInv
    <2> QED BY <1>0, <2>1, <2>2, CourseInvRests DEF SetupInv, CourseInv
<1>2. ASSUME NEW m \in Maps, StartupServer(m)
      PROVE  SetupInv' /\ SplitsHaveTheirZones'
    <2> USE DEF StartupServer
    <2>1. NewCourse(None) \in Descriptor
        BY MapAssumption DEF NewCourse, Descriptor
    <2>2. TypeOK'
        <3>1. slots' \in [Slots -> Descriptor]
            BY <1>2, <2>1 DEF NoCourses
        <3>2. sortedCourses' \in Seq(Slots)
            BY <1>2
        <3>3. size' \in 0 .. Cardinality(Courses) /\ loads' \in Nat
            BY <1>2, SlotCount DEF SetupInv, TypeOK
        <3>4. /\ {loading', apiVersionLoaded', roundIsStarting', spawned', registered'} \subseteq BOOLEAN
              /\ map' \in Maps /\ UNCHANGED <<localDBConnected, mapSetUp, currentMapID, requests, rows>>
            BY <1>2
        <3> HIDE DEF StartupServer
        <3> QED BY <3>1, <3>2, <3>3, <3>4 DEF SetupInv, TypeOK
    <2>3. ListInv'
        BY <1>2 DEF ListInv, NoCourseRemoved
    <2>4. QueueInv'
        BY <1>2, QueueOlder DEF SetupInv, TypeOK, QueueInv
    <2> QED BY <1>2, <2>2, <2>3, <2>4 DEF SetupInv, PlaceInv, IDsAreOfThisMap, SplitsHaveTheirZones
<1>3. CASE OnCreateLoadingSpawnGroup
    <2>1. CourseInv'
        BY <1>0, <1>3, CoursesCreated
    <2>2. loading /\ UNCHANGED <<mapVars, roundVars, dbVars>> /\ apiVersionLoaded' = TRUE
        BY <1>3 DEF OnCreateLoadingSpawnGroup
    <2>3. QueueInv'
        BY <2>2, QueueRests DEF SetupInv, TypeOK, QueueInv, mapVars, dbVars
    <2>4. TypeOK'
        BY <2>1, <2>2 DEF SetupInv, TypeOK, CourseInv, mapVars, roundVars, dbVars
    <2> QED BY <2>1, <2>2, <2>3, <2>4 DEF SetupInv, CourseInv, PlaceInv, IDsAreOfThisMap, mapVars, roundVars, dbVars
<1>4. CASE ActivateServer \/ DatabaseReady
    <2>1. \E ready \in BOOLEAN : SetupMap(ready)
        BY <1>4 DEF ActivateServer, DatabaseReady, SetupInv, TypeOK
    <2>2. /\ UNCHANGED <<map, loads, courseVars, roundVars, currentMapID, rows, registered>>
          /\ loading' \in BOOLEAN /\ localDBConnected' \in BOOLEAN /\ (loading' => loading)
          /\ loading \/ loading' = loading
        <3>1. CASE ActivateServer
            BY <3>1 DEF ActivateServer, SetupInv, TypeOK
        <3>2. CASE DatabaseReady
            BY <3>2 DEF DatabaseReady, SetupInv, TypeOK, mapVars
        <3> QED BY <1>4, <3>1, <3>2
    <2>3. mapSetUp' = FALSE /\ (requests' = requests \/ requests' = Append(requests, MapRequest))
        BY <2>1 DEF SetupMap
    <2>4. MapRequest \in Request /\ MapRequest.load = loads /\ Fits(MapRequest, map, ~loading', Names)
        BY DEF SetupInv, TypeOK, MapRequest, Request, Fits
    <2>5. CourseInv' /\ Names' = Names
        BY <1>0, <2>2, CourseInvRests DEF courseVars
    <2>6. InOrder(requests, loads, registered, map, ~loading', Names)
        BY <2>2, QueueRests DEF SetupInv, TypeOK, QueueInv
    <2>7. requests' \in Seq(Request) /\ InOrder(requests', loads, registered, map, ~loading', Names)
        <3>1. requests \in Seq(Request) /\ loads \in Nat /\ registered \in BOOLEAN
            BY DEF SetupInv, TypeOK
        <3>2. Append(requests, MapRequest) \in Seq(Request)
            BY <2>4, <3>1, Asked
        <3>3. InOrder(Append(requests, MapRequest), loads, registered, map, ~loading', Names)
            BY <2>4, <2>6, <3>1, QueueLonger
        <3> QED BY <2>3, <2>6, <3>1, <3>2, <3>3
    <2>8. QueueInv'
        BY <2>2, <2>5, <2>7 DEF QueueInv
    <2>9. TypeOK'
        BY <2>2, <2>3, <2>5, <2>7 DEF SetupInv, TypeOK, courseVars, roundVars
    <2>10. PlaceInv' /\ IDsAreOfThisMap'
        BY <2>2, <2>3 DEF SetupInv, PlaceInv, IDsAreOfThisMap, NoCourseRemoved, courseVars, roundVars
    <2> QED BY <2>5, <2>8, <2>9, <2>10 DEF SetupInv, CourseInv
<1>6. CASE Answer
    <2> DEFINE request == Head(requests)
    <2>1. /\ requests # <<>> /\ requests' = Tail(requests) /\ requests \in Seq(Request)
          /\ UNCHANGED <<mapVars, apiVersionLoaded, size, sortedCourses, roundVars, localDBConnected>>
        BY <1>6 DEF Answer, SetupInv, TypeOK
    <2>2. request \in Request /\ request = requests[1] /\ 1 \in 1 .. Len(requests) /\ requests' \in Seq(Request)
        BY <2>1, Answered
    <2>3. /\ request.load = loads => Fits(request, map, ~loading, Names)
          /\ registered => request.load = loads
        BY <2>2 DEF SetupInv, QueueInv, InOrder
    <2>4. /\ registered \in BOOLEAN /\ map \in Maps /\ rows \in [Maps -> SUBSET Courses]
          /\ InOrder(requests, loads, registered, map, ~loading, Names) /\ loads \in Nat
        BY DEF SetupInv, TypeOK, QueueInv
    <2>5. request.of \in Maps
        BY <2>2 DEF Request
    <2> HIDE DEF request
    <2>6. ASSUME UNCHANGED <<rows, slots, registered>>, mapSetUp' \in BOOLEAN, currentMapID' \in Maps \cup {None},
                 ~loading /\ mapSetUp' => currentMapID' = map
          PROVE  SetupInv' /\ SplitsHaveTheirZones'
        <3>1. CourseInv' /\ Names' = Names
            BY <1>0, <2>1, <2>6, CourseInvRests DEF mapVars
        <3>2. QueueInv'
            BY <2>1, <2>4, <2>6, <3>1, QueueShorter DEF QueueInv, mapVars
        <3>3. TypeOK'
            BY <2>1, <2>2, <2>6, <3>1 DEF SetupInv, TypeOK, mapVars, roundVars
        <3>4. PlaceInv' /\ IDsAreOfThisMap'
            BY <2>1, <2>6 DEF SetupInv, PlaceInv, IDsAreOfThisMap, NoCourseRemoved, mapVars, roundVars
        <3> QED BY <3>1, <3>2, <3>3, <3>4 DEF SetupInv, CourseInv
    <2>7. CASE request.kind = "map" /\ MapAnswer(request)
        <3>1. mapSetUp' \in BOOLEAN /\ currentMapID' \in Maps \cup {None} /\ (~loading /\ mapSetUp' => currentMapID' = map)
            BY <2>5, <2>7 DEF MapAnswer, SetupInv, TypeOK, IDsAreOfThisMap
        <3> QED BY <2>6, <2>7, <3>1 DEF MapAnswer
    <2>8. CASE request.kind = "courses" /\ CoursesAnswer(request)
        <3>1. /\ CourseInv' /\ rows' \in [Maps -> SUBSET Courses]
              /\ \A k \in Slots :
                    /\ slots'[k].name = slots[k].name
                    /\ slots'[k].localDatabaseID \in
                           {slots[k].localDatabaseID, <<request.of, Number[request.of][slots[k].name]>>}
              /\ NoCourseRemoved /\ (\A k \in 1 .. size : slots[k].name \in request.courses) =>
                    \A k \in 1 .. size :
                       slots'[k].localDatabaseID = <<request.of, Number[request.of][slots[k].name]>>
            BY <1>0, <2>1, <2>2, <2>4, <2>8, CoursesAnswered DEF mapVars
        <3>2. 1 .. size \subseteq Slots
            BY SlotCount DEF SetupInv, TypeOK, Slots
        <3>3. Names' = Names
            BY <2>1, <3>1, <3>2 DEF Names, NoCourseRemoved
        <3>4. registered' = (registered \/ request.load = loads) /\ UNCHANGED <<mapSetUp, currentMapID>>
            BY <2>8 DEF CoursesAnswer
        <3>5. QueueInv'
            BY <2>1, <2>4, <3>3, <3>4, QueueShorter DEF QueueInv, mapVars, request
        <3>6. registered' => request.load = loads /\ ~loading /\ request.of = map /\ Names \subseteq request.courses
            BY <2>3, <2>8, <3>4 DEF Fits
        <3>7. TypeOK'
            BY <2>1, <2>2, <2>4, <3>1, <3>4 DEF SetupInv, TypeOK, CourseInv, mapVars, roundVars
        <3>8. PlaceInv'
            BY <2>1, <3>6 DEF SetupInv, PlaceInv, mapVars, roundVars
        <3>9. IDsAreOfThisMap'
            <4>1. ASSUME registered', NoCourseRemoved, NEW k \in 1 .. size
                  PROVE  slots'[k].localDatabaseID = <<map, Number[map][slots'[k].name]>>
                <5>1. \A j \in 1 .. size : slots[j].name \in request.courses
                    BY <3>6, <4>1 DEF Names
                <5> QED BY <3>1, <3>2, <3>6, <4>1, <5>1
            <4> QED BY <2>1, <3>4, <4>1 DEF SetupInv, IDsAreOfThisMap, NoCourseRemoved, mapVars
        <3> QED BY <3>1, <3>5, <3>7, <3>8, <3>9 DEF SetupInv, CourseInv
    <2>9. CASE UNCHANGED <<mapSetUp, currentMapID, rows, slots, registered>>
        BY <2>6, <2>9 DEF SetupInv, TypeOK, IDsAreOfThisMap
    <2> QED BY <1>6, <2>7, <2>8, <2>9 DEF Answer, request
<1>7. CASE OnRoundPreStart \/ OnSpawn
    <2>1. UNCHANGED <<mapVars, courseVars, dbVars>> /\ roundIsStarting' \in BOOLEAN /\ spawned' \in BOOLEAN
          /\ (roundIsStarting' => ~loading)
        BY <1>7 DEF OnRoundPreStart, OnSpawn, SetupInv, TypeOK, PlaceInv
    <2>2. CourseInv' /\ Names' = Names
        BY <1>0, <2>1, CourseInvRests DEF mapVars, courseVars
    <2>3. QueueInv'
        BY <2>1, <2>2 DEF SetupInv, QueueInv, mapVars, dbVars
    <2>4. TypeOK' /\ PlaceInv' /\ IDsAreOfThisMap'
        BY <2>1 DEF SetupInv, TypeOK, PlaceInv, IDsAreOfThisMap, NoCourseRemoved, mapVars, courseVars, dbVars
    <2> QED BY <2>2, <2>3, <2>4 DEF SetupInv, CourseInv
<1>8. CASE OnRoundStart
    <2>1. /\ roundIsStarting /\ roundIsStarting' = FALSE /\ SetupLocalCourses
          /\ UNCHANGED <<mapVars, apiVersionLoaded, sortedCourses, spawned, localDBConnected, mapSetUp, currentMapID,
                         rows, registered>>
        BY <1>8 DEF OnRoundStart
    <2>2. ~loading /\ (mapSetUp => currentMapID = map) /\ map \in Maps
        BY <2>1 DEF SetupInv, TypeOK, PlaceInv, IDsAreOfThisMap
    <2>3. /\ CourseInv'
          /\ \/ ~NoCourseRemoved'
             \/ /\ size' = size
                /\ \A k \in Slots : /\ slots'[k].name = slots[k].name
                                    /\ slots'[k].localDatabaseID = slots[k].localDatabaseID
        BY <1>0, <1>8, CoursesCounted
    <2>4. 1 .. size \subseteq Slots
        BY SlotCount DEF SetupInv, TypeOK, Slots
    <2>5. Names' \subseteq Names
        BY <2>1, <2>3, <2>4 DEF Names, NoCourseRemoved
    <2>6. mapSetUp => /\ CoursesRequest \in Request /\ CoursesRequest.load = loads
                      /\ Fits(CoursesRequest, map, ~loading, Names)
        <3> DEFINE listed == {slots[sortedCourses[i]].name : i \in 1 .. Len(sortedCourses)}
        <3>1. listed \subseteq Courses
            BY DEF SetupInv, ListInv
        <3>2. Names \subseteq listed
            <4> SUFFICES ASSUME NoCourseRemoved, NEW k \in 1 .. size PROVE slots[k].name \in listed
                BY DEF Names
            <4>1. PICK i \in 1 .. size : sortedCourses[i] = k
                BY DEF SetupInv, ListInv
            <4>2. i \in 1 .. Len(sortedCourses)
                BY DEF NoCourseRemoved
            <4> QED BY <4>1, <4>2
        <3>3. loads \in Nat
            BY DEF SetupInv, TypeOK
        <3> QED BY <2>2, <3>1, <3>2, <3>3 DEF CoursesRequest, Request, Fits
    <2>7. requests' = requests \/ (mapSetUp /\ requests' = Append(requests, CoursesRequest))
        BY <2>1 DEF SetupLocalCourses
    <2>8. requests' \in Seq(Request) /\ InOrder(requests', loads, registered, map, ~loading, Names)
        <3>1. requests \in Seq(Request) /\ loads \in Nat /\ registered \in BOOLEAN
            BY DEF SetupInv, TypeOK
        <3>2. InOrder(requests, loads, registered, map, ~loading, Names)
            BY DEF SetupInv, QueueInv
        <3>3. mapSetUp => Append(requests, CoursesRequest) \in Seq(Request)
            BY <2>6, <3>1, Asked
        <3>4. mapSetUp => InOrder(Append(requests, CoursesRequest), loads, registered, map, ~loading, Names)
            BY <2>6, <3>1, <3>2, QueueLonger
        <3> QED BY <2>7, <3>1, <3>2, <3>3, <3>4
    <2>9. QueueInv'
        BY <2>1, <2>5, <2>8, QueueRests DEF SetupInv, TypeOK, QueueInv, mapVars
    <2>10. TypeOK'
        BY <2>1, <2>3, <2>8 DEF SetupInv, TypeOK, CourseInv, mapVars
    <2>11. PlaceInv' /\ IDsAreOfThisMap'
        BY <2>1, <2>2, <2>3, <2>4 DEF SetupInv, PlaceInv, IDsAreOfThisMap, NoCourseRemoved, mapVars
    <2> QED BY <2>3, <2>9, <2>10, <2>11 DEF SetupInv, CourseInv
<1> QED BY <1>1, <1>2, <1>3, <1>4, <1>6, <1>7, <1>8 DEF Next

LEMMA SetupInvHolds == Spec => [](SetupInv /\ SplitsHaveTheirZones)
<1>1. Init => SetupInv /\ SplitsHaveTheirZones
    BY SetupInit
<1>2. SetupInv /\ SplitsHaveTheirZones /\ [Next]_vars => (SetupInv /\ SplitsHaveTheirZones)'
    BY SetupStep
<1> QED BY <1>1, <1>2, PTL DEF Spec

\* Every variable of the map's setup has its type; what is counted is at most
\* MaxCheckpoint.
THEOREM SetupTyped == Spec => []TypeOK
<1>1. SetupInv => TypeOK
    BY DEF SetupInv
<1> QED BY <1>1, SetupInvHolds, PTL

\* A course only has as many splits as it has checkpoint zones numbered from 1
\* on.
THEOREM SplitsHaveZones == Spec => []SplitsHaveTheirZones
BY SetupInvHolds, PTL

\* The map ID is the map's, and the courses registered in this load have their
\* own IDs: the database answers in the order it was asked in, so that nothing
\* of the loads before is left when this load's courses are registered.
THEOREM IDsStayOwn == Spec => []IDsAreOfThisMap
<1>1. SetupInv => IDsAreOfThisMap
    BY DEF SetupInv
<1> QED BY <1>1, SetupInvHolds, PTL

(***************************************************************************)
(* TimeCaches: the inductive invariant.                                    *)
(***************************************************************************)
BestsOrdered ==
    \A m \in Map : /\ records[m].any <= records[m].plain
                   /\ \A s \in Steam : personal[s][m].any <= personal[s][m].plain

\* A run and the bests that are known are of who has the slot.
SlotInv ==
    /\ player # Nobody => userCount > 0
    /\ timerOn \/ pbKnown => player # Nobody
    /\ player = Nobody => localPBCache = Never

\* The transactions of the sessions up to the last, of the player who: those
\* of the last come after those of the others, which are gone when his bests
\* are known.
OfSessions(q, last, who, known) ==
    \A i \in 1 .. Len(q) :
        /\ q[i].user <= last
        /\ q[i].user # 0 => q[i].steam \in Steam
        /\ q[i].user = last /\ who # Nobody => q[i].steam = who
        /\ known => q[i].user \in {0, last}
        /\ q[i].user = last => \A j \in i .. Len(q) : q[j].user \in {0, last}

SessionInv == OfSessions(queries, userCount, player, pbKnown)

\* The course has the ID of this map's course, or none.
OwnCourse ==
    ~mixed => /\ courseID \in {NoMap, mapName}
              /\ srKnown \/ pbKnown => courseID = mapName

\* The cached times are not better than the best.
CacheBounds ==
    ~mixed => /\ records[mapName].any <= srCache
              /\ player # Nobody => personal[player][mapName].any <= localPBCache

\* Somebody will look at the records, at the bests of the player.
AsksRecords(q, m)    == \E i \in 1 .. Len(q) : q[i].kind = "records" /\ q[i].map = m
AsksPBs(q, m, user)  == \E i \in 1 .. Len(q) : q[i].kind = "pbs" /\ q[i].map = m /\ q[i].user = user

\* A time that is known is up to date, or is about to be looked at.
Renewed ==
    ~mixed =>
        /\ srKnown => srCache <= records[mapName].plain \/ AsksRecords(queries, mapName)
        /\ pbKnown => localPBCache <= personal[player][mapName].plain \/ AsksPBs(queries, mapName, userCount)

CacheInv ==
    /\ TypeOKCaches /\ BestsOrdered /\ SlotInv /\ SessionInv /\ OwnCourse
    /\ CacheBounds /\ Renewed /\ MissedTimesAreMissed

(***************************************************************************)
(* TimeCaches: times, levels and transactions.                             *)
(***************************************************************************)
LEMMA MinOfTwo ==
    ASSUME NEW a \in Int, NEW b \in Int
    PROVE  /\ Min({a, b}) \in {a, b} /\ Min({a, b}) <= a /\ Min({a, b}) <= b
<1>1. \E x \in {a, b} : \A y \in {a, b} : x <= y
    OBVIOUS
<1> QED BY <1>1 DEF Min

\* A best only gets better, and stays the better of the two.
LEMMA BetterIsBetter ==
    ASSUME NEW best \in Bests, NEW query \in Transaction
    PROVE  /\ Better(best, query) \in Bests
           /\ Better(best, query).any <= best.any /\ Better(best, query).plain <= best.plain
           /\ ~query.plain => Better(best, query).plain = best.plain
           /\ best.any <= best.plain => Better(best, query).any <= Better(best, query).plain
<1>1. /\ best.any \in 1 .. Never /\ best.plain \in 1 .. Never /\ query.time \in 1 .. Never
      /\ MaxRunTime \in Nat /\ Times \cup {Never} = 1 .. Never /\ 1 .. Never \subseteq Int
    BY CacheAssumption DEF Bests, Transaction, Times, Never
<1>2. /\ Min({best.any, query.time}) \in {best.any, query.time}
      /\ Min({best.any, query.time}) <= best.any /\ Min({best.any, query.time}) <= query.time
    BY <1>1, MinOfTwo
<1>3. /\ Min({best.plain, query.time}) \in {best.plain, query.time}
      /\ Min({best.plain, query.time}) <= best.plain /\ Min({best.plain, query.time}) <= query.time
    BY <1>1, MinOfTwo
<1>4. Better(best, query).any = Min({best.any, query.time})
    BY DEF Better
<1>5. Better(best, query).plain = IF query.plain THEN Min({best.plain, query.time}) ELSE best.plain
    BY DEF Better
<1>6. Better(best, query) \in Bests
    BY <1>1, <1>2, <1>3 DEF Better, Bests
<1> QED BY <1>1, <1>2, <1>3, <1>4, <1>5, <1>6

\* Nobody compares with more than the world record.
LEMMA LevelInRange ==
    ASSUME NEW preferred \in 0 .. 5
    PROVE  UpdateCurrentCompareType(preferred) \in NONE .. WR
<1> DEFINE S == {NONE} \cup {level \in 1 .. preferred : GetCompareTargetForType(level) # Never}
<1>1. GetCompareTargetForType(5) = Never
    BY DEF GetCompareTargetForType, SPB, GPB, SR
<1>2. S \subseteq 0 .. 4 /\ S # {}
    BY <1>1 DEF NONE
<1>3. \E h \in S : \A i \in S : i <= h
    BY <1>2, HasHighest
<1>4. Max(S) \in S
    <2>1. \E h \in S : \A i \in S : h >= i
        BY <1>2, <1>3
    <2> QED BY <2>1 DEF Max
<1> QED BY <1>2, <1>4 DEF UpdateCurrentCompareType, NONE, WR

LEMMA TwoAsked ==
    ASSUME NEW S, NEW q \in Seq(S), NEW a \in S, NEW b \in S
    PROVE  q \o <<a>> = Append(q, a) /\ q \o <<a, b>> = Append(Append(q, a), b)
OBVIOUS

LEMMA OneOrTwo ==
    ASSUME NEW S, NEW a \in S, NEW b \in S
    PROVE  <<a>> \o <<b>> = <<a, b>> /\ <<>> \o <<b>> = <<b>>
<1>1. <<a>> \o <<b>> = Append(<<a>>, b)
    <2> DEFINE q == <<a>>
    <2>1. q \in Seq(S)
        OBVIOUS
    <2> HIDE DEF q
    <2>2. q \o <<b>> = Append(q, b)
        BY <2>1, TwoAsked
    <2> QED BY <2>2 DEF q
<1>2. Append(<<a>>, b) = <<a, b>>
    <2>1. <<a>> \in Seq(S) /\ <<a, b>> \in Seq(S) /\ Append(<<a>>, b) \in Seq(S)
        OBVIOUS
    <2>2. Len(<<a>>) = 1 /\ <<a>>[1] = a /\ Len(<<a, b>>) = 2 /\ <<a, b>>[1] = a /\ <<a, b>>[2] = b
        OBVIOUS
    <2>3. Len(Append(<<a>>, b)) = 2 /\ Append(<<a>>, b)[1] = a /\ Append(<<a>>, b)[2] = b
        BY <2>1, <2>2
    <2>4. \A s, t \in Seq(S) : Len(s) = 2 /\ Len(t) = 2 /\ s[1] = t[1] /\ s[2] = t[2] => s = t
        OBVIOUS
    <2> QED BY <2>1, <2>2, <2>3, <2>4
<1>3. <<>> \o <<b>> = Append(<<>>, b)
    <2> DEFINE q == <<>>
    <2>1. q \in Seq(S)
        OBVIOUS
    <2> HIDE DEF q
    <2>2. q \o <<b>> = Append(q, b)
        BY <2>1, TwoAsked
    <2> QED BY <2>2 DEF q
<1>4. Append(<<>>, b) = <<b>>
    OBVIOUS
<1> QED BY <1>1, <1>2, <1>3, <1>4

\* An answer takes a transaction off, and leaves the sessions as they are; when
\* it is one of the last session, none of the others is left.
LEMMA SessionsAnswered ==
    ASSUME NEW q \in Seq(Transaction), q # <<>>, NEW last, NEW who, NEW known, NEW now,
           OfSessions(q, last, who, known), now => known \/ Head(q).user = last
    PROVE  OfSessions(Tail(q), last, who, now)
<1> DEFINE n == Len(q)
<1>1. /\ Len(Tail(q)) = n - 1 /\ n \in Nat /\ n >= 1 /\ q[1] = Head(q)
      /\ \A i \in 1 .. n - 1 : Tail(q)[i] = q[i + 1]
    BY Answered
<1> SUFFICES ASSUME NEW i \in 1 .. n - 1
             PROVE  /\ Tail(q)[i].user <= last
                    /\ Tail(q)[i].user # 0 => Tail(q)[i].steam \in Steam
                    /\ Tail(q)[i].user = last /\ who # Nobody => Tail(q)[i].steam = who
                    /\ now => Tail(q)[i].user \in {0, last}
                    /\ Tail(q)[i].user = last => \A j \in i .. n - 1 : Tail(q)[j].user \in {0, last}
    BY <1>1 DEF OfSessions
<1>2. i + 1 \in 1 .. n /\ i + 1 \in 1 .. n /\ 1 \in 1 .. n /\ \A j \in i .. n - 1 : j + 1 \in i + 1 .. n
    BY <1>1
<1>3. /\ q[i + 1].user <= last
      /\ q[i + 1].user # 0 => q[i + 1].steam \in Steam
      /\ q[i + 1].user = last /\ who # Nobody => q[i + 1].steam = who
      /\ q[1].user = last => q[i + 1].user \in {0, last}
      /\ known => q[i + 1].user \in {0, last}
      /\ q[i + 1].user = last => \A j \in i .. n - 1 : q[j + 1].user \in {0, last}
    BY <1>1, <1>2 DEF OfSessions
<1>4. \A j \in i .. n - 1 : Tail(q)[j] = q[j + 1]
    BY <1>1
<1> QED BY <1>1, <1>3, <1>4

\* Nobody's, and those of the last session, may be asked at the end.
LEMMA SessionsAsked ==
    ASSUME NEW q \in Seq(Transaction), NEW last \in Nat, NEW who, NEW known, OfSessions(q, last, who, known),
           NEW e \in Transaction, e.user \in {0, last}, e.user # 0 => e.steam \in Steam,
           e.user = last /\ who # Nobody => e.steam = who
    PROVE  OfSessions(Append(q, e), last, who, known)
<1> DEFINE n == Len(q)
           p == Append(q, e)
<1>1. Len(p) = n + 1 /\ n \in Nat /\ p[n + 1] = e /\ \A i \in 1 .. n : p[i] = q[i]
    BY Asked
<1> HIDE DEF p
<1> SUFFICES ASSUME NEW i \in 1 .. n + 1
             PROVE  /\ p[i].user <= last
                    /\ p[i].user # 0 => p[i].steam \in Steam
                    /\ p[i].user = last /\ who # Nobody => p[i].steam = who
                    /\ known => p[i].user \in {0, last}
                    /\ p[i].user = last => \A j \in i .. n + 1 : p[j].user \in {0, last}
    BY <1>1 DEF OfSessions, p
<1>2. CASE i = n + 1
    <2>1. \A j \in i .. n + 1 : j = n + 1
        BY <1>1, <1>2
    <2> QED BY <1>1, <1>2, <2>1
<1>3. CASE i \in 1 .. n
    <2>1. /\ q[i].user <= last
          /\ q[i].user # 0 => q[i].steam \in Steam
          /\ q[i].user = last /\ who # Nobody => q[i].steam = who
          /\ known => q[i].user \in {0, last}
          /\ q[i].user = last => \A j \in i .. n : q[j].user \in {0, last}
        BY <1>3 DEF OfSessions
    <2>2. \A j \in i .. n + 1 : j = n + 1 \/ (j \in i .. n /\ j \in 1 .. n)
        BY <1>1, <1>3
    <2> QED BY <1>1, <1>3, <2>1, <2>2
<1> QED BY <1>1, <1>2, <1>3

\* A new session, and the end of one.
LEMMA SessionsChanged ==
    ASSUME NEW q \in Seq(Transaction), NEW last \in Nat, NEW who, NEW known, OfSessions(q, last, who, known),
           NEW him
    PROVE  OfSessions(q, last + 1, him, FALSE) /\ OfSessions(q, last, Nobody, FALSE)
<1>1. \A i \in 1 .. Len(q) : q[i] \in Transaction
    OBVIOUS
<1>2. \A t \in Transaction : t.user \in Nat
    BY DEF Transaction
<1>3. \A i \in 1 .. Len(q) : q[i].user \in Nat /\ q[i].user <= last
    BY <1>1, <1>2 DEF OfSessions
<1>4. \A i \in 1 .. Len(q) : q[i].user <= last + 1 /\ q[i].user # last + 1
    BY <1>3
<1>5. OfSessions(q, last + 1, him, FALSE)
    BY <1>4 DEF OfSessions
<1>6. OfSessions(q, last, Nobody, FALSE)
    BY DEF OfSessions
<1> QED BY <1>5, <1>6

\* What is asked stays asked until it is answered.
LEMMA StaysAsked ==
    ASSUME NEW q \in Seq(Transaction), NEW m, NEW user
    PROVE  /\ \A e \in Transaction :
                 /\ AsksRecords(q, m) => AsksRecords(Append(q, e), m)
                 /\ e.kind = "records" /\ e.map = m => AsksRecords(Append(q, e), m)
                 /\ AsksPBs(q, m, user) => AsksPBs(Append(q, e), m, user)
                 /\ e.kind = "pbs" /\ e.map = m /\ e.user = user => AsksPBs(Append(q, e), m, user)
           /\ q # <<>> /\ AsksRecords(q, m) =>
                 AsksRecords(Tail(q), m) \/ (Head(q).kind = "records" /\ Head(q).map = m)
           /\ q # <<>> /\ AsksPBs(q, m, user) =>
                 AsksPBs(Tail(q), m, user) \/ (Head(q).kind = "pbs" /\ Head(q).map = m /\ Head(q).user = user)
<1> DEFINE n == Len(q)
<1>1. ASSUME NEW e \in Transaction
      PROVE  /\ Len(Append(q, e)) = n + 1 /\ n \in Nat /\ Append(q, e)[n + 1] = e /\ n + 1 \in 1 .. n + 1
             /\ \A i \in 1 .. n : Append(q, e)[i] = q[i] /\ i \in 1 .. n + 1
    BY Asked
<1>2. ASSUME q # <<>>
      PROVE  /\ Len(Tail(q)) = n - 1 /\ n \in Nat /\ q[1] = Head(q)
             /\ \A i \in 1 .. n : i = 1 \/ (i - 1 \in 1 .. n - 1 /\ Tail(q)[i - 1] = q[i])
    <2>1. /\ Len(Tail(q)) = n - 1 /\ n \in Nat /\ q[1] = Head(q)
          /\ \A i \in 1 .. n - 1 : Tail(q)[i] = q[i + 1]
        BY <1>2, Answered
    <2> QED BY <2>1
<1>3. ASSUME NEW e \in Transaction
      PROVE  /\ AsksRecords(q, m) => AsksRecords(Append(q, e), m)
             /\ AsksPBs(q, m, user) => AsksPBs(Append(q, e), m, user)
    BY <1>1 DEF AsksRecords, AsksPBs
<1>4. ASSUME NEW e \in Transaction
      PROVE  /\ e.kind = "records" /\ e.map = m => AsksRecords(Append(q, e), m)
             /\ e.kind = "pbs" /\ e.map = m /\ e.user = user => AsksPBs(Append(q, e), m, user)
    BY <1>1 DEF AsksRecords, AsksPBs
<1>5. ASSUME q # <<>>, AsksRecords(q, m)
      PROVE  AsksRecords(Tail(q), m) \/ (Head(q).kind = "records" /\ Head(q).map = m)
    <2>1. PICK i \in 1 .. n : q[i].kind = "records" /\ q[i].map = m
        BY <1>5 DEF AsksRecords
    <2> QED BY <1>2, <1>5, <2>1 DEF AsksRecords
<1>6. ASSUME q # <<>>, AsksPBs(q, m, user)
      PROVE  AsksPBs(Tail(q), m, user) \/ (Head(q).kind = "pbs" /\ Head(q).map = m /\ Head(q).user = user)
    <2>1. PICK i \in 1 .. n : q[i].kind = "pbs" /\ q[i].map = m /\ q[i].user = user
        BY <1>6 DEF AsksPBs
    <2> QED BY <1>2, <1>6, <2>1 DEF AsksPBs
<1> QED BY <1>3, <1>4, <1>5, <1>6

(***************************************************************************)
(* TimeCaches: the steps.                                                  *)
(***************************************************************************)
LEMMA CacheInit == InitCaches => CacheInv
<1> SUFFICES ASSUME InitCaches PROVE CacheInv
    OBVIOUS
<1>1. /\ MaxRunTime \in Nat /\ Never \in Nat /\ Times \cup {Never} = 1 .. Never
      /\ \A best \in OldBests : best \in Bests /\ best.any <= best.plain
    BY CacheAssumption DEF Never, Times, Bests
<1>2. NoBest \in Bests /\ NoBest.any = Never /\ NoBest.plain = Never
    BY DEF NoBest, Bests
<1>3. \A m \in Map : records[m] \in Bests /\ records[m].any <= records[m].plain
    BY <1>1, <1>2 DEF InitCaches
<1>4. \A s \in Steam : \A m \in Map : personal[s][m] \in Bests /\ personal[s][m].any <= personal[s][m].plain
    BY <1>1, <1>2 DEF InitCaches
<1>5. TypeOKCaches
    <2>1. records \in [Map -> Bests] /\ personal \in [Steam -> [Map -> Bests]] /\ queries \in Seq(Transaction)
        BY <1>2, <1>3 DEF InitCaches
    <2>2. /\ runTime \in 0 .. MaxRunTime /\ {srCache, localPBCache, globalPBCache} \subseteq Times \cup {Never}
          /\ preferredCompareType \in 0 .. 5 /\ currentCompareType \in 0 .. 4 /\ missed \in 0 .. 4
        BY <1>1 DEF InitCaches, NONE, GPB
    <2>3. /\ mapLoading \in BOOLEAN /\ mapReady \in BOOLEAN /\ mixed \in BOOLEAN /\ timerOn \in BOOLEAN
          /\ styled \in BOOLEAN /\ srKnown \in BOOLEAN /\ pbKnown \in BOOLEAN
        BY DEF InitCaches
    <2>4. /\ loadCount \in Nat /\ saveCount \in Nat /\ userCount \in Nat /\ mapName \in Map
          /\ courseID \in Map \cup {NoMap} /\ player \in Steam \cup {Nobody}
        BY DEF InitCaches
    <2> QED BY <2>1, <2>2, <2>3, <2>4 DEF TypeOKCaches, NONE, WR
<1>6. \A m \in Map : records[m].any <= Never
    BY <1>1, <1>3 DEF Bests
<1> QED BY <1>3, <1>4, <1>5, <1>6 DEF InitCaches, CacheInv, BestsOrdered, SlotInv, SessionInv, OfSessions, OwnCourse,
        CacheBounds, Renewed, MissedTimesAreMissed

\* A step of the player's alone: the maps, the tables, the transactions and
\* the caches stay.
LEMMA OwnStep ==
    ASSUME CacheInv, TypeOKCaches', MissedTimesAreMissed',
           UNCHANGED <<mapCacheVars, queries, tableVars, userVars, knownVars>>,
           timerOn' => player # Nobody
    PROVE  CacheInv'
<1> USE DEF mapCacheVars, tableVars, userVars, knownVars
<1>1. BestsOrdered' /\ SlotInv' /\ OwnCourse' /\ CacheBounds'
    BY DEF CacheInv, BestsOrdered, SlotInv, OwnCourse, CacheBounds
<1>2. SessionInv'
    BY DEF CacheInv, SessionInv
<1>3. Renewed'
    BY DEF CacheInv, Renewed
<1> QED BY <1>1, <1>2, <1>3 DEF CacheInv

\* A step that asks the database at the end.
LEMMA AskStep ==
    ASSUME CacheInv, TypeOKCaches', MissedTimesAreMissed',
           UNCHANGED <<mapName, courseID, mixed, records, personal, userVars, knownVars>>,
           timerOn' => player # Nobody,
           NEW e \in Transaction, queries' = Append(queries, e),
           e.user \in {0, userCount}, e.user # 0 => e.steam \in Steam,
           e.user = userCount /\ player # Nobody => e.steam = player
    PROVE  CacheInv'
<1> USE DEF userVars, knownVars
<1>0. queries \in Seq(Transaction) /\ userCount \in Nat
    BY DEF CacheInv, TypeOKCaches
<1>1. BestsOrdered' /\ SlotInv' /\ OwnCourse' /\ CacheBounds'
    BY DEF CacheInv, BestsOrdered, SlotInv, OwnCourse, CacheBounds
<1>2. SessionInv'
    BY <1>0, SessionsAsked DEF CacheInv, SessionInv
<1>3. Renewed'
    BY <1>0, StaysAsked DEF CacheInv, Renewed
<1> QED BY <1>1, <1>2, <1>3 DEF CacheInv

\* What he was told he missed, he has missed.
LEMMA MissedByNow ==
    ASSUME CacheInv, timerOn, UNCHANGED <<timerOn, player, mapName, mixed, records, personal>>,
           runTime' \in Int, runTime' >= runTime, missed' = CheckMissedTime(runTime')
    PROVE  MissedTimesAreMissed' /\ missed' \in NONE .. WR
<1>1. missed \in NONE .. WR /\ currentCompareType \in NONE .. WR /\ player \in Steam /\ mapName \in Map
    BY DEF CacheInv, TypeOKCaches, SlotInv
<1>2. missed' \in NONE .. WR
    BY <1>1 DEF CheckMissedTime
<1>3. /\ records[mapName].any \in Int /\ personal[player][mapName].any \in Int /\ runTime \in Int
      /\ srCache \in Int /\ localPBCache \in Int
    <2>1. records[mapName] \in Bests /\ personal[player][mapName] \in Bests
        BY <1>1 DEF CacheInv, TypeOKCaches
    <2>2. MaxRunTime \in Nat
        BY CacheAssumption
    <2> QED BY <2>1, <2>2 DEF CacheInv, TypeOKCaches, Bests, Times, Never
<1>4. CASE missed' = missed
    <2>1. ~mixed /\ missed = SR => records[mapName].any < runTime'
        BY <1>3 DEF CacheInv, MissedTimesAreMissed
    <2>2. ~mixed /\ missed = SPB => personal[player][mapName].any < runTime'
        BY <1>3 DEF CacheInv, MissedTimesAreMissed
    <2> QED BY <1>2, <1>4, <2>1, <2>2 DEF MissedTimesAreMissed
<1>5. CASE missed' # missed
    <2>1. runTime' > GetCompareTargetForType(currentCompareType) /\ missed' = currentCompareType
        BY <1>5 DEF CheckMissedTime
    <2>2. ~mixed /\ missed' = SR => records[mapName].any < runTime'
        BY <1>3, <2>1 DEF CacheInv, CacheBounds, GetCompareTargetForType, SPB, GPB, SR
    <2>3. ~mixed /\ missed' = SPB => personal[player][mapName].any < runTime'
        BY <1>1, <1>3, <2>1, CacheAssumption DEF CacheInv, CacheBounds, GetCompareTargetForType, SPB, GPB, SR
    <2> QED BY <1>2, <2>2, <2>3 DEF MissedTimesAreMissed
<1> QED BY <1>2, <1>4, <1>5

\* The steps of a player with a run, and of his levels.
LEMMA PlayerStep ==
    ASSUME CacheInv,
           \/ \E level \in Levels : SetCompareTarget(level) \/ ApplyCompareType(level)
           \/ StartCompared \/ TickCompared \/ StopCompared
           \/ \E time \in GlobalTimes : PlayerRecords(time)
    PROVE  CacheInv'
<1> USE DEF mapCacheVars, tableVars, userVars, knownVars, timingVars, levelVars
<1>0. Levels \subseteq 0 .. 5 /\ MaxRunTime \in Nat /\ GlobalTimes \subseteq Times \cup {Never}
    BY CacheAssumption DEF Times
<1>1. ASSUME NEW level \in Levels, SetCompareTarget(level)
      PROVE  CacheInv'
    <2>1. UpdateCurrentCompareType(level) \in NONE .. WR /\ level \in 0 .. 5 /\ NONE \in NONE .. WR
        BY <1>0, LevelInRange DEF NONE, WR
    <2>2. TypeOKCaches'
        BY <1>1, <2>1 DEF SetCompareTarget, CacheInv, TypeOKCaches
    <2>3. MissedTimesAreMissed'
        BY <1>1 DEF SetCompareTarget, CacheInv, MissedTimesAreMissed
    <2> QED BY <1>1, <2>2, <2>3, OwnStep DEF SetCompareTarget
<1>2. ASSUME NEW level \in Levels, ApplyCompareType(level)
      PROVE  CacheInv'
    <2>1. level \in 0 .. 5
        BY <1>0
    <2>2. TypeOKCaches'
        BY <1>2, <2>1 DEF ApplyCompareType, CacheInv, TypeOKCaches
    <2>3. MissedTimesAreMissed'
        BY <1>2 DEF ApplyCompareType, CacheInv, MissedTimesAreMissed
    <2> QED BY <1>2, <2>2, <2>3, OwnStep DEF ApplyCompareType
<1>3. CASE StartCompared
    <2>1. UpdateCurrentCompareType(preferredCompareType) \in NONE .. WR
        BY LevelInRange DEF CacheInv, TypeOKCaches
    <2>2. TypeOKCaches'
        <3>1. /\ timerOn' \in BOOLEAN /\ runTime' \in 0 .. MaxRunTime /\ styled' \in BOOLEAN /\ missed' \in NONE .. WR
              /\ currentCompareType' \in NONE .. WR
            BY <1>0, <1>3, <2>1 DEF StartCompared, NONE, WR
        <3> QED BY <1>3, <3>1 DEF StartCompared, CacheInv, TypeOKCaches
    <2>3. MissedTimesAreMissed'
        BY <1>3 DEF StartCompared, MissedTimesAreMissed, NONE, SR, SPB
    <2> QED BY <1>3, <2>2, <2>3, OwnStep DEF StartCompared
<1>4. CASE TickCompared
    <2>1. runTime \in 0 .. MaxRunTime /\ runTime' \in 0 .. MaxRunTime /\ runTime' >= runTime
        BY <1>0, <1>4 DEF TickCompared, CacheInv, TypeOKCaches
    <2>2. MissedTimesAreMissed' /\ missed' \in NONE .. WR
        BY <1>4, <2>1, MissedByNow DEF TickCompared
    <2>3. TypeOKCaches'
        BY <1>4, <2>1, <2>2 DEF TickCompared, CacheInv, TypeOKCaches
    <2> QED BY <1>4, <2>2, <2>3, OwnStep DEF TickCompared, CacheInv, SlotInv
<1>5. CASE StopCompared
    <2>1. TypeOKCaches'
        <3>1. /\ timerOn' \in BOOLEAN /\ runTime' \in 0 .. MaxRunTime /\ styled' \in BOOLEAN /\ missed' \in NONE .. WR
              /\ currentCompareType' \in NONE .. WR
            <4>1. timerOn' = FALSE /\ runTime' = 0 /\ styled' = FALSE /\ missed' = 0 /\ currentCompareType' = 0
                BY <1>5 DEF StopCompared, NoRun, NONE
            <4>2. 0 \in 0 .. MaxRunTime /\ 0 \in NONE .. WR
                BY <1>0 DEF NONE, WR
            <4> QED BY <4>1, <4>2
        <3> QED BY <1>5, <3>1 DEF StopCompared, CacheInv, TypeOKCaches
    <2>2. MissedTimesAreMissed'
        BY <1>5 DEF StopCompared, NoRun, MissedTimesAreMissed
    <2> QED BY <1>5, <2>1, <2>2, OwnStep DEF StopCompared, NoRun
<1>6. ASSUME NEW time \in GlobalTimes, PlayerRecords(time)
      PROVE  CacheInv'
    <2>1. TypeOKCaches'
        BY <1>0, <1>6 DEF PlayerRecords, CacheInv, TypeOKCaches
    <2>2. MissedTimesAreMissed'
        BY <1>6 DEF PlayerRecords, CacheInv, MissedTimesAreMissed
    <2> QED BY <1>6, <2>1, <2>2, OwnStep DEF PlayerRecords, CacheInv, SlotInv
<1> QED BY <1>1, <1>2, <1>3, <1>4, <1>5, <1>6

\* What is asked is typed.
LEMMA AskedTyped ==
    ASSUME TypeOKCaches
    PROVE  /\ \A kind \in {"map", "courses", "client", "records", "pbs"} : \A user \in Nat :
                 Query(kind, user, mapName) \in Transaction
           /\ \A user, time \in Nat, plain \in BOOLEAN :
                 courseID # NoMap /\ time \in Times => SaveTime(user, time, plain) \in Transaction
           /\ \A kind, user, of : /\ Query(kind, user, of).user = user /\ Query(kind, user, of).kind = kind
                                  /\ Query(kind, user, of).map = of
                                  /\ Query(kind, user, of).steam = IF user = 0 THEN Nobody ELSE player
           /\ \A user, time, plain : /\ SaveTime(user, time, plain).user = user
                                     /\ SaveTime(user, time, plain).steam = IF user = 0 THEN Nobody ELSE player
<1>1. /\ mapName \in Map /\ player \in Steam \cup {Nobody} /\ loadCount \in Nat
      /\ courseID # NoMap => courseID \in Map
    BY DEF TypeOKCaches
<1>2. ASSUME NEW kind \in {"map", "courses", "client", "records", "pbs"}, NEW user \in Nat
      PROVE  Query(kind, user, mapName) \in Transaction
    BY <1>1 DEF Query, Transaction
<1>3. ASSUME NEW user \in Nat, NEW time \in Times, NEW plain \in BOOLEAN, courseID # NoMap
      PROVE  SaveTime(user, time, plain) \in Transaction
    BY <1>1, <1>3 DEF SaveTime, Query, Transaction
<1> QED BY <1>2, <1>3 DEF Query, SaveTime

LEMMA AskingStep ==
    ASSUME CacheInv,
           \/ EndCompared \/ \E time \in Times : SomebodyEnds(time)
           \/ ActivateMap \/ StartRound \/ Authorize
    PROVE  CacheInv'
<1> USE DEF mapCacheVars, tableVars, userVars, knownVars, timingVars, levelVars
<1>0. /\ TypeOKCaches /\ userCount \in Nat /\ queries \in Seq(Transaction) /\ MaxRunTime \in Nat
      /\ 0 \in {0, userCount} /\ userCount \in {0, userCount} /\ Nobody \notin Steam
      /\ (userCount = 0 => player = Nobody) /\ player \in Steam \cup {Nobody}
      /\ 0 \in NONE .. WR /\ 0 \in 0 .. MaxRunTime
    BY CacheAssumption DEF CacheInv, TypeOKCaches, SlotInv, NONE, WR
<1>1. CASE EndCompared
    <2> DEFINE e == SaveTime(userCount, runTime, ~styled)
    <2>1. player \in Steam /\ userCount > 0 /\ runTime \in Times /\ runTime \in Nat
        BY <1>0, <1>1 DEF EndCompared, CacheInv, SlotInv, TypeOKCaches, Times
    <2>2. e \in Transaction /\ e.user = userCount /\ e.steam = player
        <3>1. courseID # NoMap /\ (~styled) \in BOOLEAN /\ userCount # 0
            BY <1>1, <2>1 DEF EndCompared, Save
        <3>2. e \in Transaction
            <4> DEFINE plain == ~styled
            <4>1. plain \in BOOLEAN
                BY <3>1
            <4> HIDE DEF plain
            <4>2. SaveTime(userCount, runTime, plain) \in Transaction
                BY <1>0, <2>1, <3>1, <4>1, AskedTyped
            <4> QED BY <4>2 DEF plain
        <3> QED BY <2>1, <3>1, <3>2 DEF SaveTime, Query
    <2>3. queries' = Append(queries, e) /\ Append(queries, e) \in Seq(Transaction) /\ saveCount' \in Nat
        BY <1>0, <1>1, <2>2, Asked DEF EndCompared, Save, Ask, TypeOKCaches
    <2> HIDE DEF e
    <2>4. TypeOKCaches' /\ MissedTimesAreMissed'
        BY <1>0, <1>1, <2>3 DEF EndCompared, NoRun, TypeOKCaches, MissedTimesAreMissed, NONE
    <2> QED BY <1>0, <1>1, <2>1, <2>2, <2>3, <2>4, AskStep DEF EndCompared, NoRun
<1>2. ASSUME NEW time \in Times, SomebodyEnds(time)
      PROVE  CacheInv'
    <2>1. PICK plain \in BOOLEAN : Save(0, time, plain)
        BY <1>2 DEF SomebodyEnds
    <2> DEFINE e == SaveTime(0, time, plain)
    <2>2. e \in Transaction /\ e.user = 0
        <3>1. time \in Nat
            BY DEF Times
        <3> QED BY <1>0, <2>1, <3>1, AskedTyped DEF Save
    <2>3. queries' = Append(queries, e) /\ Append(queries, e) \in Seq(Transaction) /\ saveCount' \in Nat
        BY <1>0, <2>1, <2>2, Asked DEF Save, Ask, TypeOKCaches
    <2> HIDE DEF e
    <2>4. TypeOKCaches' /\ MissedTimesAreMissed'
        BY <1>0, <1>2, <2>3 DEF SomebodyEnds, TypeOKCaches, CacheInv, MissedTimesAreMissed
    <2>5. timerOn' => player # Nobody
        BY <1>2 DEF SomebodyEnds, CacheInv, SlotInv
    <2> QED BY <1>0, <1>2, <2>2, <2>3, <2>4, <2>5, AskStep DEF SomebodyEnds
<1>3. ASSUME NEW kind \in {"map", "courses"}, queries' = Append(queries, Query(kind, 0, mapName)),
             ActivateMap \/ StartRound
      PROVE  CacheInv'
    <2> DEFINE e == Query(kind, 0, mapName)
    <2>1. e \in Transaction /\ e.user = 0
        BY <1>0, AskedTyped
    <2>2. Append(queries, e) \in Seq(Transaction) /\ queries' = Append(queries, e)
        BY <1>0, <1>3, <2>1, Asked
    <2> HIDE DEF e
    <2>3. TypeOKCaches'
        <3>1. CASE ActivateMap
            BY <1>0, <2>2, <3>1 DEF ActivateMap, TypeOKCaches
        <3>2. CASE StartRound
            BY <1>0, <2>2, <3>2 DEF StartRound, NoRun, TypeOKCaches, NONE
        <3> QED BY <1>3, <3>1, <3>2
    <2>4. MissedTimesAreMissed' /\ (timerOn' => player # Nobody)
        BY <1>3 DEF ActivateMap, StartRound, NoRun, CacheInv, SlotInv, MissedTimesAreMissed
    <2> QED BY <1>0, <1>3, <2>1, <2>2, <2>3, <2>4, AskStep DEF ActivateMap, StartRound
<1>4. CASE Authorize
    <2> DEFINE e == Query("client", userCount, mapName)
    <2>1. e \in Transaction /\ e.user = userCount /\ (userCount # 0 => e.steam = player)
        BY <1>0, AskedTyped
    <2>2. player \in Steam /\ userCount # 0
        BY <1>0, <1>4 DEF Authorize
    <2>3. Append(queries, e) \in Seq(Transaction) /\ queries' = Append(queries, e)
        BY <1>0, <1>4, <2>1, Asked DEF Authorize, Ask
    <2> HIDE DEF e
    <2>4. TypeOKCaches' /\ MissedTimesAreMissed'
        BY <1>0, <1>4, <2>3 DEF Authorize, TypeOKCaches, CacheInv, MissedTimesAreMissed
    <2> QED BY <1>0, <1>4, <2>1, <2>2, <2>3, <2>4, AskStep DEF Authorize
<1> QED BY <1>1, <1>2, <1>3, <1>4 DEF ActivateMap, StartRound, Ask

\* Times are numbers, and no best is worse than none.
LEMMA TimesAreNumbers ==
    ASSUME TypeOKCaches
    PROVE  /\ Never \in Nat /\ srCache \in Int /\ localPBCache \in Int /\ runTime \in Int
           /\ Times \cup {Never} = 1 .. Never
           /\ \A m \in Map : /\ records[m] \in Bests
                             /\ records[m].any \in 1 .. Never /\ records[m].plain \in 1 .. Never
           /\ \A s \in Steam : \A m \in Map :
                 /\ personal[s][m] \in Bests
                 /\ personal[s][m].any \in 1 .. Never /\ personal[s][m].plain \in 1 .. Never
<1>1. MaxRunTime \in Nat
    BY CacheAssumption
<1>2. Never \in Nat /\ Times \cup {Never} = 1 .. Never
    BY <1>1 DEF Never, Times
<1>3. \A best \in Bests : best.any \in 1 .. Never /\ best.plain \in 1 .. Never
    BY <1>2 DEF Bests
<1>4. \A m \in Map : records[m] \in Bests /\ \A s \in Steam : personal[s][m] \in Bests
    BY DEF TypeOKCaches
<1>5. srCache \in 1 .. Never /\ localPBCache \in 1 .. Never /\ runTime \in 0 .. MaxRunTime
    BY <1>2 DEF TypeOKCaches
<1> QED BY <1>1, <1>2, <1>3, <1>4, <1>5

\* Another map, or another player, and nothing that is known stays known.
LEMMA ChangeStep ==
    ASSUME CacheInv,
           \/ \E m \in Map : LoadMap(m)
           \/ \E steam \in Steam : Connect(steam)
           \/ Disconnect
    PROVE  CacheInv'
<1> USE DEF mapCacheVars, tableVars, userVars, knownVars, timingVars, levelVars
<1>0. /\ TypeOKCaches /\ userCount \in Nat /\ queries \in Seq(Transaction) /\ Nobody \notin Steam
      /\ Never \in Times \cup {Never} /\ 0 \in NONE .. WR /\ 0 \in 0 .. MaxRunTime
      /\ SessionInv /\ SlotInv /\ BestsOrdered
    BY CacheAssumption DEF CacheInv, TypeOKCaches, NONE, WR
<1>1. ASSUME NEW m \in Map, LoadMap(m)
      PROVE  CacheInv'
    <2> USE <1>1 DEF LoadMap, ClearRecordCache, NoRun
    <2>1. TypeOKCaches'
        <3>1. /\ mapName' \in Map /\ mapLoading' \in BOOLEAN /\ courseID' \in Map \cup {NoMap} /\ mixed' \in BOOLEAN
              /\ srCache' \in Times \cup {Never} /\ localPBCache' \in Times \cup {Never}
            BY <1>0
        <3>4. loadCount' \in Nat
            BY <1>0 DEF TypeOKCaches
        <3>2. /\ srKnown' \in BOOLEAN /\ pbKnown' \in BOOLEAN /\ timerOn' \in BOOLEAN /\ styled' \in BOOLEAN
              /\ runTime' \in 0 .. MaxRunTime /\ missed' \in NONE .. WR /\ currentCompareType' \in NONE .. WR
            BY <1>0 DEF NONE
        <3>3. UNCHANGED <<mapReady, queries, tableVars, userVars, globalPBCache, preferredCompareType>>
            OBVIOUS
        <3> HIDE DEF LoadMap
        <3> QED BY <1>0, <3>1, <3>2, <3>3, <3>4 DEF TypeOKCaches
    <2>2. BestsOrdered' /\ SlotInv' /\ OwnCourse' /\ Renewed' /\ MissedTimesAreMissed'
        BY <1>0 DEF BestsOrdered, SlotInv, OwnCourse, Renewed, MissedTimesAreMissed
    <2>3. SessionInv'
        BY <1>0 DEF SessionInv, OfSessions
    <2>4. CacheBounds'
        <3>1. records[m].any <= Never /\ (player # Nobody => personal[player][m].any <= Never)
            BY <1>0, TimesAreNumbers DEF TypeOKCaches
        <3> QED BY <3>1 DEF CacheBounds
    <2> QED BY <2>1, <2>2, <2>3, <2>4 DEF CacheInv
<1>2. ASSUME NEW steam \in Steam, Connect(steam)
      PROVE  CacheInv'
    <2> USE <1>2 DEF Connect
    <2>1. timerOn = FALSE /\ pbKnown = FALSE /\ localPBCache = Never
        BY <1>0 DEF SlotInv, TypeOKCaches
    <2>2. TypeOKCaches'
        BY <1>0 DEF TypeOKCaches
    <2>3. BestsOrdered' /\ SlotInv' /\ MissedTimesAreMissed'
        BY <1>0, <2>1 DEF BestsOrdered, SlotInv, MissedTimesAreMissed
    <2>4. SessionInv'
        BY <1>0, <2>1, SessionsChanged DEF SessionInv
    <2>5. CacheBounds'
        <3>1. personal[steam][mapName].any <= Never
            BY <1>0, TimesAreNumbers DEF TypeOKCaches
        <3> QED BY <2>1, <3>1 DEF CacheBounds, CacheInv
    <2>6. OwnCourse' /\ Renewed'
        BY <2>1 DEF CacheInv, OwnCourse, Renewed
    <2> QED BY <2>2, <2>3, <2>4, <2>5, <2>6 DEF CacheInv
<1>3. CASE Disconnect
    <2> USE <1>3 DEF Disconnect, Reset, NoRun
    <2>1. TypeOKCaches'
        BY <1>0 DEF TypeOKCaches, NONE
    <2>2. BestsOrdered' /\ SlotInv' /\ MissedTimesAreMissed'
        BY <1>0 DEF BestsOrdered, SlotInv, MissedTimesAreMissed
    <2>3. SessionInv'
        BY <1>0, SessionsChanged DEF SessionInv
    <2>4. OwnCourse' /\ Renewed' /\ CacheBounds'
        BY DEF CacheInv, OwnCourse, Renewed, CacheBounds
    <2> QED BY <2>1, <2>2, <2>3, <2>4 DEF CacheInv
<1> QED BY <1>1, <1>2, <1>3

(***************************************************************************)
(* TimeCaches: the answers.                                                *)
(***************************************************************************)
\* What an answer may ask for keeps the sessions apart.
LEMMA SessionsRenewed ==
    ASSUME TypeOKCaches, SlotInv, NEW q \in Seq(Transaction), NEW known, OfSessions(q, userCount, player, known)
    PROVE  /\ QueryAllRecords \in Transaction /\ QueryAllPBs \in Transaction
           /\ QueryAllRecords.kind = "records" /\ QueryAllRecords.map = mapName
           /\ QueryAllPBs.kind = "pbs" /\ QueryAllPBs.map = mapName /\ QueryAllPBs.user = userCount
           /\ OfSessions(Append(q, QueryAllRecords), userCount, player, known)
           /\ player # Nobody => OfSessions(Append(q, QueryAllPBs), userCount, player, known)
<1>1. /\ userCount \in Nat /\ player \in Steam \cup {Nobody} /\ Nobody \notin Steam
      /\ player # Nobody => userCount # 0 /\ player \in Steam
    BY CacheAssumption DEF TypeOKCaches, SlotInv
<1>2. /\ QueryAllRecords \in Transaction /\ QueryAllPBs \in Transaction
      /\ QueryAllRecords.kind = "records" /\ QueryAllRecords.map = mapName /\ QueryAllRecords.user = 0
      /\ QueryAllPBs.kind = "pbs" /\ QueryAllPBs.map = mapName /\ QueryAllPBs.user = userCount
      /\ player # Nobody => QueryAllPBs.steam = player
    BY <1>1, AskedTyped DEF QueryAllRecords, QueryAllPBs
<1>3. userCount = 0 => player = Nobody
    BY <1>1
<1>4. OfSessions(Append(q, QueryAllRecords), userCount, player, known)
    BY <1>1, <1>2, <1>3, SessionsAsked
<1>5. player # Nobody => OfSessions(Append(q, QueryAllPBs), userCount, player, known)
    BY <1>1, <1>2, SessionsAsked
<1> QED BY <1>2, <1>4, <1>5

\* An answer that leaves the tables as they are.
LEMMA ReadStep ==
    ASSUME CacheInv, TypeOKCaches', UNCHANGED <<mapName, records, personal, userVars, levelVars, timingVars>>,
           mixed => mixed', pbKnown' => player # Nobody, player = Nobody => localPBCache' = localPBCache,
           SessionInv', OwnCourse', CacheBounds', Renewed'
    PROVE  CacheInv'
<1> USE DEF userVars, levelVars, timingVars
<1>1. BestsOrdered' /\ SlotInv' /\ MissedTimesAreMissed'
    BY DEF CacheInv, BestsOrdered, SlotInv, MissedTimesAreMissed
<1> QED BY <1>1 DEF CacheInv

\* The answers that are about nobody's times.
LEMMA SetupAnswered ==
    ASSUME CacheInv, queries # <<>>, NEW query, query = Head(queries),
           UNCHANGED <<saveCount, userVars, globalPBCache, levelVars, timingVars>>,
           \/ query.kind = "map" /\ MapSetUp(query)
           \/ query.kind = "courses" /\ CoursesSetUp(query)
           \/ query.kind = "client" /\ ClientSetUp(query)
    PROVE  CacheInv'
<1> USE DEF mapCacheVars, userVars, knownVars, timingVars, levelVars
<1> DEFINE q == Tail(queries)
<1>0. /\ TypeOKCaches /\ SlotInv /\ queries \in Seq(Transaction) /\ q \in Seq(Transaction) /\ query \in Transaction
      /\ OfSessions(q, userCount, player, pbKnown) /\ query.map \in Map
    <2>1. TypeOKCaches /\ SlotInv /\ queries \in Seq(Transaction) /\ SessionInv
        BY DEF CacheInv, TypeOKCaches
    <2>2. q \in Seq(Transaction) /\ query \in Transaction
        BY <2>1, Answered
    <2>3. OfSessions(q, userCount, player, pbKnown)
        BY <2>1, SessionsAnswered DEF SessionInv
    <2> QED BY <2>1, <2>2, <2>3 DEF Transaction
<1>1. queries' \in {q, Append(q, QueryAllRecords)} \/ (player # Nobody /\ queries' = Append(q, QueryAllPBs))
    BY DEF MapSetUp, CoursesSetUp, ClientSetUp, Ask
<1>2. queries' \in Seq(Transaction) /\ OfSessions(queries', userCount, player, pbKnown)
    BY <1>0, <1>1, SessionsRenewed, Asked
<1>3. /\ AsksRecords(queries, mapName) => AsksRecords(queries', mapName)
      /\ AsksPBs(queries, mapName, userCount) => AsksPBs(queries', mapName, userCount)
    <2>1. /\ AsksRecords(queries, mapName) => AsksRecords(q, mapName)
          /\ AsksPBs(queries, mapName, userCount) => AsksPBs(q, mapName, userCount)
        BY <1>0, StaysAsked
    <2>2. QueryAllRecords \in Transaction /\ QueryAllPBs \in Transaction
        BY <1>0, SessionsRenewed
    <2>3. CASE queries' = q
        BY <2>1, <2>3
    <2>4. ASSUME NEW e \in Transaction, queries' = Append(q, e)
          PROVE  /\ AsksRecords(q, mapName) => AsksRecords(queries', mapName)
                 /\ AsksPBs(q, mapName, userCount) => AsksPBs(queries', mapName, userCount)
        BY <1>0, <2>4, StaysAsked
    <2> QED BY <1>1, <2>1, <2>2, <2>3, <2>4
<1> HIDE DEF q
<1>4. /\ UNCHANGED <<mapName, records, personal, knownVars, mapLoading, loadCount>>
      /\ mixed => mixed'
      /\ \/ courseID' = courseID /\ mixed' = mixed
         \/ courseID' = query.map /\ mixed' = (mixed \/ query.map # mapName)
      /\ mapReady' \in BOOLEAN
    <2>1. CASE MapSetUp(query)
        <3>1. mapReady' \in BOOLEAN
            BY <1>0, <2>1 DEF MapSetUp, TypeOKCaches
        <3> QED BY <2>1, <3>1 DEF MapSetUp
    <2>2. CASE CoursesSetUp(query)
        <3>1. mapReady' \in BOOLEAN
            BY <1>0, <2>2 DEF CoursesSetUp, TypeOKCaches
        <3> QED BY <2>2, <3>1 DEF CoursesSetUp
    <2>3. CASE ClientSetUp(query)
        <3>1. mapReady' \in BOOLEAN
            BY <1>0, <2>3 DEF ClientSetUp, TypeOKCaches
        <3> QED BY <2>3, <3>1 DEF ClientSetUp
    <2> QED BY <2>1, <2>2, <2>3
<1>5. courseID' \in Map \cup {NoMap} /\ mixed' \in BOOLEAN
    BY <1>0, <1>4 DEF TypeOKCaches
<1>6. TypeOKCaches'
    BY <1>0, <1>2, <1>4, <1>5 DEF TypeOKCaches
<1>7. SessionInv'
    BY <1>2, <1>4 DEF SessionInv
<1>8. OwnCourse' /\ CacheBounds'
    BY <1>4 DEF CacheInv, OwnCourse, CacheBounds
<1>9. Renewed'
    BY <1>3, <1>4 DEF CacheInv, Renewed
<1> QED BY <1>4, <1>6, <1>7, <1>8, <1>9, ReadStep DEF CacheInv, SlotInv

\* The answers for the records, for the bests of a player, and those that got
\* lost.
LEMMA TimesAnswered ==
    ASSUME CacheInv, queries # <<>>, NEW query, query = Head(queries),
           UNCHANGED <<saveCount, userVars, globalPBCache, levelVars, timingVars>>,
           \/ query.kind = "records" /\ UpdateLocalRecordCache(query)
           \/ query.kind = "pbs" /\ UpdateLocalPBCache(query)
           \/ QueryFails(query)
    PROVE  CacheInv'
<1> USE DEF mapCacheVars, userVars, knownVars, timingVars, levelVars
<1> DEFINE q == Tail(queries)
<1>0. /\ TypeOKCaches /\ SlotInv /\ queries \in Seq(Transaction) /\ q \in Seq(Transaction) /\ query \in Transaction
      /\ SessionInv /\ query.map \in Map /\ query = queries[1] /\ 1 \in 1 .. Len(queries)
    <2>1. TypeOKCaches /\ SlotInv /\ queries \in Seq(Transaction) /\ SessionInv
        BY DEF CacheInv, TypeOKCaches
    <2>2. /\ q \in Seq(Transaction) /\ query \in Transaction
          /\ query = queries[1] /\ Len(queries) \in Nat /\ Len(queries) >= 1
        BY <2>1, Answered
    <2> QED BY <2>1, <2>2 DEF Transaction
<1>1. /\ queries' = q /\ UNCHANGED <<mapName, mapLoading, mapReady, loadCount, courseID, mixed, records, personal>>
    BY DEF UpdateLocalRecordCache, UpdateLocalPBCache, QueryFails, Ask
<1>2. /\ AsksRecords(queries, mapName) => AsksRecords(q, mapName) \/ (query.kind = "records" /\ query.map = mapName)
      /\ AsksPBs(queries, mapName, userCount) =>
            AsksPBs(q, mapName, userCount) \/ (query.kind = "pbs" /\ query.map = mapName /\ query.user = userCount)
    BY <1>0, StaysAsked
<1>3. \A now \in BOOLEAN : (now => pbKnown \/ query.user = userCount) => OfSessions(q, userCount, player, now)
    BY <1>0, SessionsAnswered DEF SessionInv
<1> HIDE DEF q
<1>4. /\ mapName \in Map /\ (player # Nobody => player \in Steam) /\ NoMap \notin Map
      /\ srCache \in Times \cup {Never} /\ localPBCache \in Times \cup {Never}
      /\ srKnown \in BOOLEAN /\ pbKnown \in BOOLEAN
    BY <1>0, CacheAssumption DEF TypeOKCaches
<1>5. \A best \in Bests : \A cache \in Times \cup {Never} :
          /\ Insert(best.any, cache) \in Times \cup {Never}
          /\ best.any <= cache => best.any <= Insert(best.any, cache)
          /\ best.any <= best.plain => Insert(best.any, cache) <= best.plain
    <2>1. Never \in Nat /\ Times \cup {Never} = 1 .. Never
        BY <1>0, TimesAreNumbers
    <2>2. \A best \in Bests : best.any \in 1 .. Never /\ best.plain \in 1 .. Never
        BY <2>1 DEF Bests
    <2> QED BY <2>1, <2>2 DEF Insert
<1>6. ASSUME query.kind = "records", UpdateLocalRecordCache(query)
      PROVE  CacheInv'
    <2> USE <1>6 DEF UpdateLocalRecordCache
    <2>1. records[query.map] \in Bests /\ records[query.map].any <= records[query.map].plain
        BY <1>0, TimesAreNumbers DEF CacheInv, BestsOrdered
    <2>2. srCache' \in Times \cup {Never} /\ srKnown' \in BOOLEAN
        BY <1>4, <1>5, <2>1
    <2>3. TypeOKCaches'
        BY <1>0, <1>1, <2>2 DEF TypeOKCaches, q
    <2>4. SessionInv'
        BY <1>1, <1>3, <1>4 DEF SessionInv
    <2>5. OwnCourse'
        BY <1>0, <1>1, <1>4 DEF CacheInv, OwnCourse
    <2>6. CASE courseID = query.map
        <3>1. ~mixed => query.map = mapName
            BY <1>0, <1>4, <2>6 DEF CacheInv, OwnCourse
        <3>2. CacheBounds'
            BY <1>1, <1>4, <1>5, <2>1, <2>6, <3>1 DEF CacheInv, CacheBounds
        <3>3. ~mixed => srCache' <= records[mapName].plain
            BY <1>4, <1>5, <2>1, <2>6, <3>1
        <3>4. Renewed'
            BY <1>1, <1>2, <2>6, <3>3 DEF CacheInv, Renewed
        <3> QED BY <1>1, <2>3, <2>4, <2>5, <3>2, <3>4, ReadStep DEF CacheInv, SlotInv
    <2>7. CASE courseID # query.map
        <3>1. CacheBounds'
            BY <1>1, <2>7 DEF CacheInv, CacheBounds
        <3>2. Renewed'
            BY <1>1, <1>2, <2>7 DEF CacheInv, Renewed, OwnCourse
        <3> QED BY <1>1, <2>3, <2>4, <2>5, <3>1, <3>2, ReadStep DEF CacheInv, SlotInv
    <2> QED BY <2>6, <2>7
<1>7. ASSUME query.kind = "pbs", UpdateLocalPBCache(query)
      PROVE  CacheInv'
    <2> USE <1>7 DEF UpdateLocalPBCache
    <2> DEFINE his == courseID = query.map /\ player # Nobody /\ query.user = userCount
    <2>1. his => /\ query.steam = player /\ player \in Steam
                 /\ personal[player][query.map] \in Bests
                 /\ personal[player][query.map].any <= personal[player][query.map].plain
        <3>1. player # Nobody /\ query.user = userCount => query.steam = player
            BY <1>0 DEF SessionInv, OfSessions
        <3> QED BY <1>0, <1>4, <3>1, TimesAreNumbers DEF CacheInv, BestsOrdered
    <2>2. localPBCache' \in Times \cup {Never} /\ pbKnown' \in BOOLEAN
        BY <1>4, <1>5, <2>1
    <2>3. TypeOKCaches'
        BY <1>0, <1>1, <2>2 DEF TypeOKCaches, q
    <2>4. SessionInv'
        BY <1>1, <1>3, <2>2 DEF SessionInv
    <2>5. OwnCourse'
        BY <1>0, <1>1, <1>4 DEF CacheInv, OwnCourse
    <2>6. CASE his
        <3>1. ~mixed => query.map = mapName
            BY <1>0, <1>4, <2>6 DEF CacheInv, OwnCourse
        <3>2. CacheBounds'
            BY <1>1, <1>4, <1>5, <2>1, <2>6, <3>1 DEF CacheInv, CacheBounds
        <3>3. ~mixed => localPBCache' <= personal[player][mapName].plain
            <4>1. localPBCache' = Insert(personal[player][query.map].any, localPBCache)
                BY <2>1, <2>6
            <4> QED BY <1>4, <1>5, <2>1, <2>6, <3>1, <4>1
        <3>4. ~mixed /\ srKnown => srCache <= records[mapName].plain \/ AsksRecords(q, mapName)
            BY <1>2 DEF CacheInv, Renewed
        <3>5. Renewed'
            BY <1>1, <3>3, <3>4 DEF Renewed
        <3> QED BY <1>1, <2>3, <2>4, <2>5, <2>6, <3>2, <3>5, ReadStep
    <2>7. CASE ~his
        <3>1. CacheBounds'
            BY <1>1, <2>7 DEF CacheInv, CacheBounds
        <3>2. ~mixed /\ srKnown => srCache <= records[mapName].plain \/ AsksRecords(q, mapName)
            BY <1>2 DEF CacheInv, Renewed
        <3>3. ~mixed /\ pbKnown => ~(query.map = mapName /\ query.user = userCount)
            BY <2>7 DEF CacheInv, OwnCourse, SlotInv
        <3>4. Renewed'
            BY <1>1, <1>2, <2>7, <3>2, <3>3 DEF CacheInv, Renewed
        <3> QED BY <1>1, <2>3, <2>4, <2>5, <2>7, <3>1, <3>4, ReadStep DEF CacheInv, SlotInv
    <2> QED BY <2>6, <2>7
<1>8. ASSUME QueryFails(query)
      PROVE  CacheInv'
    <2> USE <1>8 DEF QueryFails
    <2>1. srKnown' \in BOOLEAN /\ pbKnown' \in BOOLEAN /\ (pbKnown' => pbKnown) /\ (srKnown' => srKnown)
        BY <1>4
    <2>2. TypeOKCaches'
        BY <1>0, <1>1, <2>1 DEF TypeOKCaches, q
    <2>3. SessionInv'
        BY <1>1, <1>3, <2>1 DEF SessionInv
    <2>4. OwnCourse' /\ CacheBounds'
        BY <1>1, <2>1 DEF CacheInv, OwnCourse, CacheBounds
    <2>5. Renewed'
        <3>1. ~mixed /\ srKnown' => srCache <= records[mapName].plain \/ AsksRecords(q, mapName)
            BY <1>2 DEF CacheInv, Renewed
        <3>2. ~mixed /\ pbKnown' => localPBCache <= personal[player][mapName].plain \/ AsksPBs(q, mapName, userCount)
            BY <1>2 DEF CacheInv, Renewed
        <3> QED BY <1>1, <3>1, <3>2 DEF Renewed
    <2> QED BY <1>1, <2>1, <2>2, <2>3, <2>4, <2>5, ReadStep DEF CacheInv, SlotInv
<1> QED BY <1>6, <1>7, <1>8

\* A run is saved: the tables get better, and, when runs without a style do,
\* what is known is forgotten or asked for again.
LEMMA RunSaved ==
    ASSUME CacheInv, queries # <<>>, NEW query, query = Head(queries), query.kind = "save",
           UNCHANGED <<saveCount, userVars, globalPBCache, levelVars, timingVars>>, SavedAnswer(query)
    PROVE  CacheInv'
<1> USE DEF mapCacheVars, userVars, timingVars, levelVars
<1> DEFINE q == Tail(queries)
           asks == (IF query.user # 0 /\ query.user = userCount /\ player # Nobody THEN <<QueryAllPBs>> ELSE <<>>)
                      \o <<QueryAllRecords>>
           there == query.load = loadCount \/ (mapLoading /\ query.load = loadCount - 1)
<1>0. /\ TypeOKCaches /\ SlotInv /\ queries \in Seq(Transaction) /\ q \in Seq(Transaction) /\ query \in Transaction
      /\ SessionInv /\ query.map \in Map /\ query = queries[1] /\ 1 \in 1 .. Len(queries) /\ mapName \in Map
    <2>1. TypeOKCaches /\ SlotInv /\ queries \in Seq(Transaction) /\ SessionInv /\ mapName \in Map
        BY DEF CacheInv, TypeOKCaches
    <2>2. /\ q \in Seq(Transaction) /\ query \in Transaction
          /\ query = queries[1] /\ Len(queries) \in Nat /\ Len(queries) >= 1
        BY <2>1, Answered
    <2> QED BY <2>1, <2>2 DEF Transaction
<1>1. /\ query.user # 0 => query.steam \in Steam
      /\ pbKnown => query.user \in {0, userCount} /\ player # Nobody
      /\ player # Nobody => player \in Steam /\ userCount # 0
    BY <1>0 DEF SessionInv, OfSessions, SlotInv, TypeOKCaches
<1>2. /\ records' = [records EXCEPT ![query.map] = Better(@, query)]
      /\ personal' = IF query.user = 0 THEN personal
                     ELSE [personal EXCEPT ![query.steam][query.map] = Better(@, query)]
      /\ UNCHANGED <<mapCacheVars, srCache, localPBCache>>
    BY DEF SavedAnswer
<1>3. \/ query.plain /\ queries' = q \o asks /\ UNCHANGED <<srKnown, pbKnown>>
      \/ query.plain /\ queries' = q /\ srKnown' = FALSE /\ pbKnown' = FALSE
      \/ ~query.plain /\ queries' = q /\ UNCHANGED <<srKnown, pbKnown>>
    BY DEF SavedAnswer, Ask
<1> HIDE DEF asks, there
<1>4. /\ records' \in [Map -> Bests]
      /\ \A m \in Map : /\ records'[m].any <= records[m].any /\ records'[m].any <= records'[m].plain
                        /\ ~query.plain => records'[m].plain = records[m].plain
                        /\ records'[m] \in Bests
    <2>1. \A m \in Map : /\ records[m] \in Bests /\ records[m].any <= records[m].plain
                         /\ records[m].any \in Int /\ records[m].plain \in Int
        BY <1>0, TimesAreNumbers DEF CacheInv, BestsOrdered
    <2>2. \A m \in Map : records'[m] = IF m = query.map THEN Better(records[m], query) ELSE records[m]
        BY <1>0, <1>2 DEF TypeOKCaches
    <2>3. records' = [m \in Map |-> records'[m]]
        BY <1>0, <1>2 DEF TypeOKCaches
    <2>4. \A m \in Map : /\ records'[m].any <= records[m].any /\ records'[m].any <= records'[m].plain
                         /\ ~query.plain => records'[m].plain = records[m].plain
                         /\ records'[m] \in Bests
        BY <1>0, <2>1, <2>2, BetterIsBetter
    <2> QED BY <2>3, <2>4
<1>5. /\ personal' \in [Steam -> [Map -> Bests]]
      /\ \A s \in Steam : \A m \in Map :
            /\ personal'[s][m].any <= personal[s][m].any /\ personal'[s][m].any <= personal'[s][m].plain
            /\ ~query.plain \/ query.user = 0 => personal'[s][m].plain = personal[s][m].plain
            /\ personal'[s][m] \in Bests
    <2>1. \A s \in Steam : \A m \in Map :
             /\ personal[s][m] \in Bests /\ personal[s][m].any <= personal[s][m].plain
             /\ personal[s][m].any \in Int /\ personal[s][m].plain \in Int
        BY <1>0, TimesAreNumbers DEF CacheInv, BestsOrdered
    <2>2. personal \in [Steam -> [Map -> Bests]]
        BY <1>0 DEF TypeOKCaches
    <2>3. CASE query.user = 0
        BY <1>2, <2>1, <2>2, <2>3
    <2>4. CASE query.user # 0
        <3>1. /\ query.steam \in Steam
              /\ personal' = [personal EXCEPT ![query.steam] =
                                 [personal[query.steam] EXCEPT ![query.map] = Better(personal[query.steam][query.map], query)]]
            BY <1>1, <1>2, <2>4
        <3>2. \A s \in Steam : \A m \in Map :
                 personal'[s][m] = IF s = query.steam /\ m = query.map THEN Better(personal[s][m], query)
                                   ELSE personal[s][m]
            BY <1>0, <2>2, <3>1
        <3>3. \A s \in Steam : \A m \in Map :
                 /\ personal'[s][m].any <= personal[s][m].any /\ personal'[s][m].any <= personal'[s][m].plain
                 /\ ~query.plain => personal'[s][m].plain = personal[s][m].plain
                 /\ personal'[s][m] \in Bests
            BY <1>0, <2>1, <3>2, BetterIsBetter
        <3>4. personal' \in [Steam -> [Map -> Bests]]
            <4>1. Better(personal[query.steam][query.map], query) \in Bests
                BY <1>0, <2>1, <3>1, BetterIsBetter
            <4> QED BY <1>0, <2>2, <3>1, <4>1
        <3> QED BY <2>4, <3>3, <3>4
    <2> QED BY <2>3, <2>4
\* What is in the queue then.
<1>6. /\ \A now \in BOOLEAN : (now => pbKnown) => OfSessions(q, userCount, player, now)
      /\ AsksRecords(queries, mapName) => AsksRecords(q, mapName)
      /\ AsksPBs(queries, mapName, userCount) => AsksPBs(q, mapName, userCount)
    BY <1>0, SessionsAnswered, StaysAsked DEF SessionInv
<1>7. ASSUME queries' = q \o asks
      PROVE  /\ queries' \in Seq(Transaction) /\ OfSessions(queries', userCount, player, pbKnown)
             /\ AsksRecords(queries', mapName)
             /\ AsksPBs(q, mapName, userCount) => AsksPBs(queries', mapName, userCount)
             /\ query.user # 0 /\ query.user = userCount /\ player # Nobody => AsksPBs(queries', mapName, userCount)
    <2>0. pbKnown \in BOOLEAN /\ q \in Seq(Transaction) /\ OfSessions(q, userCount, player, pbKnown)
        BY <1>0, <1>6 DEF TypeOKCaches
    <2> DEFINE P == QueryAllPBs
               R == QueryAllRecords
    <2>1. R \in Transaction /\ P \in Transaction /\ R.kind = "records" /\ R.map = mapName
          /\ P.kind = "pbs" /\ P.map = mapName /\ P.user = userCount
        BY <1>0, <2>0, SessionsRenewed
    <2>2. CASE query.user # 0 /\ query.user = userCount /\ player # Nobody
        <3>1. asks = <<P, R>>
            BY <2>1, <2>2, OneOrTwo DEF asks
        <3>2. queries' = Append(Append(q, P), R)
            BY <1>7, <2>0, <2>1, <3>1, TwoAsked
        <3>3. Append(q, P) \in Seq(Transaction) /\ Append(Append(q, P), R) \in Seq(Transaction)
            BY <2>0, <2>1, Asked
        <3>4. OfSessions(Append(q, P), userCount, player, pbKnown)
            BY <1>0, <2>0, <2>2, SessionsRenewed
        <3>5. OfSessions(Append(Append(q, P), R), userCount, player, pbKnown)
            BY <1>0, <3>3, <3>4, SessionsRenewed
        <3>6. AsksPBs(Append(q, P), mapName, userCount)
            BY <2>0, <2>1, StaysAsked
        <3>7. /\ AsksRecords(Append(Append(q, P), R), mapName)
              /\ AsksPBs(Append(Append(q, P), R), mapName, userCount)
            BY <2>1, <3>3, <3>6, StaysAsked
        <3> QED BY <3>2, <3>3, <3>5, <3>7
    <2>3. CASE ~(query.user # 0 /\ query.user = userCount /\ player # Nobody)
        <3>1. asks = <<R>>
            BY <2>1, <2>3, OneOrTwo DEF asks
        <3>2. queries' = Append(q, R)
            BY <1>7, <2>0, <2>1, <3>1, TwoAsked
        <3>3. Append(q, R) \in Seq(Transaction)
            BY <2>0, <2>1, Asked
        <3>4. OfSessions(Append(q, R), userCount, player, pbKnown)
            BY <1>0, <2>0, SessionsRenewed
        <3>5. /\ AsksRecords(Append(q, R), mapName)
              /\ AsksPBs(q, mapName, userCount) => AsksPBs(Append(q, R), mapName, userCount)
            BY <2>0, <2>1, StaysAsked
        <3> QED BY <2>3, <3>2, <3>3, <3>4, <3>5
    <2> QED BY <2>2, <2>3
<1> HIDE DEF q
\* The parts of the invariant.
<1>8. /\ srKnown' \in BOOLEAN /\ pbKnown' \in BOOLEAN /\ (srKnown' => srKnown) /\ (pbKnown' => pbKnown)
      /\ queries' \in Seq(Transaction)
    <2>1. srKnown \in BOOLEAN /\ pbKnown \in BOOLEAN /\ q \in Seq(Transaction)
        BY <1>0 DEF TypeOKCaches
    <2>2. CASE query.plain /\ queries' = q \o asks /\ UNCHANGED <<srKnown, pbKnown>>
        BY <1>7, <2>1, <2>2
    <2>3. CASE query.plain /\ queries' = q /\ srKnown' = FALSE /\ pbKnown' = FALSE
        BY <2>1, <2>3
    <2>4. CASE (~query.plain) /\ queries' = q /\ UNCHANGED <<srKnown, pbKnown>>
        BY <2>1, <2>4
    <2> QED BY <1>3, <2>2, <2>3, <2>4
<1>9. TypeOKCaches'
    BY <1>0, <1>2, <1>4, <1>5, <1>8 DEF TypeOKCaches
<1>10. BestsOrdered' /\ SlotInv' /\ OwnCourse'
    BY <1>2, <1>4, <1>5, <1>8 DEF CacheInv, BestsOrdered, SlotInv, OwnCourse
<1>11. SessionInv'
    BY <1>1, <1>3, <1>6, <1>7, <1>8 DEF SessionInv
<1>12. CacheBounds' /\ MissedTimesAreMissed'
    <2>1. \A best \in Bests : best.any \in Int
        BY <1>0, TimesAreNumbers DEF Bests
    <2>2. /\ records'[mapName].any <= records[mapName].any /\ records'[mapName].any \in Int
          /\ records[mapName].any \in Int /\ srCache \in Int /\ localPBCache \in Int /\ runTime \in Int
        BY <1>0, <1>4, <2>1, TimesAreNumbers
    <2>3. player # Nobody => /\ personal'[player][mapName].any <= personal[player][mapName].any
                             /\ personal'[player][mapName].any \in Int /\ personal[player][mapName].any \in Int
        BY <1>0, <1>1, <1>5, <2>1, TimesAreNumbers
    <2>4. CacheBounds'
        BY <1>2, <2>2, <2>3 DEF CacheInv, CacheBounds
    <2>5. timerOn => player # Nobody
        BY <1>0 DEF SlotInv
    <2>6. MissedTimesAreMissed'
        BY <1>2, <2>2, <2>3, <2>5 DEF CacheInv, MissedTimesAreMissed
    <2> QED BY <2>4, <2>6
<1>13. Renewed'
    <2>1. UNCHANGED <<mapName, mixed, player, userCount, srCache, localPBCache>>
        BY <1>2
    <2>2. ~mixed =>
             /\ srKnown => srCache <= records[mapName].plain \/ AsksRecords(queries, mapName)
             /\ pbKnown => localPBCache <= personal[player][mapName].plain \/ AsksPBs(queries, mapName, userCount)
        BY DEF CacheInv, Renewed
    <2>3. CASE query.plain /\ queries' = q \o asks /\ UNCHANGED <<srKnown, pbKnown>>
        <3>1. AsksRecords(queries', mapName)
            BY <1>7, <2>3
        <3>2. ASSUME ~mixed, pbKnown
              PROVE  localPBCache <= personal'[player][mapName].plain \/ AsksPBs(queries', mapName, userCount)
            <4>1. CASE query.user = 0
                <5>1. personal'[player][mapName].plain = personal[player][mapName].plain
                    BY <1>0, <1>1, <1>5, <3>2, <4>1
                <5>2. AsksPBs(queries, mapName, userCount) => AsksPBs(queries', mapName, userCount)
                    BY <1>6, <1>7, <2>3
                <5> QED BY <2>2, <3>2, <5>1, <5>2
            <4>2. CASE query.user # 0
                BY <1>1, <1>7, <2>3, <3>2, <4>2
            <4> QED BY <4>1, <4>2
        <3> QED BY <2>1, <2>3, <3>1, <3>2 DEF Renewed
    <2>4. CASE query.plain /\ queries' = q /\ srKnown' = FALSE /\ pbKnown' = FALSE
        BY <2>4 DEF Renewed
    <2>5. CASE (~query.plain) /\ queries' = q /\ UNCHANGED <<srKnown, pbKnown>>
        <3>1. records'[mapName].plain = records[mapName].plain
            BY <1>0, <1>4, <2>5
        <3>2. pbKnown => personal'[player][mapName].plain = personal[player][mapName].plain
            BY <1>0, <1>1, <1>5, <2>5
        <3> QED BY <1>6, <2>1, <2>2, <2>5, <3>1, <3>2 DEF Renewed
    <2> QED BY <1>3, <2>3, <2>4, <2>5
<1> QED BY <1>9, <1>10, <1>11, <1>12, <1>13 DEF CacheInv

\* One step per action.
LEMMA CacheStep == CacheInv /\ [NextCaches]_cacheVars => CacheInv'
<1> SUFFICES ASSUME CacheInv, [NextCaches]_cacheVars PROVE CacheInv'
    OBVIOUS
<1>1. CASE UNCHANGED cacheVars
    <2>1. /\ TypeOKCaches' /\ BestsOrdered' /\ SlotInv' /\ OwnCourse' /\ CacheBounds' /\ MissedTimesAreMissed'
        BY <1>1 DEF CacheInv, cacheVars, mapCacheVars, tableVars, userVars, knownVars, levelVars, timingVars,
                    TypeOKCaches, BestsOrdered, SlotInv, OwnCourse, CacheBounds, MissedTimesAreMissed
    <2>2. SessionInv' /\ Renewed'
        BY <1>1 DEF CacheInv, cacheVars, mapCacheVars, tableVars, userVars, knownVars, levelVars, timingVars,
                    SessionInv, Renewed
    <2> QED BY <2>1, <2>2 DEF CacheInv
<1>2. ASSUME \/ \E level \in Levels : SetCompareTarget(level) \/ ApplyCompareType(level)
             \/ StartCompared \/ TickCompared \/ StopCompared
             \/ \E time \in GlobalTimes : PlayerRecords(time)
      PROVE  CacheInv'
    BY <1>2, PlayerStep
<1>3. ASSUME EndCompared \/ (\E time \in Times : SomebodyEnds(time)) \/ ActivateMap \/ StartRound \/ Authorize
      PROVE  CacheInv'
    BY <1>3, AskingStep
<1>4. ASSUME (\E m \in Map : LoadMap(m)) \/ (\E steam \in Steam : Connect(steam)) \/ Disconnect
      PROVE  CacheInv'
    BY <1>4, ChangeStep
<1>5. CASE DatabaseAnswers
    <2>1. PICK query : query = Head(queries)
        OBVIOUS
    <2>2. /\ queries # <<>> /\ UNCHANGED <<saveCount, userVars, globalPBCache, levelVars, timingVars>>
          /\ \/ query.kind = "save" /\ SavedAnswer(query)
             \/ query.kind = "map" /\ MapSetUp(query)
             \/ query.kind = "courses" /\ CoursesSetUp(query)
             \/ query.kind = "client" /\ ClientSetUp(query)
             \/ query.kind = "records" /\ UpdateLocalRecordCache(query)
             \/ query.kind = "pbs" /\ UpdateLocalPBCache(query)
             \/ QueryFails(query)
        BY <1>5, <2>1 DEF DatabaseAnswers
    <2>3. CASE query.kind = "save" /\ SavedAnswer(query)
        BY <2>1, <2>2, <2>3, RunSaved
    <2>4. CASE \/ query.kind = "map" /\ MapSetUp(query)
               \/ query.kind = "courses" /\ CoursesSetUp(query)
               \/ query.kind = "client" /\ ClientSetUp(query)
        BY <2>1, <2>2, <2>4, SetupAnswered
    <2>5. CASE \/ query.kind = "records" /\ UpdateLocalRecordCache(query)
               \/ query.kind = "pbs" /\ UpdateLocalPBCache(query)
               \/ QueryFails(query)
        BY <2>1, <2>2, <2>5, TimesAnswered
    <2> QED BY <2>2, <2>3, <2>4, <2>5
<1> QED BY <1>1, <1>2, <1>3, <1>4, <1>5 DEF NextCaches

\* The caches' invariant holds in every state.
LEMMA CacheInvHolds == SpecCaches => []CacheInv
    BY CacheInit, CacheStep, PTL DEF SpecCaches

\* Every variable of the caches has its type.
THEOREM CachesTyped == SpecCaches => []TypeOKCaches
<1>1. CacheInv => TypeOKCaches
    BY DEF CacheInv
<1> QED BY <1>1, CacheInvHolds, PTL

\* Whoever is told that he missed the server record or his own best has missed
\* it, whatever was cached when, for whom and on which map
\* (surf_timer.cpp, CheckMissedTime and the caches it looks at).
THEOREM MissedIsMissed == SpecCaches => []MissedTimesAreMissed
<1>1. CacheInv => MissedTimesAreMissed
    BY DEF CacheInv
<1> QED BY <1>1, CacheInvHolds, PTL

\* With nothing left to answer, a time that is known is the best of the table
\* (surf_timer.cpp, UpdateLocalRecordCache and UpdateLocalPBCache).
THEOREM KnownIsBest == SpecCaches => []KnownTimesAreBest
<1>1. ASSUME CacheInv PROVE KnownTimesAreBest
    <2>1. SUFFICES ASSUME queries = <<>>, ~mixed
                   PROVE  /\ srKnown => records[mapName].any <= srCache /\ srCache <= records[mapName].plain
                          /\ pbKnown => /\ personal[player][mapName].any <= localPBCache
                                        /\ localPBCache <= personal[player][mapName].plain
        BY DEF KnownTimesAreBest
    <2>2. Len(queries) = 0
        BY <2>1
    <2>3. ~AsksRecords(queries, mapName) /\ ~AsksPBs(queries, mapName, userCount)
        BY <2>2 DEF AsksRecords, AsksPBs
    <2>4. pbKnown => player # Nobody
        BY <1>1 DEF CacheInv, SlotInv
    <2> QED BY <1>1, <2>1, <2>3, <2>4 DEF CacheInv, CacheBounds, Renewed
<1> QED BY <1>1, CacheInvHolds, PTL
=============================================================================
