---------------------------- MODULE ReplayArchive ----------------------------
(***************************************************************************)
(* The replay watcher (surf/replays/watcher): a thread that scans the      *)
(* replay directory every five seconds, marks the replays that need not be *)
(* kept, removes a marked one after the retention, keeps the newest manual *)
(* replays of each player, and lists what is there for the commands.       *)
(*                                                                         *)
(* Replays are written by other threads while a scan is on.  The marks are *)
(* in memory (archivedIndex) and in a file; the process may stop or crash  *)
(* at any point.  A header never changes: what it says of a replay is      *)
(* constant.  Nobody else removes files.                                   *)
(*                                                                         *)
(* A definition marked "Defect" is not part of the model: it is the next   *)
(* definition with a bug in it, which the properties must tell apart.      *)
(***************************************************************************)
EXTENDS Integers, FiniteSets

CONSTANTS
    Replays,            \* the UUIDs
    Cheater, Run, Manual,   \* the replays of each type
    Reported,           \* cheater replays with a reporter: not the anticheat's own
    Styled,             \* runs with styles
    AtFirst,            \* the replays that are there when the server starts
    Group,              \* run -> player, map, mode and course; manual replay -> player
    Time,               \* run -> its time; manual replay -> when it was saved
    Position,           \* where FindNext comes to the file of a replay
    MaxRunReplays,      \* the option maxRunReplaysPerGroup
    MaxManualReplays,   \* the option maxManualReplays
    Retention,          \* archiveRetentionMinutes, in units of the clock
    NotArchived,        \* no entry in the index
    Word,               \* 2^64: the age of a mark is unsigned
    MaxTime,            \* bound: the clock
    MaxCrashes          \* bound: restarts

ASSUME ReplayAssumption ==
    /\ IsFiniteSet(Replays)
    /\ Cheater \cup Run \cup Manual = Replays
    /\ Cheater \cap Run = {} /\ Cheater \cap Manual = {} /\ Run \cap Manual = {}
    /\ AtFirst \subseteq Replays
    /\ Reported \subseteq Cheater /\ Styled \subseteq Run
    /\ Time \in [Replays -> Nat] /\ Position \in [Replays -> Nat]
    /\ MaxRunReplays \in Nat /\ MaxManualReplays \in Nat
    /\ Retention \in Nat /\ MaxTime \in Nat /\ MaxCrashes \in Nat
    /\ Word \in Nat /\ Word > MaxTime
    /\ NotArchived \notin Nat

VARIABLES
    files, written,     \* the directory, and every replay ever written to it
    phase,              \* of the thread: "stopped", "sleep", "scan" or "save"
    todo, found,        \* of a scan: files to look at, headers read
    scanTime,           \* currentUnixTime of the scan
    firstScan,          \* it is the first one of the process
    archivedIndex, archiveDirty,
    savedIndex,         \* the file of the index
    listed,             \* the maps the commands look replays up in
    now, setBack,       \* the clock, and whether it was ever set back
    crashes,
    firstMarked         \* history: the scan that first marked a replay

directoryVars == <<files, written, savedIndex>>
scanVars      == <<phase, todo, found, scanTime, firstScan>>
indexVars     == <<archivedIndex, archiveDirty>>
archiveVars   == <<directoryVars, scanVars, indexVars, listed, now, setBack, crashes, firstMarked>>

NoIndex == [r \in Replays |-> NotArchived]
AtLeastTwo(option) == IF option < 2 THEN 2 ELSE option
Ranked == Run \ Styled

InitArchive ==
    /\ files = AtFirst /\ written = AtFirst /\ savedIndex = NoIndex
    /\ phase = "stopped" /\ todo = {} /\ found = {} /\ scanTime = 0 /\ firstScan = TRUE
    /\ archivedIndex = NoIndex /\ archiveDirty = FALSE
    /\ listed = {} /\ now = 0 /\ setBack = FALSE /\ crashes = 0
    /\ firstMarked = NoIndex

\* A writer renames its temporary file; a scan that is on sees it or not.
WriteReplay(r) ==
    /\ r \notin written
    /\ files' = files \cup {r} /\ written' = written \cup {r}
    /\ \/ UNCHANGED todo
       \/ phase = "scan" /\ todo' = todo \cup {r}
    /\ UNCHANGED <<savedIndex, phase, found, scanTime, firstScan, indexVars, listed, now, setBack, crashes, firstMarked>>

(***************************************************************************)
(* Marks and scans.                                                        *)
(***************************************************************************)
Archived(r) == archivedIndex[r] # NotArchived

\* The age of a mark, in the arithmetic of the code.
Age(r) == (scanTime - archivedIndex[r]) % Word

Expired(r) == Archived(r) /\ Age(r) >= Retention

BeginScan ==
    /\ phase' = "scan"
    /\ todo' = files /\ found' = {} /\ scanTime' = now

\* Defect: what has no mark yet counts as marked long ago.
StartMarked ==
    /\ phase = "stopped"
    /\ archivedIndex' = [r \in Replays |-> IF savedIndex[r] = NotArchived THEN 0 ELSE savedIndex[r]]
    /\ BeginScan /\ firstScan' = TRUE
    /\ UNCHANGED <<directoryVars, archiveDirty, listed, now, setBack, crashes, firstMarked>>

\* Start loads the index: an unreadable file is an empty index.
Start ==
    /\ phase = "stopped"
    /\ archivedIndex' = savedIndex
    /\ BeginScan /\ firstScan' = TRUE
    /\ UNCHANGED <<directoryVars, archiveDirty, listed, now, setBack, crashes, firstMarked>>

WakeUp ==
    /\ phase = "sleep"
    /\ BeginScan /\ firstScan' = FALSE
    /\ UNCHANGED <<directoryVars, indexVars, listed, now, setBack, crashes, firstMarked>>

\* The next file of the directory: removed when its mark is old enough.
ScanReplay(r) ==
    /\ phase = "scan" /\ r \in todo
    /\ \A q \in todo : Position[r] <= Position[q]
    /\ todo' = todo \ {r}
    /\ IF Expired(r)
       THEN /\ files' = files \ {r}
            /\ archivedIndex' = [archivedIndex EXCEPT ![r] = NotArchived]
            /\ archiveDirty' = TRUE
            /\ UNCHANGED found
       ELSE found' = found \cup {r} /\ UNCHANGED <<files, indexVars>>
    /\ UNCHANGED <<written, savedIndex, phase, scanTime, firstScan, listed, now, setBack, crashes, firstMarked>>

SameGroup(r) == {q \in found \cap Ranked : Group[q] = Group[r]}

\* Defect: the slowest runs are kept.
KeptSlowest(keep) ==
    /\ keep \subseteq found \cap Ranked
    /\ \A r \in found \cap Ranked :
          LET kept == keep \cap SameGroup(r)
          IN  /\ Cardinality(kept) <= AtLeastTwo(MaxRunReplays)
              /\ Cardinality(kept) < AtLeastTwo(MaxRunReplays) => r \in keep
              /\ \A q \in kept : r \notin keep => Time[q] >= Time[r]

\* The runs std::sort puts first in each group; the order of equal times is
\* the library's choice.
KeptRuns(keep) ==
    /\ keep \subseteq found \cap Ranked
    /\ \A r \in found \cap Ranked :
          LET kept == keep \cap SameGroup(r)
          IN  /\ Cardinality(kept) <= AtLeastTwo(MaxRunReplays)
              /\ Cardinality(kept) < AtLeastTwo(MaxRunReplays) => r \in keep
              /\ \A q \in kept : r \notin keep => Time[q] <= Time[r]

\* What ProcessCheaterReplays and ProcessRunReplays archive: reported
\* cheaters, styled runs, and the runs that are not kept.
Marked(keep) == {r \in found \cap (Reported \cup Styled \cup (Ranked \ keep)) : ~Archived(r)}

ManualOf(r) == {q \in found \cap Manual : Group[q] = Group[r]}

\* CleanupManualReplays: the newest of each player stay.
KeptManual(stay) ==
    /\ stay \subseteq found \cap Manual
    /\ \A r \in found \cap Manual :
          LET kept == stay \cap ManualOf(r)
          IN  /\ Cardinality(kept) <= AtLeastTwo(MaxManualReplays)
              /\ Cardinality(kept) < AtLeastTwo(MaxManualReplays) => r \in stay
              /\ \A q \in kept : r \notin stay => Time[q] >= Time[r]

\* The maps are replaced by what the scan found and left.
Listing(stay) == found \ (Manual \ stay)

EndScan ==
    /\ phase = "scan" /\ todo = {}
    /\ \E keep \in SUBSET (found \cap Ranked), stay \in SUBSET (found \cap Manual) :
          /\ KeptRuns(keep) /\ KeptManual(stay)
          /\ archivedIndex' = [r \in Replays |-> IF r \in Marked(keep) THEN scanTime
                                                 ELSE archivedIndex[r]]
          /\ archiveDirty' = (archiveDirty \/ Marked(keep) # {})
          /\ files' = files \ ((found \cap Manual) \ stay)
          /\ listed' = Listing(stay)
          /\ phase' = IF firstScan THEN "sleep" ELSE "save"
          /\ firstMarked' = [r \in Replays |-> IF r \in Marked(keep) /\ firstMarked[r] = NotArchived
                                               THEN scanTime ELSE firstMarked[r]]
    /\ UNCHANGED <<written, savedIndex, todo, found, scanTime, firstScan, now, setBack, crashes>>

\* After every scan but the first one of a process, when it changed.
SaveArchiveIndex ==
    /\ phase = "save"
    /\ phase' = "sleep"
    /\ IF archiveDirty THEN savedIndex' = archivedIndex /\ archiveDirty' = FALSE
       ELSE UNCHANGED <<savedIndex, archiveDirty>>
    /\ UNCHANGED <<files, written, todo, found, scanTime, firstScan, archivedIndex, listed, now, setBack,
                   crashes, firstMarked>>

(***************************************************************************)
(* The process and the clock.                                              *)
(***************************************************************************)
\* Stop waits for the thread, which leaves without a further save; a crash
\* may come at any point, within the save as well, which can leave no index.
Forget ==
    /\ phase' = "stopped" /\ crashes' = crashes + 1
    /\ todo' = {} /\ found' = {} /\ scanTime' = 0 /\ firstScan' = TRUE
    /\ archivedIndex' = NoIndex /\ archiveDirty' = FALSE /\ listed' = {}
    /\ UNCHANGED <<files, written, now, setBack, firstMarked>>

Crash ==
    /\ phase # "stopped" /\ crashes < MaxCrashes
    /\ Forget
    /\ \/ UNCHANGED savedIndex
       \/ phase = "save" /\ archiveDirty /\ savedIndex' = NoIndex

Tick ==
    /\ now < MaxTime /\ now' = now + 1
    /\ UNCHANGED <<directoryVars, scanVars, indexVars, listed, setBack, crashes, firstMarked>>

SetClockBack ==
    /\ ~setBack /\ setBack' = TRUE
    /\ now' \in 0 .. now - 1
    /\ UNCHANGED <<directoryVars, scanVars, indexVars, listed, crashes, firstMarked>>

NextArchive ==
    \/ \E r \in Replays : WriteReplay(r) \/ ScanReplay(r)
    \/ Start \/ WakeUp \/ EndScan \/ SaveArchiveIndex \/ Crash
    \/ Tick \/ SetClockBack

SpecArchive == InitArchive /\ [][NextArchive]_archiveVars

-----------------------------------------------------------------------------
\* Every variable has its type; the headers found are of files that are there.
TypeOKArchive ==
    /\ files \subseteq written /\ written \subseteq Replays
    /\ phase \in {"stopped", "sleep", "scan", "save"}
    /\ todo \subseteq files /\ found \subseteq written
    /\ phase = "scan" => found \subseteq files
    /\ scanTime \in Nat /\ now \in Nat /\ crashes \in Nat
    /\ firstScan \in BOOLEAN /\ archiveDirty \in BOOLEAN /\ setBack \in BOOLEAN
    /\ archivedIndex \in [Replays -> Nat \cup {NotArchived}]
    /\ savedIndex \in [Replays -> Nat \cup {NotArchived}]
    /\ firstMarked \in [Replays -> Nat \cup {NotArchived}]
    /\ listed \subseteq written

Removed == written \ files
Distinct(S)   == \A r, q \in S : Group[r] = Group[q] /\ Time[r] = Time[q] => r = q
DistinctTimes == Distinct(Ranked) /\ Distinct(Manual)
Faster(r) == {q \in files \cap Ranked : Group[q] = Group[r] /\ Time[q] < Time[r]}
Newer(r)  == {q \in files \cap Manual : Group[q] = Group[r] /\ Time[q] > Time[r]}

\* A run without styles is only ever removed while as many faster ones of its
\* player, map, mode and course stay as the option says, a manual replay while
\* as many newer ones stay, whatever was written during which scan and
\* whichever marks a crash lost (ProcessRunReplays, CleanupManualReplays;
\* cs2surf-server-config.txt:48).  Runs of equal times are another matter: the
\* order std::sort leaves them in may differ from scan to scan.
BestAreKept ==
    DistinctTimes =>
        /\ \A r \in Removed \cap Ranked : Cardinality(Faster(r)) >= AtLeastTwo(MaxRunReplays)
        /\ \A r \in Removed \cap Manual : Cardinality(Newer(r)) >= AtLeastTwo(MaxManualReplays)

\* A replay the retention applies to is there for all of it after the first
\* scan that gave it up, through every crash that loses marks or the index
\* (LoadArchiveIndex, cs2surf-server-config.txt:51), unless the clock is set
\* back: the age is unsigned, and a mark from the future has a huge one.
KeptForRetention ==
    [][\A r \in (files \ files') \ Manual :
          setBack \/ (firstMarked[r] # NotArchived /\ now - firstMarked[r] >= Retention)]_archiveVars

\* When no scan is on, what the commands list and look up is on the disk.
ListedAreThere == phase # "scan" => listed \subseteq files
=============================================================================
