------------------------------ MODULE RunPipeline ------------------------------
(***************************************************************************)
(* What becomes of a run: its recorder (surf/recording), the thread that   *)
(* serializes the recording, and its RunSubmission (surf/timer), which     *)
(* waits for the recording, the timeouts and the database before it saves  *)
(* the time, announces the run and is forgotten.                           *)
(*                                                                         *)
(* A run is known by its number in the order of the starts.  Runs of       *)
(* different players meet nowhere but in CheckAll, which treats each by    *)
(* itself, so one player with several runs is enough.  Time is only the    *)
(* age of a submission: young, past `timeout` (5 s), or past               *)
(* `announcementTimeout` (10 s).  The 4 s a recording goes on are game     *)
(* time, which may lag behind, so it may end at any age.                   *)
(*                                                                         *)
(* Left out: the API, whose answers the code has commented out (so no      *)
(* global response ever comes), what is recorded, saved locations that     *)
(* turn a stopped timer on again, and the plugin's unloading.              *)
(*                                                                         *)
(* A definition marked "Defect" is not part of the model: it is the next   *)
(* definition with a bug in it, which the properties must tell apart.      *)
(***************************************************************************)
EXTENDS Naturals, FiniteSetsExt

CONSTANT MaxRuns    \* bound: the runs the player starts

ASSUME RunAssumption == MaxRuns \in Nat

Runs  == 1 .. MaxRuns
NoRun == 0                  \* UUID_t(false)

VARIABLES
    connected,
    \* SurfTimerService
    timerRunning,
    started,            \* the run started last, which is the one being timed
    \* SurfRecordingService
    recorder,           \* run -> where its recorder is
    currentRunUUID,
    written,            \* the runs whose replay was given to the disk
    \* RunSubmission
    submissions,        \* the live submissions: run -> its fields
    \* the database
    answering,          \* the runs whose transaction will call back
    \* history
    inserts,            \* run -> transactions sent
    announced,          \* run -> times announced
    cleared             \* the runs a change of map forgot

timerVars     == <<connected, timerRunning, started>>
recordingVars == <<recorder, currentRunUUID, written>>
savedVars     == <<submissions, answering, inserts, announced, cleared>>
vars          == <<timerVars, recordingVars, savedVars>>

RecorderPlace == {"none", "active", "breather",     \* desiredStopTime < 0, > 0
                  "serializing", "filing",          \* on a thread of its own
                  "serialized", "failed",           \* in m_completedCallbacks
                  "gone"}
Ages == {"young", "late", "overdue"}

\* The fields of a submission.  received: localResponse.received; eligible: the
\* value local was created with.
Submission ==
    [localUUID : Runs \cup {NoRun}, age : Ages,
     global : BOOLEAN, local : BOOLEAN, styled : BOOLEAN, eligible : BOOLEAN,
     replayReady : BOOLEAN, finalized : BOOLEAN, localSubmitted : BOOLEAN,
     runAnnounced : BOOLEAN, received : BOOLEAN]

Live == DOMAIN submissions

Init ==
    /\ connected = TRUE /\ timerRunning = FALSE /\ started = 0
    /\ recorder = [r \in Runs |-> "none"] /\ currentRunUUID = NoRun /\ written = {}
    /\ submissions = [r \in {} |-> NoRun] /\ answering = {}
    /\ inserts = [r \in Runs |-> 0] /\ announced = [r \in Runs |-> 0] /\ cleared = {}

In(place) == {r \in Runs : recorder[r] = place}

\* Every recorder that is at one of the places `from` goes to the place `to`.
Moved(from, to) == [r \in Runs |-> IF recorder[r] \in from THEN to ELSE recorder[r]]

\* Once more for every run of R.
Counted(count, R) == [r \in Runs |-> IF r \in R THEN count[r] + 1 ELSE count[r]]

(***************************************************************************)
(* Steps of a submission s.                                                *)
(***************************************************************************)

\* A styled run is inserted without a callback, so nothing is waited for.
SubmitLocal(s) == [s EXCEPT !.localSubmitted = TRUE, !.local = ~s.styled]

\* The conditions of TryFinalize.  A run of a global mode waits for its replay,
\* and then for the API until the timeout.
Commits(s) == ~s.finalized /\ (s.global => s.replayReady /\ s.age # "young")

Submits(s) == Commits(s) /\ s.local /\ ~s.localSubmitted

TryFinalize(s) ==
    LET t == [s EXCEPT !.finalized = @ \/ Commits(s)]
    IN  IF Submits(s) THEN SubmitLocal(t) ELSE t

Waiting(s) == s.global \/ (s.local /\ ~s.received)

\* Defect: the time is up, and nobody is told.
AnnouncesIfAnswered(s) == ~s.runAnnounced /\ ~Waiting(s)

\* CheckAll, after TryFinalize.
Announces(s) == ~s.runAnnounced /\ (~Waiting(s) \/ (s.finalized /\ s.age = "overdue"))

\* Defect: the replay is not waited for.
ForgettableUnrecorded(s) == s.finalized /\ (~Waiting(s) \/ s.age = "overdue")

\* CheckAll deletes the submission.
Forgettable(s) == s.finalized /\ (~Waiting(s) \/ s.age = "overdue") /\ s.replayReady

\* The transactions of the runs of R go to the database.
Insert(R, styled) ==
    /\ inserts' = Counted(inserts, R)
    /\ answering' = answering \cup (R \ styled)

(***************************************************************************)
(* The timer and its listener, SurfRecordingService.                       *)
(***************************************************************************)

\* A start zone starts no timer that runs.
TimerStart ==
    /\ connected /\ ~timerRunning /\ started < MaxRuns
    /\ timerRunning' = TRUE /\ started' = started + 1
    /\ recorder' = [recorder EXCEPT ![started + 1] = "active"]
    /\ currentRunUUID' = NoRun
    /\ UNCHANGED <<connected, written, savedVars>>

\* Defect: the recorder of the stopped run is kept.
TimerStopOnly ==
    /\ timerRunning
    /\ timerRunning' = FALSE
    /\ UNCHANGED <<connected, started, recordingVars, savedVars>>

TimerStop ==
    /\ timerRunning
    /\ timerRunning' = FALSE
    /\ recorder' = Moved({"active"}, "gone")
    /\ UNCHANGED <<connected, started, currentRunUUID, written, savedVars>>

\* RunSubmission::Create comes after OnTimerEndPost, which ends the active
\* recorder and gives it the UUID of the run.
CreateAfter == currentRunUUID'

\* A run in a mode the API does not know is saved at once.  Whether it is styled
\* matters only to a time that is to be saved.
TimerEnd(isGlobal, isLocal, isStyled) ==
    /\ timerRunning
    /\ timerRunning' = FALSE
    /\ recorder' = Moved({"active"}, "breather")
    /\ currentRunUUID' = IF In("active") = {} THEN currentRunUUID ELSE Max(In("active"))
    /\ LET s == [localUUID |-> CreateAfter, age |-> "young",
                 global |-> isGlobal, local |-> isLocal, styled |-> isLocal /\ isStyled,
                 eligible |-> isLocal, replayReady |-> FALSE, finalized |-> FALSE,
                 localSubmitted |-> FALSE, runAnnounced |-> FALSE, received |-> FALSE]
           now == {r \in {started} : isLocal /\ ~isGlobal}
       IN  /\ submissions' = [r \in Live \cup {started} |->
                                 IF r # started THEN submissions[r]
                                 ELSE IF r \in now THEN SubmitLocal(s) ELSE s]
           /\ Insert(now, {r \in now : isStyled})
    /\ UNCHANGED <<connected, started, written, announced, cleared>>

(***************************************************************************)
(* The recording.                                                          *)
(***************************************************************************)

\* The breather is over, the recorder goes to a thread.  Of two, the older one
\* is due first.
CheckRecorders(r) ==
    /\ connected
    /\ recorder[r] = "breather" /\ \A q \in In("breather") : r <= q
    /\ recorder' = [recorder EXCEPT ![r] = "serializing"]
    /\ UNCHANGED <<timerVars, currentRunUUID, written, savedVars>>

\* WriteToMemory, and a callback for the main thread.
QueueWrite(r) ==
    /\ recorder[r] = "serializing"
    /\ \E outcome \in {"serialized", "failed"} :
          recorder' = [recorder EXCEPT ![r] = outcome]
    /\ UNCHANGED <<timerVars, currentRunUUID, written, savedVars>>

\* WriteToFile, without a callback.
QueueWriteToFile(r) ==
    /\ recorder[r] = "filing"
    /\ recorder' = [recorder EXCEPT ![r] = "gone"]
    /\ written' \in {written, written \cup {r}}
    /\ UNCHANGED <<timerVars, currentRunUUID, savedVars>>

\* RunFrame runs every callback.  A recording finds its submission by the
\* UUID; without one it is dropped, a failure is only told to the player.
RunFrame ==
    /\ In("serialized") \cup In("failed") # {}
    /\ recorder' = Moved({"serialized", "failed"}, "gone")
    /\ LET done == {r \in Live : submissions[r].localUUID \in In("serialized")}
           Ready(r) == [submissions[r] EXCEPT !.replayReady = TRUE]
           new == {r \in done : Submits(Ready(r))}
       IN  /\ submissions' = [r \in Live |-> IF r \in done THEN TryFinalize(Ready(r))
                                             ELSE submissions[r]]
           /\ written' = written \cup {submissions[r].localUUID : r \in done}
           /\ Insert(new, {r \in new : submissions[r].styled})
    /\ UNCHANGED <<timerVars, currentRunUUID, announced, cleared>>

(***************************************************************************)
(* The submissions.                                                        *)
(***************************************************************************)

\* Once per game frame.
CheckAll ==
    /\ Live # {}
    /\ LET t == [r \in Live |-> TryFinalize(submissions[r])]
           told == {r \in Live : Announces(t[r])}
           new == {r \in Live : Submits(submissions[r])}
       IN  /\ submissions' = [r \in {q \in Live : ~Forgettable(t[q])} |->
                                 [t[r] EXCEPT !.runAnnounced = @ \/ r \in told]]
           /\ announced' = Counted(announced, told)
           /\ Insert(new, {r \in new : submissions[r].styled})
    /\ UNCHANGED <<timerVars, recordingVars, cleared>>

\* Time passes: timeout, then announcementTimeout.  Older submissions come of
\* age first.
GrowOlder(r) ==
    /\ r \in Live
    /\ \E next \in {"late", "overdue"} :
          /\ submissions[r].age = IF next = "late" THEN "young" ELSE "late"
          /\ \A q \in Live : q < r => submissions[q].age \in {next, "overdue"}
          /\ submissions' = [submissions EXCEPT ![r].age = next]
    /\ UNCHANGED <<timerVars, recordingVars, answering, inserts, announced, cleared>>

\* onSuccess or onFailure, which may find the submission gone.
Answer(r) ==
    /\ r \in answering
    /\ answering' = answering \ {r}
    /\ IF r \in Live
       THEN \/ submissions' = [submissions EXCEPT ![r].received = TRUE]
            \/ submissions' = [submissions EXCEPT ![r].local = FALSE]
       ELSE UNCHANGED submissions
    /\ UNCHANGED <<timerVars, recordingVars, inserts, announced, cleared>>

(***************************************************************************)
(* Connections and maps.                                                   *)
(***************************************************************************)

\* TimerStop drops the active recorder, the others are written to files.
OnClientDisconnect ==
    /\ connected
    /\ connected' = FALSE /\ timerRunning' = FALSE
    /\ recorder' = [r \in Runs |-> CASE recorder[r] = "active"   -> "gone"
                                     [] recorder[r] = "breather" -> "filing"
                                     [] OTHER                    -> recorder[r]]
    /\ UNCHANGED <<started, currentRunUUID, written, savedVars>>

\* Reset.  Bound: who has no run left does not come back.
OnClientConnect ==
    /\ ~connected /\ started < MaxRuns
    /\ connected' = TRUE
    /\ currentRunUUID' = NoRun
    /\ UNCHANGED <<timerRunning, started, recorder, written, savedVars>>

\* Clear and Reset; the first round of the map stops the timer before anybody
\* can touch a zone.
OnActivateServer ==
    /\ submissions' = [r \in {} |-> NoRun] /\ cleared' = cleared \cup Live
    /\ timerRunning' = FALSE
    /\ recorder' = Moved({"active", "breather"}, "gone")
    /\ currentRunUUID' = NoRun
    /\ UNCHANGED <<connected, started, written, answering, inserts, announced>>

(***************************************************************************)
(* The specification.  The engine runs the frames, and time passes.        *)
(* Nobody has to come back, the database need not answer.                  *)
(***************************************************************************)
Thread(r) == QueueWrite(r) \/ QueueWriteToFile(r)

Next ==
    \/ TimerStart
    \/ TimerStop
    \/ \E isGlobal, isLocal, isStyled \in BOOLEAN : TimerEnd(isGlobal, isLocal, isStyled)
    \/ \E r \in Runs : CheckRecorders(r) \/ Thread(r) \/ GrowOlder(r) \/ Answer(r)
    \/ RunFrame
    \/ CheckAll
    \/ OnClientDisconnect
    \/ OnClientConnect
    \/ OnActivateServer

Spec == Init /\ [][Next]_vars

Fairness ==
    /\ WF_vars(RunFrame) /\ WF_vars(CheckAll)
    /\ \A r \in Runs : WF_vars(GrowOlder(r))

FairSpec == Spec /\ Fairness

-----------------------------------------------------------------------------
(***************************************************************************)
(* Properties.                                                             *)
(***************************************************************************)
TypeOK ==
    /\ connected \in BOOLEAN /\ timerRunning \in BOOLEAN /\ started \in 0 .. MaxRuns
    /\ recorder \in [Runs -> RecorderPlace]
    /\ currentRunUUID \in Runs \cup {NoRun}
    /\ Live \subseteq 1 .. started /\ submissions \in [Live -> Submission]
    /\ written \subseteq Runs /\ answering \subseteq Runs /\ cleared \subseteq Runs
    /\ inserts \in [Runs -> Nat] /\ announced \in [Runs -> Nat]
    /\ \A r \in Live \cap answering : submissions[r].localSubmitted

\* The timer runs exactly when a recorder records without an end in sight, and
\* it is the one of the run being timed: recorders of stopped runs do not
\* pile up, and none ends with a later run.
TimedRunIsRecorded == In("active") = IF timerRunning THEN {started} ELSE {}

\* The recording that comes back finds the submission of its own run.
RecordingFindsItsRun == \A r \in Live : submissions[r].localUUID = r

\* However the end of the run, the replay, the timeouts and the database's answers
\* interleave, a run is inserted at most once, and announced at most once.
DoneOnce == \A r \in Runs : inserts[r] <= 1 /\ announced[r] <= 1

\* No submission waits for an answer of the database "that will never arrive":
\* what it waits for is on the way, or here.
WaitsForAnAnswer ==
    \A r \in Live : LET s == submissions[r] IN
        s.localSubmitted /\ s.local => r \in answering \/ s.received

\* Who is neither live nor dropped has been forgotten if it was announced, and
\* has not ended else.
Phase(r) == IF r \in Live THEN "ended"
            ELSE IF r \in cleared THEN "dropped"
            ELSE IF announced[r] > 0 THEN "forgotten" ELSE "open"

Time(r) == IF inserts[r] > 0 THEN "saved"
           ELSE IF r \in Live /\ submissions[r].eligible THEN "due" ELSE "none"

Life == INSTANCE RunLife WITH
    phase <- [r \in Runs |-> Phase(r)],
    time <- [r \in Runs |-> Time(r)],
    announced <- {r \in Runs : announced[r] > 0},
    kept <- written

\* Every run lives as RunLife promises: saved once, announced, kept, and only
\* then forgotten.
RunsLiveAsPromised == Life!Spec

\* A submission that CheckAll deletes leaves nothing undone: the run was
\* announced, its replay given to the disk, its time to the database; and the
\* answer of the database, if there was one to come, was waited for.
ForgottenWhenDone ==
    [][ \A r \in Live \ DOMAIN submissions' : r \notin cleared' =>
          /\ announced'[r] = 1 /\ r \in written
          /\ submissions[r].eligible => inserts'[r] = 1
          /\ r \in answering' => submissions[r].age = "overdue" ]_vars

\* "Keep alive until the replay breather ends and OnReplayReady fires": a run
\* that needs no replay to be saved, or whose replay is serialized, is announced
\* and its replay taken, unless the map changes first.
RunsAreFinished ==
    \A r \in Runs :
        (r \in Live /\ (submissions[r].global => recorder[r] = "serialized" \/ submissions[r].replayReady))
            ~> ((announced[r] = 1 /\ recorder[r] # "serialized") \/ r \in cleared)

\* The insert is deferred to the answer of the API or the timeout, and not
\* for good: a time that is to be saved is saved, unless the map changes.
TimesAreSaved ==
    \A r \in Runs : (r \in Live /\ submissions[r].eligible)
                        ~> (inserts[r] = 1 \/ r \in cleared)
=============================================================================
