-------------------------- MODULE RunPipelineProofs --------------------------
(***************************************************************************)
(* What RunPipeline promises, for any number of runs.  The code counts      *)
(* nothing: it tells what is done from the flags of the submission.  The    *)
(* inductive invariant says that the flags are the counts (Good), and that  *)
(* a run that has not ended has left no trace (Fresh).  At the end, that    *)
(* RunPipeline implements RunLife (LifeInv).                                *)
(***************************************************************************)
EXTENDS RunPipeline, TLAPS

\* A live submission s of the run r: n inserts, a announcements; w: the replay
\* was given to the disk; ans: the database will call back.
Good(r, s, n, a, w, ans) ==
    /\ s.localUUID = r
    /\ n = IF s.localSubmitted THEN 1 ELSE 0
    /\ a = IF s.runAnnounced THEN 1 ELSE 0
    /\ s.replayReady => w
    /\ s.finalized /\ s.eligible => s.localSubmitted
    /\ ~s.localSubmitted => s.local = s.eligible /\ ~s.received
    /\ s.localSubmitted /\ s.local => ans \/ s.received
    /\ ans => s.localSubmitted /\ s.local /\ ~s.received

\* The run r has not ended.
Unended(r) == r > started \/ (r = started /\ timerRunning)

Fresh == \A r \in Runs : Unended(r) =>
             r \notin Live /\ r \notin answering /\ inserts[r] = 0 /\ announced[r] = 0

AllGood == \A r \in Live :
    Good(r, submissions[r], inserts[r], announced[r], r \in written, r \in answering)

\* TimedRunIsRecorded, run by run.
Recording ==
    /\ \A r \in Runs : recorder[r] = "active" <=> timerRunning /\ r = started
    /\ timerRunning => started \in Runs
    /\ \A r \in Runs : r > started => recorder[r] = "none"

Types ==
    /\ connected \in BOOLEAN /\ timerRunning \in BOOLEAN /\ started \in 0 .. MaxRuns
    /\ recorder \in [Runs -> RecorderPlace]
    /\ currentRunUUID \in Runs \cup {NoRun}
    /\ Live \subseteq 1 .. started /\ submissions \in [Live -> Submission]
    /\ written \subseteq Runs /\ answering \subseteq Runs /\ cleared \subseteq Runs
    /\ inserts \in [Runs -> Nat] /\ announced \in [Runs -> Nat]

PipeInv == Types /\ Recording /\ Fresh /\ AllGood /\ DoneOnce

-----------------------------------------------------------------------------
(***************************************************************************)
(* The operators on a submission.                                          *)
(***************************************************************************)

\* The fields of a submission are Boolean.
LEMMA BooleanFields ==
    ASSUME NEW s \in Submission
    PROVE  /\ s.global \in BOOLEAN /\ s.local \in BOOLEAN /\ s.styled \in BOOLEAN
           /\ s.eligible \in BOOLEAN /\ s.replayReady \in BOOLEAN
           /\ s.finalized \in BOOLEAN /\ s.localSubmitted \in BOOLEAN
           /\ s.runAnnounced \in BOOLEAN /\ s.received \in BOOLEAN
  BY DEF Submission

\* TryFinalize commits, and submits what it has to, and changes nothing else.
LEMMA TryFinalizeFields ==
    ASSUME NEW s \in Submission
    PROVE  LET t == TryFinalize(s) IN
           /\ t \in Submission
           /\ t.localUUID = s.localUUID /\ t.age = s.age /\ t.global = s.global
           /\ t.styled = s.styled /\ t.eligible = s.eligible
           /\ t.replayReady = s.replayReady /\ t.runAnnounced = s.runAnnounced
           /\ t.received = s.received
           /\ t.finalized <=> s.finalized \/ Commits(s)
           /\ t.localSubmitted <=> s.localSubmitted \/ Submits(s)
           /\ Submits(s) => t.local = ~s.styled
           /\ ~Submits(s) => t.local = s.local
  <1> DEFINE c == s.finalized \/ Commits(s)
             f == [s EXCEPT !.finalized = c]
             g == [f EXCEPT !.localSubmitted = TRUE, !.local = ~f.styled]
  <1>1. c \in BOOLEAN
    BY DEF Submission, Commits
  <1> HIDE DEF c
  <1>2. /\ f \in Submission
        /\ f.localUUID = s.localUUID /\ f.age = s.age /\ f.global = s.global
        /\ f.styled = s.styled /\ f.eligible = s.eligible
        /\ f.replayReady = s.replayReady /\ f.runAnnounced = s.runAnnounced
        /\ f.received = s.received /\ f.localSubmitted = s.localSubmitted
        /\ f.local = s.local /\ f.finalized = c
    BY <1>1 DEF Submission
  <1>3. TryFinalize(s) = IF Submits(s) THEN g ELSE f
    BY DEF TryFinalize, SubmitLocal, c
  <1> HIDE DEF f
  <1>4. /\ g \in Submission
        /\ g.localUUID = f.localUUID /\ g.age = f.age /\ g.global = f.global
        /\ g.styled = f.styled /\ g.eligible = f.eligible
        /\ g.replayReady = f.replayReady /\ g.runAnnounced = f.runAnnounced
        /\ g.received = f.received /\ g.localSubmitted = TRUE
        /\ g.local = ~f.styled /\ g.finalized = f.finalized
    BY <1>2 DEF Submission
  <1> HIDE DEF g
  <1>5. c <=> s.finalized \/ Commits(s)
    BY DEF c
  <1>6. CASE Submits(s)
    <2>1. TryFinalize(s) = g
      BY <1>3, <1>6
    <2> QED BY <1>2, <1>4, <1>5, <1>6, <2>1
  <1>7. CASE ~Submits(s)
    <2>1. TryFinalize(s) = f
      BY <1>3, <1>7
    <2> QED BY <1>2, <1>5, <1>7, <2>1
  <1> QED BY <1>6, <1>7

\* What is good stays good when TryFinalize inserts what it submits.
LEMMA TryFinalizeGood ==
    ASSUME NEW s \in Submission, NEW r, NEW n \in Nat, NEW a \in Nat,
           NEW w \in BOOLEAN, NEW ans \in BOOLEAN, Good(r, s, n, a, w, ans)
    PROVE  Good(r, TryFinalize(s), IF Submits(s) THEN n + 1 ELSE n, a, w,
                ans \/ (Submits(s) /\ ~s.styled))
  <1> DEFINE t == TryFinalize(s)
  <1>1. /\ t \in Submission /\ t.localUUID = s.localUUID /\ t.eligible = s.eligible
        /\ t.replayReady = s.replayReady /\ t.runAnnounced = s.runAnnounced
        /\ t.received = s.received
        /\ t.finalized <=> s.finalized \/ Commits(s)
        /\ t.localSubmitted <=> s.localSubmitted \/ Submits(s)
        /\ Submits(s) => t.local = ~s.styled
        /\ ~Submits(s) => t.local = s.local
    BY TryFinalizeFields
  <1>2. Submits(s) <=> Commits(s) /\ s.local /\ ~s.localSubmitted
    BY DEF Submits
  <1> HIDE DEF t
  <1>3. CASE Submits(s)
    <2>1. Good(r, t, n + 1, a, w, ans \/ ~s.styled)
      BY <1>1, <1>2, <1>3, BooleanFields DEF Good
    <2> QED BY <1>3, <2>1 DEF t
  <1>4. CASE ~Submits(s)
    <2>1. Good(r, t, n, a, w, ans)
      BY <1>1, <1>2, <1>4, BooleanFields DEF Good
    <2> QED BY <1>4, <2>1 DEF t
  <1> QED BY <1>3, <1>4

\* The recording that arrives changes nothing else.
LEMMA ReadyFields ==
    ASSUME NEW s \in Submission
    PROVE  LET t == [s EXCEPT !.replayReady = TRUE] IN
           /\ t \in Submission /\ t.styled = s.styled
           /\ \A r, n, a, w, ans : Good(r, s, n, a, w, ans) => Good(r, t, n, a, TRUE, ans)
  <1> DEFINE t == [s EXCEPT !.replayReady = TRUE]
  <1>1. /\ t \in Submission /\ t.styled = s.styled
        /\ t.localUUID = s.localUUID /\ t.eligible = s.eligible /\ t.local = s.local
        /\ t.received = s.received /\ t.finalized = s.finalized
        /\ t.localSubmitted = s.localSubmitted /\ t.runAnnounced = s.runAnnounced
    BY DEF Submission
  <1> HIDE DEF t
  <1>2. ASSUME NEW r, NEW n, NEW a, NEW w, NEW ans, Good(r, s, n, a, w, ans)
        PROVE  Good(r, t, n, a, TRUE, ans)
    BY <1>1, <1>2 DEF Good
  <1> QED BY <1>1, <1>2 DEF t

\* The announcement is counted.
LEMMA AnnouncedFields ==
    ASSUME NEW s \in Submission, NEW b \in BOOLEAN, b => ~s.runAnnounced
    PROVE  LET t == [s EXCEPT !.runAnnounced = s.runAnnounced \/ b] IN
           /\ t \in Submission
           /\ \A r, n, w, ans : \A a \in Nat :
                 Good(r, s, n, a, w, ans) => Good(r, t, n, IF b THEN a + 1 ELSE a, w, ans)
  <1> DEFINE c == s.runAnnounced \/ b
             t == [s EXCEPT !.runAnnounced = c]
  <1>1. c \in BOOLEAN /\ (c <=> s.runAnnounced \/ b)
    BY BooleanFields
  <1> HIDE DEF c
  <1>2. /\ t \in Submission
        /\ t.localUUID = s.localUUID /\ t.eligible = s.eligible /\ t.local = s.local
        /\ t.replayReady = s.replayReady /\ t.received = s.received
        /\ t.finalized = s.finalized /\ t.localSubmitted = s.localSubmitted
        /\ t.runAnnounced = c
    BY <1>1 DEF Submission
  <1> HIDE DEF t
  <1>3. ASSUME NEW r, NEW n, NEW w, NEW ans, NEW a \in Nat, Good(r, s, n, a, w, ans)
        PROVE  Good(r, t, n, IF b THEN a + 1 ELSE a, w, ans)
    <2>1. a = IF s.runAnnounced THEN 1 ELSE 0
      BY <1>3 DEF Good
    <2>2. (IF b THEN a + 1 ELSE a) = IF t.runAnnounced THEN 1 ELSE 0
      BY <1>1, <1>2, <2>1, BooleanFields
    <2> QED BY <1>2, <1>3, <2>2, BooleanFields DEF Good
  <1> QED BY <1>2, <1>3 DEF t, c

\* A submission is good when it is created, also if it is saved at once.
LEMMA NewGood ==
    ASSUME NEW r \in Runs, NEW isGlobal \in BOOLEAN, NEW isLocal \in BOOLEAN,
           NEW isStyled \in BOOLEAN
    PROVE  LET s == [localUUID |-> r, age |-> "young",
                     global |-> isGlobal, local |-> isLocal, styled |-> isStyled,
                     eligible |-> isLocal, replayReady |-> FALSE, finalized |-> FALSE,
                     localSubmitted |-> FALSE, runAnnounced |-> FALSE, received |-> FALSE]
           IN  /\ s \in Submission /\ SubmitLocal(s) \in Submission
               /\ \A w : Good(r, s, 0, 0, w, FALSE)
               /\ \A w : Good(r, SubmitLocal(s), 1, 0, w, ~isStyled)
  <1> DEFINE s == [localUUID |-> r, age |-> "young",
                   global |-> isGlobal, local |-> isLocal, styled |-> isStyled,
                   eligible |-> isLocal, replayReady |-> FALSE, finalized |-> FALSE,
                   localSubmitted |-> FALSE, runAnnounced |-> FALSE, received |-> FALSE]
             t == [s EXCEPT !.localSubmitted = TRUE, !.local = ~s.styled]
  <1>1. /\ s \in Submission
        /\ s.localUUID = r /\ s.local = isLocal /\ s.styled = isStyled
        /\ s.eligible = isLocal /\ s.replayReady = FALSE /\ s.finalized = FALSE
        /\ s.localSubmitted = FALSE /\ s.runAnnounced = FALSE /\ s.received = FALSE
    BY DEF Submission, Ages
  <1>2. \A w : Good(r, s, 0, 0, w, FALSE)
    BY <1>1 DEF Good
  <1> HIDE DEF s
  <1>3. /\ t \in Submission
        /\ t.localUUID = r /\ t.local = ~s.styled
        /\ t.replayReady = FALSE /\ t.finalized = FALSE
        /\ t.localSubmitted = TRUE /\ t.runAnnounced = FALSE /\ t.received = FALSE
    BY <1>1 DEF Submission
  <1>4. t = SubmitLocal(s)
    BY DEF SubmitLocal
  <1> HIDE DEF t
  <1>5. \A w : Good(r, t, 1, 0, w, ~isStyled)
    BY <1>1, <1>3 DEF Good
  <1> QED BY <1>1, <1>2, <1>3, <1>4, <1>5 DEF s

LEMMA RecordingIsTimed == ASSUME Recording, timerRunning \in BOOLEAN PROVE TimedRunIsRecorded
  BY DEF Recording, TimedRunIsRecorded, In

\* A run that ends ends the only active recorder, which is its own.
LEMMA ActiveIsTimed ==
    ASSUME Recording, timerRunning
    PROVE  In("active") = {started} /\ Max(In("active")) = started
  <1>1. In("active") = {started}
    BY DEF Recording, In
  <1>2. started \in Int
    BY DEF Recording, Runs
  <1>3. Max({started}) = started
    BY <1>2 DEF Max
  <1> QED BY <1>1, <1>3

-----------------------------------------------------------------------------
(***************************************************************************)
(* The invariant.                                                          *)
(***************************************************************************)
LEMMA PipeInit == Init => PipeInv
  <1> SUFFICES ASSUME Init PROVE PipeInv
    OBVIOUS
  <1>1. Live = {} /\ submissions \in [Live -> Submission]
    BY DEF Init, Live
  <1>2. /\ recorder \in [Runs -> RecorderPlace] /\ inserts \in [Runs -> Nat]
        /\ announced \in [Runs -> Nat]
    BY DEF Init, RecorderPlace
  <1>3. started = 0 /\ started \in 0 .. MaxRuns
    BY RunAssumption DEF Init
  <1>4. Types
    BY <1>1, <1>2, <1>3 DEF Init, Types, Runs, NoRun
  <1>5. Recording
    BY DEF Init, Recording
  <1>6. Fresh /\ AllGood /\ DoneOnce
    BY <1>1 DEF Init, Fresh, AllGood, DoneOnce
  <1> QED BY <1>4, <1>5, <1>6 DEF PipeInv

\* The recorders: where they go, and that the timed run has the active one.
RecordingTypes ==
    /\ connected \in BOOLEAN /\ timerRunning \in BOOLEAN /\ started \in 0 .. MaxRuns
    /\ recorder \in [Runs -> RecorderPlace] /\ currentRunUUID \in Runs \cup {NoRun}

LEMMA RecordingStep ==
    ASSUME PipeInv, [Next]_vars
    PROVE  Recording' /\ RecordingTypes'
  <1>1. RecordingTypes /\ Recording
    BY DEF PipeInv, Types, RecordingTypes
  <1> USE DEF Recording, RecordingTypes, RecorderPlace
  <1>2. CASE TimerStart
    <2>1. /\ started' = started + 1 /\ started' \in Runs /\ started \in Nat
          /\ timerRunning' = TRUE /\ ~timerRunning
      BY <1>1, <1>2, RunAssumption DEF TimerStart, Runs
    <2>2. /\ recorder' \in [Runs -> RecorderPlace]
          /\ \A r \in Runs : recorder'[r] = IF r = started + 1 THEN "active" ELSE recorder[r]
      BY <1>1, <1>2, <2>1 DEF TimerStart
    <2>3. /\ connected' = connected /\ currentRunUUID' = NoRun
          /\ started' \in 0 .. MaxRuns
      BY <1>2, <2>1, RunAssumption DEF TimerStart, Runs
    <2>4. \A r \in Runs : recorder'[r] = "active" <=> r = started'
      BY <1>1, <2>1, <2>2
    <2>5. ASSUME NEW r \in Runs, r > started'
          PROVE  recorder'[r] = "none"
      <3>1. r > started /\ r # started + 1
        BY <2>1, <2>5 DEF Runs
      <3> QED BY <1>1, <2>2, <3>1
    <2> QED BY <1>1, <2>1, <2>2, <2>3, <2>4, <2>5
  <1>3. CASE TimerStop
    BY <1>1, <1>3 DEF TimerStop, Moved
  <1>4. ASSUME NEW isGlobal \in BOOLEAN, NEW isLocal \in BOOLEAN, NEW isStyled \in BOOLEAN,
               TimerEnd(isGlobal, isLocal, isStyled)
        PROVE  Recording' /\ RecordingTypes'
    <2>1. currentRunUUID' \in Runs
      BY <1>1, <1>4, ActiveIsTimed DEF TimerEnd
    <2>2. /\ recorder' \in [Runs -> RecorderPlace]
          /\ \A r \in Runs : recorder'[r] = IF recorder[r] = "active" THEN "breather"
                                            ELSE recorder[r]
      BY <1>1, <1>4 DEF TimerEnd, Moved
    <2>3. timerRunning' = FALSE /\ timerRunning = TRUE /\ UNCHANGED <<connected, started>>
      BY <1>1, <1>4 DEF TimerEnd
    <2>4. \A r \in Runs : r > started => recorder[r] # "active"
      BY <1>1
    <2> QED BY <1>1, <2>1, <2>2, <2>3, <2>4
  <1>5. ASSUME NEW r \in Runs, CheckRecorders(r) \/ QueueWrite(r) \/ QueueWriteToFile(r)
        PROVE  Recording' /\ RecordingTypes'
    <2>1. /\ recorder[r] \in {"breather", "serializing", "filing"}
          /\ \E place \in {"serializing", "serialized", "failed", "gone"} :
                recorder' = [recorder EXCEPT ![r] = place]
          /\ UNCHANGED <<connected, timerRunning, started, currentRunUUID>>
      BY <1>5 DEF CheckRecorders, QueueWrite, QueueWriteToFile, timerVars
    <2> QED BY <1>1, <2>1
  <1>6. CASE RunFrame
    BY <1>1, <1>6 DEF RunFrame, timerVars, Moved
  <1>7. CASE OnClientDisconnect
    BY <1>1, <1>7 DEF OnClientDisconnect
  <1>8. CASE OnClientConnect
    BY <1>1, <1>8 DEF OnClientConnect
  <1>9. CASE OnActivateServer
    BY <1>1, <1>9 DEF OnActivateServer, Moved
  <1>10. CASE UNCHANGED <<timerVars, recordingVars>>
    BY <1>1, <1>10 DEF timerVars, recordingVars
  <1> QED BY <1>2, <1>3, <1>4, <1>5, <1>6, <1>7, <1>8, <1>9, <1>10
          DEF Next, vars, Thread, CheckAll, GrowOlder, Answer

\* The submissions and what they have done.
SavedTypes ==
    /\ Live \subseteq 1 .. started /\ submissions \in [Live -> Submission]
    /\ written \subseteq Runs /\ answering \subseteq Runs /\ cleared \subseteq Runs
    /\ inserts \in [Runs -> Nat] /\ announced \in [Runs -> Nat]

SavedInv == SavedTypes /\ Fresh /\ AllGood /\ DoneOnce

\* The live submission of a run is of a run that ended, and is good.
LEMMA LiveRun ==
    ASSUME PipeInv, NEW r \in Live
    PROVE  /\ r \in Runs /\ ~Unended(r) /\ submissions[r] \in Submission
           /\ inserts[r] \in Nat /\ announced[r] \in Nat
           /\ Good(r, submissions[r], inserts[r], announced[r], r \in written, r \in answering)
  <1>1. r \in Runs
    BY RunAssumption DEF PipeInv, Types, Runs
  <1>2. ~Unended(r)
    BY <1>1 DEF PipeInv, Fresh
  <1> QED BY <1>1, <1>2 DEF PipeInv, Types, AllGood

\* Steps that leave the submissions alone: no ended run becomes unended.
LEMMA QuietStep ==
    ASSUME PipeInv, UNCHANGED <<submissions, answering, inserts, announced, cleared>>,
           written \subseteq written', written' \subseteq Runs,
           Live \subseteq 1 .. started', \A r \in Runs : Unended(r)' => Unended(r)
    PROVE  SavedInv'
  <1>1. SavedTypes'
    BY DEF PipeInv, Types, SavedTypes, Live
  <1>2. Fresh'
    BY DEF PipeInv, Fresh, Live
  <1>3. AllGood'
    BY DEF PipeInv, AllGood, Good, Live
  <1>4. DoneOnce'
    BY DEF PipeInv, DoneOnce
  <1> QED BY <1>1, <1>2, <1>3, <1>4 DEF SavedInv

\* Steps that leave the timer alone and add no submission: it is enough to look
\* at each live run.  What is deleted was done once.
LEMMA LiveStep ==
    ASSUME PipeInv, UNCHANGED timerVars, Live' \subseteq Live,
           submissions' \in [Live' -> Submission],
           written' \subseteq Runs, answering' \subseteq Runs, cleared' \subseteq Runs,
           inserts' \in [Runs -> Nat], announced' \in [Runs -> Nat],
           \A r \in Runs \ Live : /\ inserts'[r] = inserts[r] /\ announced'[r] = announced[r]
                                  /\ r \in answering' => r \in answering,
           \A r \in Live : inserts'[r] <= 1 /\ announced'[r] <= 1,
           \A r \in Live' : Good(r, submissions'[r], inserts'[r], announced'[r],
                                 r \in written', r \in answering')
    PROVE  SavedInv'
  <1>1. started' = started /\ timerRunning' = timerRunning
    BY DEF timerVars
  <1>2. SavedTypes'
    BY <1>1 DEF PipeInv, Types, SavedTypes, Live
  <1>3. Fresh'
    BY <1>1, LiveRun DEF PipeInv, Fresh, Unended, Live
  <1>4. AllGood'
    BY DEF AllGood, Live
  <1>5. DoneOnce'
    BY DEF PipeInv, DoneOnce
  <1> QED BY <1>2, <1>3, <1>4, <1>5 DEF SavedInv

\* Steps that change fields of the submissions, and no count.
LEMMA FieldStep ==
    ASSUME PipeInv, UNCHANGED <<timerVars, written, inserts, announced, cleared>>,
           Live' = Live, answering' \subseteq answering,
           submissions' \in [Live' -> Submission],
           \A r \in Live : Good(r, submissions'[r], inserts[r], announced[r],
                                r \in written, r \in answering')
    PROVE  SavedInv'
  <1>1. /\ written' \subseteq Runs /\ answering' \subseteq Runs /\ cleared' \subseteq Runs
        /\ inserts' \in [Runs -> Nat] /\ announced' \in [Runs -> Nat]
    BY DEF PipeInv, Types
  <1>2. \A r \in Runs \ Live : /\ inserts'[r] = inserts[r] /\ announced'[r] = announced[r]
                               /\ r \in answering' => r \in answering
    OBVIOUS
  <1>3. \A r \in Live : inserts'[r] <= 1 /\ announced'[r] <= 1
    BY LiveRun DEF PipeInv, DoneOnce
  <1>4. \A r \in Live' : Good(r, submissions'[r], inserts'[r], announced'[r],
                              r \in written', r \in answering')
    OBVIOUS
  <1>5. UNCHANGED timerVars /\ Live' \subseteq Live
    OBVIOUS
  <1> QED BY <1>1, <1>2, <1>3, <1>4, <1>5, LiveStep

\* The end of a run creates its submission, the only one of the run.
LEMMA EndStep ==
    ASSUME PipeInv, NEW isGlobal \in BOOLEAN, NEW isLocal \in BOOLEAN, NEW isStyled \in BOOLEAN,
           TimerEnd(isGlobal, isLocal, isStyled)
    PROVE  SavedInv'
  <1> DEFINE s == [localUUID |-> started, age |-> "young",
                   global |-> isGlobal, local |-> isLocal, styled |-> isLocal /\ isStyled,
                   eligible |-> isLocal, replayReady |-> FALSE, finalized |-> FALSE,
                   localSubmitted |-> FALSE, runAnnounced |-> FALSE, received |-> FALSE]
             now == {r \in {started} : isLocal /\ ~isGlobal}
             new == IF started \in now THEN SubmitLocal(s) ELSE s
  <1>1. /\ started \in Runs /\ timerRunning
        /\ started \notin Live /\ started \notin answering
        /\ inserts[started] = 0 /\ announced[started] = 0
    <2>1. started \in Runs /\ timerRunning
      BY DEF PipeInv, Recording, TimerEnd
    <2> QED BY <2>1 DEF PipeInv, Fresh, Unended
  <1>2. CreateAfter = started
    BY <1>1, ActiveIsTimed DEF PipeInv, TimerEnd, CreateAfter
  <1>3. /\ submissions' = [r \in Live \cup {started} |-> IF r # started THEN submissions[r]
                                 ELSE IF r \in now THEN SubmitLocal(s) ELSE s]
        /\ inserts' = Counted(inserts, now)
        /\ answering' = answering \cup (now \ {r \in now : isStyled})
        /\ timerRunning' = FALSE /\ UNCHANGED <<started, written, announced, cleared>>
    BY <1>2 DEF TimerEnd, Insert
  <1>4. /\ s \in Submission /\ SubmitLocal(s) \in Submission
        /\ Good(started, s, 0, 0, started \in written, FALSE)
        /\ Good(started, SubmitLocal(s), 1, 0, started \in written, ~(isLocal /\ isStyled))
    <2> DEFINE styled == isLocal /\ isStyled
    <2>1. styled \in BOOLEAN
      OBVIOUS
    <2> HIDE DEF styled
    <2>2. LET u == [localUUID |-> started, age |-> "young",
                    global |-> isGlobal, local |-> isLocal, styled |-> styled,
                    eligible |-> isLocal, replayReady |-> FALSE, finalized |-> FALSE,
                    localSubmitted |-> FALSE, runAnnounced |-> FALSE, received |-> FALSE]
          IN  /\ u \in Submission /\ SubmitLocal(u) \in Submission
              /\ \A w : Good(started, u, 0, 0, w, FALSE)
              /\ \A w : Good(started, SubmitLocal(u), 1, 0, w, ~styled)
      BY <1>1, <2>1, NewGood
    <2> QED BY <2>2 DEF styled
  <1> HIDE DEF s
  <1>5. /\ Live' = Live \cup {started}
        /\ \A r \in Live : submissions'[r] = submissions[r]
        /\ submissions'[started] = new
    BY <1>1, <1>3 DEF Live
  <1>6. /\ \A r \in Runs : inserts'[r] = IF r \in now THEN inserts[r] + 1 ELSE inserts[r]
        /\ inserts' \in [Runs -> Nat]
    BY <1>3 DEF Counted, PipeInv, Types
  <1>7. /\ new \in Submission
        /\ Good(started, new, inserts'[started], 0, started \in written, started \in answering')
    <2>1. CASE isLocal /\ ~isGlobal
      <3>1. now = {started} /\ new = SubmitLocal(s) /\ inserts'[started] = 1
        BY <1>1, <1>6, <2>1
      <3>2. (started \in answering') = ~(isLocal /\ isStyled)
        BY <1>1, <1>3, <2>1
      <3> QED BY <1>4, <3>1, <3>2
    <2>2. CASE ~(isLocal /\ ~isGlobal)
      <3>1. now = {} /\ new = s /\ inserts'[started] = 0
        BY <1>1, <1>6, <2>2
      <3>2. (started \in answering') = FALSE
        BY <1>1, <1>3, <3>1
      <3> QED BY <1>4, <3>1, <3>2
    <2> QED BY <2>1, <2>2
  <1>8. ASSUME NEW r \in Runs, r # started
        PROVE  inserts'[r] = inserts[r] /\ (r \in answering' <=> r \in answering)
    <2>1. r \notin now
      BY <1>8
    <2>2. r \in answering' <=> r \in answering
      BY <1>3, <2>1
    <2> QED BY <1>6, <2>1, <2>2
  <1>9. ASSUME NEW r \in Live
        PROVE  /\ submissions[r] \in Submission /\ r # started /\ r \in Runs
               /\ inserts'[r] = inserts[r]
               /\ (r \in answering') = (r \in answering)
    <2>1. submissions[r] \in Submission /\ r # started /\ r \in Runs
      BY <1>1, LiveRun
    <2> QED BY <1>8, <2>1
  <1> HIDE DEF new
  <1>10. SavedTypes'
    <2>1. submissions' \in [Live' -> Submission]
      BY <1>3, <1>5, <1>7, <1>9 DEF Live
    <2>2. Live' \subseteq 1 .. started'
      BY <1>1, <1>3, <1>5, RunAssumption DEF PipeInv, Types, Runs
    <2> QED BY <1>1, <1>3, <1>6, <2>1, <2>2 DEF SavedTypes, PipeInv, Types
  <1>11. Fresh'
    <2>1. ASSUME NEW r \in Runs, Unended(r)'
          PROVE  r # started /\ Unended(r) /\ r \notin now
      BY <1>1, <1>3, <2>1 DEF Unended, Runs
    <2> QED BY <1>3, <1>5, <1>6, <2>1 DEF Fresh, PipeInv
  <1>12. AllGood'
    <2>1. ASSUME NEW r \in Live
          PROVE  Good(r, submissions'[r], inserts'[r], announced'[r], r \in written', r \in answering')
      BY <1>3, <1>5, <1>9, LiveRun
    <2> QED BY <1>1, <1>3, <1>5, <1>7, <2>1 DEF AllGood
  <1>13. DoneOnce'
    <2>1. inserts'[started] <= 1 /\ announced' = announced
      BY <1>1, <1>3, <1>6
    <2> QED BY <1>8, <2>1 DEF DoneOnce, PipeInv
  <1> QED BY <1>10, <1>11, <1>12, <1>13 DEF SavedInv

\* A replay that arrives makes its submission ready, and perhaps commits it.
LEMMA RunFrameStep ==
    ASSUME PipeInv, RunFrame
    PROVE  SavedInv'
  <1> DEFINE done == {r \in Live : submissions[r].localUUID \in In("serialized")}
             Ready(r) == [submissions[r] EXCEPT !.replayReady = TRUE]
             new == {r \in done : Submits(Ready(r))}
  <1>1. /\ submissions' = [r \in Live |-> IF r \in done THEN TryFinalize(Ready(r))
                                          ELSE submissions[r]]
        /\ written' = written \cup {submissions[r].localUUID : r \in done}
        /\ inserts' = Counted(inserts, new)
        /\ answering' = answering \cup (new \ {r \in new : submissions[r].styled})
        /\ UNCHANGED <<timerVars, announced, cleared>>
    BY DEF RunFrame, Insert
  <1>2. \A r \in done : submissions[r].localUUID = r
    BY LiveRun DEF Good
  <1>3. /\ Live' = Live /\ done \subseteq Runs /\ new \subseteq done
        /\ written' = written \cup done
    BY <1>1, <1>2, LiveRun DEF Live
  <1>4. /\ \A r \in Runs : inserts'[r] = IF r \in new THEN inserts[r] + 1 ELSE inserts[r]
        /\ inserts' \in [Runs -> Nat]
    BY <1>1 DEF Counted, PipeInv, Types
  <1>5. ASSUME NEW r \in Live
        PROVE  /\ submissions'[r] \in Submission
               /\ Good(r, submissions'[r], inserts'[r], announced'[r],
                       r \in written', r \in answering')
    <2>1. CASE r \in done
      <3> DEFINE u == Ready(r)
                 w == r \in written'
                 ans == r \in answering
      <3>1. w = TRUE /\ ans \in BOOLEAN /\ r \in Runs /\ announced' = announced
        BY <1>1, <1>3, <2>1, LiveRun
      <3>2. /\ u \in Submission /\ u.styled = submissions[r].styled
            /\ Good(r, u, inserts[r], announced[r], TRUE, ans)
        BY LiveRun, ReadyFields
      <3>3. submissions'[r] = TryFinalize(u) /\ (r \in new <=> Submits(u))
        BY <1>1, <2>1
      <3>4. (r \in answering') = (ans \/ (Submits(u) /\ ~u.styled))
        BY <1>1, <3>2, <3>3
      <3>5. inserts'[r] = IF Submits(u) THEN inserts[r] + 1 ELSE inserts[r]
        BY <1>4, <3>1, <3>3
      <3> HIDE DEF u, ans, w
      <3>6. TryFinalize(u) \in Submission
        BY <3>2, TryFinalizeFields
      <3>7. Good(r, TryFinalize(u), IF Submits(u) THEN inserts[r] + 1 ELSE inserts[r],
                 announced[r], TRUE, ans \/ (Submits(u) /\ ~u.styled))
        BY <3>1, <3>2, LiveRun, TryFinalizeGood
      <3> QED BY <3>1, <3>3, <3>4, <3>5, <3>6, <3>7 DEF w
    <2>2. CASE r \notin done
      <3>1. /\ submissions'[r] = submissions[r] /\ inserts'[r] = inserts[r]
            /\ announced'[r] = announced[r] /\ r \notin new
        BY <1>1, <1>3, <1>4, <2>2, LiveRun
      <3>2. (r \in answering') = (r \in answering) /\ (r \in written') = (r \in written)
        BY <1>1, <1>3, <2>2, <3>1
      <3> QED BY <3>1, <3>2, LiveRun
    <2> QED BY <2>1, <2>2
  <1>6. \A r \in Runs \ Live : r \notin new
    BY <1>3
  <1>7. /\ UNCHANGED timerVars /\ Live' \subseteq Live
        /\ submissions' \in [Live' -> Submission]
        /\ written' \subseteq Runs /\ answering' \subseteq Runs /\ cleared' \subseteq Runs
        /\ announced' \in [Runs -> Nat]
    <2>1. submissions' \in [Live' -> Submission]
      BY <1>1, <1>3, <1>5
    <2> QED BY <1>1, <1>3, <2>1 DEF PipeInv, Types
  <1>8. \A r \in Runs \ Live : /\ inserts'[r] = inserts[r] /\ announced'[r] = announced[r]
                               /\ r \in answering' => r \in answering
    BY <1>1, <1>4, <1>6
  <1>9. \A r \in Live : inserts'[r] <= 1 /\ announced'[r] <= 1
    BY <1>5 DEF Good
  <1> QED BY <1>3, <1>4, <1>5, <1>7, <1>8, <1>9, LiveStep

\* What CheckAll does to one submission, deleted or not.
LEMMA CheckAllRun ==
    ASSUME PipeInv, CheckAll, NEW r \in Live
    PROVE  LET t == TryFinalize(submissions[r])
               v == [t EXCEPT !.runAnnounced = t.runAnnounced \/ Announces(t)]
           IN  /\ t \in Submission /\ v \in Submission
               /\ Good(r, v, inserts'[r], announced'[r], r \in written, r \in answering')
               /\ r \in Live' <=> ~Forgettable(t)
               /\ r \in Live' => submissions'[r] = v
  <1> DEFINE s == submissions[r]
             t == TryFinalize(s)
             b == Announces(t)
             v == [t EXCEPT !.runAnnounced = t.runAnnounced \/ b]
             T == [q \in Live |-> TryFinalize(submissions[q])]
             told == {q \in Live : Announces(T[q])}
             new == {q \in Live : Submits(submissions[q])}
             ans == r \in answering
             w == r \in written
  <1>1. /\ submissions' = [q \in {p \in Live : ~Forgettable(T[p])} |->
                              [T[q] EXCEPT !.runAnnounced = T[q].runAnnounced \/ q \in told]]
        /\ announced' = Counted(announced, told)
        /\ inserts' = Counted(inserts, new)
        /\ answering' = answering \cup (new \ {q \in new : submissions[q].styled})
    BY DEF CheckAll, Insert
  <1>2. T[r] = t /\ (r \in told <=> b) /\ (r \in new <=> Submits(s))
    OBVIOUS
  <1>3. r \in Live' <=> ~Forgettable(t)
    BY <1>1, <1>2 DEF Live
  <1>4. ASSUME r \in Live'
        PROVE  submissions'[r] = v
    <2>1. submissions'[r] = [t EXCEPT !.runAnnounced = t.runAnnounced \/ r \in told]
      BY <1>1, <1>2, <1>3, <1>4
    <2>2. (r \in told) = b
      BY <1>2 DEF Announces
    <2> QED BY <2>1, <2>2
  <1>5. /\ inserts'[r] = IF Submits(s) THEN inserts[r] + 1 ELSE inserts[r]
        /\ announced'[r] = IF b THEN announced[r] + 1 ELSE announced[r]
    BY <1>1, <1>2, LiveRun DEF Counted
  <1>6. (r \in answering') = (ans \/ (Submits(s) /\ ~s.styled))
    BY <1>1, <1>2
  <1>7. /\ s \in Submission /\ inserts[r] \in Nat /\ announced[r] \in Nat
        /\ ans \in BOOLEAN /\ w \in BOOLEAN
        /\ Good(r, s, inserts[r], announced[r], w, ans)
    BY LiveRun
  <1> HIDE DEF s, ans, w
  <1>8. /\ t \in Submission
        /\ Good(r, t, IF Submits(s) THEN inserts[r] + 1 ELSE inserts[r], announced[r], w,
                ans \/ (Submits(s) /\ ~s.styled))
    BY <1>7, TryFinalizeFields, TryFinalizeGood
  <1>9. Good(r, t, inserts'[r], announced[r], w, r \in answering')
    BY <1>5, <1>6, <1>8
  <1>10. b \in BOOLEAN /\ (b => ~t.runAnnounced)
    BY DEF Announces
  <1> HIDE DEF t, b
  <1>11. /\ v \in Submission
         /\ Good(r, v, inserts'[r], IF b THEN announced[r] + 1 ELSE announced[r], w,
                 r \in answering')
    BY <1>7, <1>8, <1>9, <1>10, AnnouncedFields
  <1>12. Good(r, v, inserts'[r], announced'[r], w, r \in answering')
    BY <1>5, <1>11
  <1> HIDE DEF v
  <1> QED BY <1>3, <1>4, <1>8, <1>11, <1>12 DEF s, t, b, v, w

LEMMA CheckAllStep ==
    ASSUME PipeInv, CheckAll
    PROVE  SavedInv'
  <1> DEFINE T == [q \in Live |-> TryFinalize(submissions[q])]
             told == {q \in Live : Announces(T[q])}
             new == {q \in Live : Submits(submissions[q])}
  <1>1. /\ announced' = Counted(announced, told)
        /\ inserts' = Counted(inserts, new)
        /\ answering' = answering \cup (new \ {q \in new : submissions[q].styled})
        /\ UNCHANGED <<timerVars, written, cleared>>
    BY DEF CheckAll, Insert, recordingVars
  <1>2. Live' \subseteq Live /\ \E f : submissions' = [r \in Live' |-> f[r]]
    <2> DEFINE D == {p \in Live : ~Forgettable(T[p])}
               f == [q \in D |-> [T[q] EXCEPT !.runAnnounced = T[q].runAnnounced \/ q \in told]]
    <2>1. submissions' = f
      BY DEF CheckAll
    <2>2. DOMAIN f = D /\ f = [r \in D |-> f[r]] /\ D \subseteq Live
      OBVIOUS
    <2>3. Live' = DOMAIN submissions'
      BY DEF Live
    <2> HIDE DEF f, D
    <2> QED BY <2>1, <2>2, <2>3
  <1>3. told \subseteq Live /\ new \subseteq Live /\ Live \subseteq Runs
    BY LiveRun
  <1>4. inserts' \in [Runs -> Nat] /\ announced' \in [Runs -> Nat]
    BY <1>1 DEF Counted, PipeInv, Types
  <1>5. \A r \in Runs \ Live : /\ inserts'[r] = inserts[r] /\ announced'[r] = announced[r]
                               /\ r \in answering' => r \in answering
    BY <1>1, <1>3 DEF Counted
  <1>6. ASSUME NEW r \in Live
        PROVE  /\ inserts'[r] <= 1 /\ announced'[r] <= 1
               /\ r \in Live' => /\ submissions'[r] \in Submission
                                 /\ Good(r, submissions'[r], inserts'[r], announced'[r],
                                         r \in written, r \in answering')
    <2> DEFINE t == TryFinalize(submissions[r])
               v == [t EXCEPT !.runAnnounced = t.runAnnounced \/ Announces(t)]
    <2>1. /\ v \in Submission
          /\ Good(r, v, inserts'[r], announced'[r], r \in written, r \in answering')
          /\ r \in Live' => submissions'[r] = v
      BY CheckAllRun
    <2> HIDE DEF v
    <2> QED BY <2>1 DEF Good
  <1> HIDE DEF T, told, new
  <1>7. submissions' \in [Live' -> Submission]
    BY <1>2, <1>6
  <1>8. written' \subseteq Runs /\ answering' \subseteq Runs /\ cleared' \subseteq Runs
    BY <1>1, <1>3 DEF PipeInv, Types
  <1> QED BY <1>1, <1>2, <1>4, <1>5, <1>6, <1>7, <1>8, LiveStep

\* Growing older changes nothing but the age.
LEMMA GrowOlderStep ==
    ASSUME PipeInv, NEW r \in Runs, GrowOlder(r)
    PROVE  SavedInv'
  <1>1. PICK next \in {"late", "overdue"} : submissions' = [submissions EXCEPT ![r].age = next]
    BY DEF GrowOlder
  <1>2. /\ r \in Live
        /\ UNCHANGED <<timerVars, written, answering, inserts, announced, cleared>>
    BY DEF GrowOlder, recordingVars
  <1> DEFINE t == [submissions[r] EXCEPT !.age = next]
  <1>3. /\ Live' = Live /\ submissions'[r] = t
        /\ \A q \in Live : q # r => submissions'[q] = submissions[q]
        /\ submissions' = [q \in Live |-> IF q = r THEN t ELSE submissions[q]]
    BY <1>1, <1>2 DEF Live, PipeInv, Types
  <1>4. /\ t \in Submission
        /\ Good(r, t, inserts[r], announced[r], r \in written, r \in answering)
    <2> DEFINE s == submissions[r]
    <2>1. s \in Submission /\ Good(r, s, inserts[r], announced[r], r \in written, r \in answering)
      BY <1>2, LiveRun
    <2>2. /\ t \in Submission
          /\ t.localUUID = s.localUUID /\ t.eligible = s.eligible /\ t.local = s.local
          /\ t.received = s.received /\ t.finalized = s.finalized
          /\ t.localSubmitted = s.localSubmitted /\ t.runAnnounced = s.runAnnounced
          /\ t.replayReady = s.replayReady
      BY <2>1 DEF Submission, Ages
    <2> HIDE DEF s, t
    <2> QED BY <2>1, <2>2 DEF Good
  <1> HIDE DEF t
  <1>5. \A q \in Live : /\ submissions'[q] \in Submission
                        /\ Good(q, submissions'[q], inserts[q], announced[q],
                                q \in written, q \in answering)
    BY <1>3, <1>4, LiveRun
  <1>6. submissions' \in [Live' -> Submission]
    BY <1>3, <1>5
  <1> QED BY <1>2, <1>3, <1>5, <1>6, FieldStep

\* The answer of the database ends the wait for it.
LEMMA AnswerStep ==
    ASSUME PipeInv, NEW r \in Runs, Answer(r)
    PROVE  SavedInv'
  <1>1. /\ r \in answering /\ answering' = answering \ {r}
        /\ UNCHANGED <<timerVars, written, inserts, announced, cleared>>
    BY DEF Answer, recordingVars
  <1>2. CASE r \notin Live
    <2>1. submissions' = submissions /\ Live' = Live
      BY <1>2 DEF Answer, Live
    <2>2. submissions' \in [Live' -> Submission]
      BY <2>1 DEF PipeInv, Types
    <2>3. \A q \in Live : (q \in answering') = (q \in answering)
      BY <1>1, <1>2
    <2>4. ASSUME NEW q \in Live
          PROVE  Good(q, submissions'[q], inserts[q], announced[q],
                      q \in written, q \in answering')
      BY <1>1, <2>1, <2>3, LiveRun
    <2> QED BY <1>1, <2>1, <2>2, <2>4, FieldStep
  <1>3. CASE r \in Live
    <2> DEFINE s == submissions[r]
    <2>1. PICK t \in {[s EXCEPT !.received = TRUE], [s EXCEPT !.local = FALSE]} :
             submissions' = [q \in Live |-> IF q = r THEN t ELSE submissions[q]]
      BY <1>3 DEF Answer, Live, PipeInv, Types
    <2>2. /\ s \in Submission
          /\ Good(r, s, inserts[r], announced[r], r \in written, TRUE)
      BY <1>1, <1>3, LiveRun
    <2>3. /\ t \in Submission
          /\ t.localUUID = s.localUUID /\ t.eligible = s.eligible
          /\ t.finalized = s.finalized
          /\ t.localSubmitted = s.localSubmitted /\ t.runAnnounced = s.runAnnounced
          /\ t.replayReady = s.replayReady
          /\ t.received = TRUE \/ t.local = FALSE
      BY <2>2 DEF Submission
    <2>4. Good(r, t, inserts[r], announced[r], r \in written, FALSE)
      BY <2>2, <2>3 DEF Good
    <2>5. Live' = Live
      BY <2>1 DEF Live
    <2>6. ASSUME NEW q \in Live
          PROVE  /\ submissions'[q] \in Submission
                 /\ Good(q, submissions'[q], inserts[q], announced[q],
                         q \in written, q \in answering')
      <3>1. CASE q = r
        <4>1. (r \in answering') = FALSE
          BY <1>1
        <4> QED BY <2>1, <2>3, <2>4, <3>1, <4>1
      <3>2. CASE q # r
        <4>1. (q \in answering') = (q \in answering)
          BY <1>1, <3>2
        <4> QED BY <2>1, <3>2, <4>1, LiveRun
      <3> QED BY <3>1, <3>2
    <2>7. submissions' \in [Live' -> Submission]
      BY <2>1, <2>5, <2>6
    <2> QED BY <1>1, <2>5, <2>6, <2>7, FieldStep
  <1> QED BY <1>2, <1>3

\* A change of map forgets the submissions, not the counts.
LEMMA ClearStep ==
    ASSUME PipeInv, OnActivateServer
    PROVE  SavedInv'
  <1>1. /\ submissions' = [r \in {} |-> NoRun] /\ cleared' = cleared \cup Live
        /\ ~timerRunning'
        /\ UNCHANGED <<started, written, answering, inserts, announced>>
    BY DEF OnActivateServer
  <1>2. Live' = {} /\ submissions' \in [Live' -> Submission]
    BY <1>1 DEF Live
  <1>3. cleared' \subseteq Runs
    BY <1>1, LiveRun DEF PipeInv, Types
  <1>4. SavedTypes'
    BY <1>1, <1>2, <1>3 DEF SavedTypes, PipeInv, Types
  <1>5. Fresh'
    BY <1>1, <1>2 DEF Fresh, Unended, PipeInv
  <1>6. AllGood' /\ DoneOnce'
    BY <1>1, <1>2 DEF AllGood, DoneOnce, PipeInv
  <1> QED BY <1>4, <1>5, <1>6 DEF SavedInv

\* CheckAll keeps what a run is owed, and deletes no submission that has
\* something left to do.
LEMMA ForgottenRun ==
    ASSUME PipeInv, CheckAll, NEW r \in Live
    PROVE  /\ r \in Live' => submissions'[r].eligible = submissions[r].eligible
           /\ r \notin Live' => /\ announced'[r] = 1 /\ r \in written
                                /\ submissions[r].eligible => inserts'[r] = 1
                                /\ r \in answering' => submissions[r].age = "overdue"
  <1> DEFINE s == submissions[r]
             t == TryFinalize(s)
             v == [t EXCEPT !.runAnnounced = t.runAnnounced \/ Announces(t)]
  <1>1. /\ t \in Submission /\ v \in Submission
        /\ Good(r, v, inserts'[r], announced'[r], r \in written, r \in answering')
        /\ r \in Live' <=> ~Forgettable(t)
        /\ r \in Live' => submissions'[r] = v
    BY CheckAllRun
  <1>2. t.eligible = s.eligible /\ t.age = s.age
    BY LiveRun, TryFinalizeFields
  <1> HIDE DEF t
  <1>3. /\ v.eligible = t.eligible /\ v.replayReady = t.replayReady
        /\ v.finalized = t.finalized /\ v.localSubmitted = t.localSubmitted
        /\ v.local = t.local /\ v.received = t.received
        /\ v.runAnnounced <=> t.runAnnounced \/ Announces(t)
    BY <1>1 DEF Submission, Announces
  <1> HIDE DEF v
  <1>4. CASE Forgettable(t)
    <2>1. /\ t.finalized /\ t.replayReady
          /\ ~Waiting(t) \/ t.age = "overdue"
      BY <1>4 DEF Forgettable
    <2>2. v.runAnnounced
      BY <1>3, <2>1 DEF Announces
    <2>3. announced'[r] = 1 /\ r \in written
      BY <1>1, <1>3, <2>1, <2>2 DEF Good
    <2>4. t.eligible => inserts'[r] = 1
      BY <1>1, <1>3, <2>1 DEF Good
    <2>5. r \in answering' => t.age = "overdue"
      BY <1>1, <1>3, <2>1 DEF Good, Waiting
    <2> QED BY <1>1, <1>2, <1>4, <2>3, <2>4, <2>5
  <1>5. CASE ~Forgettable(t)
    BY <1>1, <1>2, <1>3, <1>5
  <1> QED BY <1>4, <1>5

LEMMA PipeStep ==
    ASSUME PipeInv, [Next]_vars
    PROVE  PipeInv'
  <1>1. Recording' /\ RecordingTypes'
    BY RecordingStep
  <1> SUFFICES SavedInv'
    BY <1>1 DEF PipeInv, Types, RecordingTypes, SavedInv, SavedTypes
  <1>2. Live \subseteq 1 .. started /\ Live \subseteq Runs /\ started \in Nat /\ written \subseteq Runs
    BY LiveRun, RunAssumption DEF PipeInv, Types
  <1>3. CASE TimerStart
    <2>1. started' = started + 1 /\ ~timerRunning
          /\ UNCHANGED <<written, submissions, answering, inserts, announced, cleared>>
      BY <1>3 DEF TimerStart, savedVars
    <2>2. \A r \in Runs : Unended(r)' => Unended(r)
      BY <1>2, <2>1 DEF Unended, Runs
    <2>3. Live \subseteq 1 .. started'
      BY <1>2, <2>1
    <2> QED BY <1>2, <2>1, <2>2, <2>3, QuietStep
  <1>4. ASSUME /\ UNCHANGED <<started, submissions, answering, inserts, announced, cleared>>
               /\ timerRunning' => timerRunning
               /\ written \subseteq written' /\ written' \subseteq Runs
        PROVE  SavedInv'
    <2>1. \A r \in Runs : Unended(r)' => Unended(r)
      BY <1>4 DEF Unended
    <2> QED BY <1>2, <1>4, <2>1, QuietStep
  <1>5. CASE TimerStop \/ OnClientDisconnect \/ OnClientConnect
    BY <1>2, <1>4, <1>5 DEF TimerStop, OnClientDisconnect, OnClientConnect, savedVars
  <1>6. ASSUME NEW r \in Runs, CheckRecorders(r) \/ QueueWrite(r) \/ QueueWriteToFile(r)
        PROVE  SavedInv'
    BY <1>2, <1>4, <1>6 DEF CheckRecorders, QueueWrite, QueueWriteToFile, timerVars, savedVars
  <1>7. CASE UNCHANGED vars
    BY <1>2, <1>4, <1>7 DEF vars, timerVars, recordingVars, savedVars
  <1>8. CASE \E isGlobal, isLocal, isStyled \in BOOLEAN : TimerEnd(isGlobal, isLocal, isStyled)
    BY <1>8, EndStep
  <1>9. CASE \E r \in Runs : GrowOlder(r) \/ Answer(r)
    BY <1>9, GrowOlderStep, AnswerStep
  <1>10. CASE RunFrame \/ CheckAll \/ OnActivateServer
    BY <1>10, RunFrameStep, CheckAllStep, ClearStep
  <1> QED BY <1>3, <1>5, <1>6, <1>7, <1>8, <1>9, <1>10 DEF Next, Thread

\* The inductive invariant holds in every reachable state.
THEOREM PipelineInvariant == Spec => []PipeInv
  BY PipeInit, PipeStep, PTL DEF Spec

-----------------------------------------------------------------------------
(***************************************************************************)
(* The theorems.                                                           *)
(***************************************************************************)

\* Every variable keeps its type; who waits for the database has been submitted
\* (surf/timer/submission.cpp, SubmitLocal).
THEOREM TypeCorrect == Spec => []TypeOK
  <1>1. PipeInv => TypeOK
    BY LiveRun DEF PipeInv, Types, TypeOK, Good
  <1> QED BY <1>1, PipelineInvariant, PTL

\* The timer runs exactly when its run, and no other, is being recorded
\* (surf/recording/events.cpp).
THEOREM TimedRunsAreRecorded == Spec => []TimedRunIsRecorded
  <1>1. PipeInv => TimedRunIsRecorded
    BY RecordingIsTimed DEF PipeInv, Types
  <1> QED BY <1>1, PipelineInvariant, PTL

\* A submission carries the UUID of its own recording (TimerEnd creates it
\* after OnTimerEndPost).
THEOREM RecordingsFindTheirRuns == Spec => []RecordingFindsItsRun
  <1>1. PipeInv => RecordingFindsItsRun
    BY LiveRun DEF RecordingFindsItsRun, Good
  <1> QED BY <1>1, PipelineInvariant, PTL

\* No interleaving inserts or announces a run twice.
THEOREM RunsAreDoneOnce == Spec => []DoneOnce
  <1>1. PipeInv => DoneOnce
    BY DEF PipeInv
  <1> QED BY <1>1, PipelineInvariant, PTL

\* No submission waits for an answer that will never arrive.
THEOREM AnswersWillArrive == Spec => []WaitsForAnAnswer
  <1>1. PipeInv => WaitsForAnAnswer
    BY LiveRun DEF WaitsForAnAnswer, Good
  <1> QED BY <1>1, PipelineInvariant, PTL

\* CheckAll deletes no submission that has something left to do.
THEOREM NothingIsForgotten == Spec => ForgottenWhenDone
  <1> DEFINE Done(r) == /\ announced'[r] = 1 /\ r \in written
                        /\ submissions[r].eligible => inserts'[r] = 1
                        /\ r \in answering' => submissions[r].age = "overdue"
             A == \A r \in Live \ DOMAIN submissions' : r \notin cleared' => Done(r)
  <1>1. ASSUME PipeInv, [Next]_vars
        PROVE  [A]_vars
    <2>1. CASE CheckAll
      <3>1. \A r \in Live \ Live' : Done(r)
        BY <1>1, <2>1, ForgottenRun
      <3> QED BY <3>1 DEF Live
    <2>2. CASE OnActivateServer
      BY <2>2 DEF OnActivateServer
    <2>3. CASE UNCHANGED submissions
      BY <2>3 DEF Live
    <2>4. CASE \E isGlobal, isLocal, isStyled \in BOOLEAN : TimerEnd(isGlobal, isLocal, isStyled)
      BY <2>4 DEF TimerEnd, Live
    <2>5. CASE RunFrame
      BY <2>5 DEF RunFrame, Live
    <2>6. CASE \E r \in Runs : GrowOlder(r) \/ Answer(r)
      BY <2>6 DEF GrowOlder, Answer, Live
    <2> QED BY <1>1, <2>1, <2>2, <2>3, <2>4, <2>5, <2>6
            DEF Next, Thread, vars, savedVars, TimerStart, TimerStop, CheckRecorders,
                QueueWrite, QueueWriteToFile, OnClientDisconnect, OnClientConnect
  <1> QED BY <1>1, PipelineInvariant, PTL DEF Spec, ForgottenWhenDone

(***************************************************************************)
(* RunPipeline implements RunLife.                                         *)
(***************************************************************************)

\* The run r has ended.
Ended(r) == r \in Live \cup cleared \/ announced[r] > 0

\* What the refinement needs beside PipeInv: a run is live or dropped, not both;
\* only a run that ended has a recording under way; who is forgotten is kept.
LifeInv ==
    /\ PipeInv
    /\ Live \cap cleared = {}
    /\ \A r \in Runs : Unended(r) => r \notin cleared
    /\ \A r \in Runs : Ended(r) \/ recorder[r] \in {"none", "active", "gone"}
    /\ \A r \in Runs : announced[r] > 0 => r \in Live \cup cleared \cup written

\* The actions of RunLife, in the terms of RunPipeline.
Told(r)   == announced[r] > 0
Silent(r) == (Told(r)' <=> Told(r)) /\ (r \in written' <=> r \in written)

End(r) == Phase(r) = "open" /\ Phase(r)' = "ended" /\ Silent(r)

Work(r) ==
    /\ Phase(r) = "ended" /\ Phase(r)' \in {"ended", "forgotten"}
    /\ Time(r)' = Time(r) \/ (Time(r) = "due" /\ Time(r)' = "saved")
    /\ Told(r) => Told(r)'
    /\ r \in written => r \in written'
    /\ Phase(r)' = "forgotten" => Time(r)' # "due" /\ Told(r)' /\ r \in written'

Drop(r) ==
    /\ Phase(r) = "ended" /\ Phase(r)' = "dropped"
    /\ Time(r)' = IF Time(r) = "due" THEN "none" ELSE Time(r)
    /\ Silent(r)

Rest(r) ==
    /\ Phase(r)' = Phase(r) /\ Time(r)' = Time(r)
    /\ Told(r)' <=> Told(r)
    /\ (r \in written' <=> r \in written) \/ (Phase(r) = "dropped" /\ r \in written')

Lives(r) == End(r) \/ Work(r) \/ Drop(r) \/ Rest(r)

-----------------------------------------------------------------------------
LEMMA LifeFromRuns ==
    ASSUME \A r \in Runs : Lives(r)
    PROVE  Life!Next
  <1>1. ASSUME NEW r \in Runs
        PROVE  Life!End(r) \/ Life!Work(r) \/ Life!Drop(r) \/ Life!Rest(r)
    <2>1. Time(r)' \in {"none", "due", "saved"}
      BY DEF Time
    <2>2. CASE End(r)
      BY <2>1, <2>2 DEF End, Silent, Told, Life!End, Life!Silent
    <2>3. CASE Work(r)
      BY <2>3 DEF Work, Told, Life!Work
    <2>4. CASE Drop(r)
      BY <2>4 DEF Drop, Silent, Told, Life!Drop, Life!Silent
    <2>5. CASE Rest(r)
      BY <2>5 DEF Rest, Told, Life!Rest
    <2> QED BY <1>1, <2>2, <2>3, <2>4, <2>5 DEF Lives
  <1> QED BY <1>1 DEF Life!Next

LEMMA LifeStart == Init => LifeInv /\ Life!Init
  <1> SUFFICES ASSUME Init PROVE LifeInv /\ Life!Init
    OBVIOUS
  <1>1. PipeInv
    BY PipeInit
  <1>2. Live = {}
    BY DEF Init, Live
  <1>3. LifeInv
    BY <1>1, <1>2 DEF Init, LifeInv
  <1>4. /\ \A r \in Runs : Phase(r) = "open" /\ Time(r) = "none" /\ ~(announced[r] > 0)
        /\ written = {}
    BY <1>2 DEF Init, Phase, Time
  <1>5. Life!Init
    BY <1>4 DEF Life!Init
  <1> QED BY <1>3, <1>5

\* What a step has to do to a live run to be work on it.
LEMMA WorkRun ==
    ASSUME LifeInv, PipeInv', NEW r \in Live, cleared' = cleared,
           announced'[r] >= announced[r], r \in written => r \in written',
           \/ inserts'[r] = inserts[r]
           \/ inserts'[r] = inserts[r] + 1 /\ submissions[r].eligible,
           r \in Live' => submissions'[r].eligible = submissions[r].eligible,
           r \notin Live' => /\ announced'[r] = 1 /\ r \in written'
                             /\ submissions[r].eligible => inserts'[r] = 1
    PROVE  Work(r)
  <1>1. /\ r \in Runs /\ r \notin cleared /\ inserts[r] \in Nat /\ announced[r] \in Nat
        /\ inserts'[r] \in Nat /\ announced'[r] \in Nat /\ inserts'[r] <= 1
        /\ submissions[r].eligible \in BOOLEAN
    <2>1. r \in Runs /\ r \notin cleared /\ submissions[r] \in Submission
      BY LiveRun DEF LifeInv
    <2>2. inserts[r] \in Nat /\ announced[r] \in Nat
      BY LiveRun DEF LifeInv
    <2>3. inserts'[r] \in Nat /\ announced'[r] \in Nat /\ inserts'[r] <= 1
      BY <2>1 DEF PipeInv, Types, DoneOnce
    <2> QED BY <2>1, <2>2, <2>3, BooleanFields
  <1>2. Phase(r) = "ended" /\ Phase(r)' = IF r \in Live' THEN "ended" ELSE "forgotten"
    BY <1>1 DEF Phase
  <1>3. Told(r) => Told(r)'
    BY <1>1 DEF Told
  <1>4. Time(r)' = Time(r) \/ (Time(r) = "due" /\ Time(r)' = "saved")
    <2>1. CASE inserts'[r] = inserts[r] + 1 /\ submissions[r].eligible
      BY <1>1, <2>1 DEF Time
    <2>2. CASE inserts'[r] = inserts[r] /\ r \in Live'
      BY <1>1, <2>2 DEF Time
    <2>3. CASE inserts'[r] = inserts[r] /\ r \notin Live'
      BY <1>1, <2>3 DEF Time
    <2> QED BY <2>1, <2>2, <2>3
  <1>5. Phase(r)' = "forgotten" => Time(r)' # "due" /\ Told(r)' /\ r \in written'
    BY <1>1, <1>2 DEF Time, Told
  <1> QED BY <1>2, <1>3, <1>4, <1>5 DEF Work

\* A run that is not live rests when none of its counts changes.
LEMMA RestRun ==
    ASSUME NEW r, r \notin Live, r \notin Live', cleared' = cleared,
           announced'[r] = announced[r], inserts'[r] = inserts[r],
           r \in written' <=> r \in written
    PROVE  Rest(r)
  BY DEF Rest, Phase, Time, Told

\* A live run rests when its submission is owed what it was.
LEMMA RestLive ==
    ASSUME NEW r, r \in Live, r \in Live',
           announced'[r] = announced[r], inserts'[r] = inserts[r],
           r \in written' <=> r \in written,
           submissions'[r].eligible = submissions[r].eligible
    PROVE  Rest(r)
  BY DEF Rest, Phase, Time, Told

\* A run that ended has ended for good; it is forgotten by CheckAll alone.
LEMMA LifeInvStep ==
    ASSUME LifeInv, [Next]_vars
    PROVE  LifeInv'
  <1>1. PipeInv' /\ Recording /\ started \in Nat
    BY PipeStep, RunAssumption DEF LifeInv, PipeInv, Types
  <1>2. \A r \in Runs : announced[r] \in Nat
    BY DEF LifeInv, PipeInv, Types
  <1> DEFINE Idle == {"none", "active", "gone"}
  <1>3. ASSUME Live' = Live, UNCHANGED <<announced, cleared>>, written \subseteq written',
               \A r \in Runs : Unended(r)' => Unended(r),
               \A r \in Runs : recorder[r] \in Idle => recorder'[r] \in Idle
        PROVE  LifeInv'
    BY <1>1, <1>3 DEF LifeInv, Ended
  <1>4. CASE TimerStart
    <2>1. /\ started' = started + 1 /\ ~timerRunning /\ Live' = Live
          /\ UNCHANGED <<announced, cleared, written>>
      BY <1>4 DEF TimerStart, savedVars, Live
    <2>2. \A r \in Runs : recorder[r] \in Idle => recorder'[r] \in Idle
      BY <1>4 DEF TimerStart, LifeInv, PipeInv, Types
    <2>3. \A r \in Runs : Unended(r)' => Unended(r)
      BY <1>1, <2>1 DEF Unended, Runs
    <2> QED BY <1>3, <2>1, <2>2, <2>3
  <1>5. CASE TimerStop \/ OnClientConnect \/ OnClientDisconnect
    <2>1. /\ started' = started /\ (timerRunning' => timerRunning) /\ Live' = Live
          /\ UNCHANGED <<announced, cleared, written>>
      BY <1>5 DEF TimerStop, OnClientConnect, OnClientDisconnect, savedVars, Live
    <2>2. \A r \in Runs : recorder[r] \in Idle => recorder'[r] \in Idle
      BY <1>5 DEF TimerStop, OnClientConnect, OnClientDisconnect, Moved
    <2> QED BY <1>3, <2>1, <2>2 DEF Unended
  <1>6. ASSUME NEW isGlobal \in BOOLEAN, NEW isLocal \in BOOLEAN, NEW isStyled \in BOOLEAN,
               TimerEnd(isGlobal, isLocal, isStyled)
        PROVE  LifeInv'
    <2>1. /\ Live' = Live \cup {started}
          /\ \A r \in Runs : recorder'[r] = IF recorder[r] = "active" THEN "breather"
                                            ELSE recorder[r]
      BY <1>6 DEF TimerEnd, Moved, Live
    <2>2. /\ timerRunning /\ ~timerRunning' /\ Live' = Live \cup {started}
          /\ UNCHANGED <<started, announced, cleared, written>>
          /\ \A r \in Runs : recorder'[r] = IF recorder[r] = "active" THEN "breather"
                                            ELSE recorder[r]
      BY <1>6, <2>1 DEF TimerEnd
    <2>3. started \in Runs /\ started \notin cleared
      BY <1>1, <2>2 DEF Recording, LifeInv, Unended
    <2>4. \A r \in Runs : Ended(r)' \/ recorder'[r] \in Idle
      BY <1>1, <2>2 DEF LifeInv, Recording, Ended
    <2>5. \A r \in Runs : Unended(r)' => r \notin cleared'
      BY <2>2 DEF LifeInv, Unended
    <2> QED BY <1>1, <2>2, <2>3, <2>4, <2>5 DEF LifeInv
  <1>7. ASSUME NEW r \in Runs, CheckRecorders(r) \/ QueueWrite(r) \/ QueueWriteToFile(r)
        PROVE  LifeInv'
    <2>1. /\ recorder[r] \notin Idle /\ Live' = Live /\ written \subseteq written'
          /\ UNCHANGED <<timerRunning, started, announced, cleared>>
      BY <1>7 DEF CheckRecorders, QueueWrite, QueueWriteToFile, timerVars, savedVars, Live
    <2>2. \A q \in Runs : q # r => recorder'[q] = recorder[q]
      BY <1>7 DEF CheckRecorders, QueueWrite, QueueWriteToFile, LifeInv, PipeInv, Types
    <2> QED BY <1>3, <2>1, <2>2 DEF Unended
  <1>8. CASE RunFrame
    <2>1. /\ Live' = Live /\ written \subseteq written'
          /\ UNCHANGED <<timerRunning, started, announced, cleared>>
          /\ \A r \in Runs : recorder[r] \in Idle => recorder'[r] \in Idle
      BY <1>8 DEF RunFrame, Moved, Live, timerVars
    <2> QED BY <1>3, <2>1 DEF Unended
  <1>9. CASE CheckAll
    <2>1. /\ Live' \subseteq Live /\ UNCHANGED <<timerVars, recorder, written, cleared>>
          /\ \A r \in Runs : announced'[r] >= announced[r]
          /\ \A r \in Runs \ Live : announced'[r] = announced[r]
      BY <1>2, <1>9 DEF CheckAll, Counted, Live, recordingVars
    <2>2. \A r \in Live \ Live' : announced'[r] = 1 /\ r \in written
      BY <1>9, ForgottenRun DEF LifeInv
    <2>3. ASSUME NEW r \in Runs, Ended(r)
          PROVE  Ended(r)'
      <3>1. announced[r] \in Nat /\ announced'[r] \in Nat
        BY <1>1, <1>2 DEF PipeInv, Types
      <3>2. r \in Live \ Live' => announced'[r] > 0
        BY <2>2
      <3> QED BY <2>1, <2>3, <3>1, <3>2 DEF Ended
    <2>4. \A r \in Runs : announced'[r] > 0 => r \in Live' \cup cleared' \cup written'
      BY <2>1, <2>2 DEF LifeInv
    <2> QED BY <1>1, <2>1, <2>3, <2>4 DEF LifeInv, Unended, timerVars
  <1>10. CASE OnActivateServer
    <2>1. /\ Live' = {} /\ cleared' = cleared \cup Live /\ ~timerRunning'
          /\ UNCHANGED <<started, announced, written>>
          /\ \A r \in Runs : recorder[r] \in Idle => recorder'[r] \in Idle
          /\ \A r \in Runs : recorder'[r] = recorder[r] \/ recorder'[r] \in Idle
      BY <1>10 DEF OnActivateServer, Live, Moved
    <2>2. \A r \in Runs : Unended(r)' => Unended(r) /\ r \notin Live
      BY <2>1, LiveRun DEF Unended, LifeInv
    <2> QED BY <1>1, <2>1, <2>2 DEF LifeInv, Ended
  <1>11. ASSUME NEW r \in Runs, GrowOlder(r) \/ Answer(r)
         PROVE  LifeInv'
    <2>1. Live' = Live /\ UNCHANGED <<timerVars, recordingVars, announced, cleared>>
      BY <1>11 DEF GrowOlder, Answer, Live
    <2> QED BY <1>3, <2>1 DEF Unended, timerVars, recordingVars
  <1>12. CASE UNCHANGED vars
    <2>1. Live' = Live /\ UNCHANGED <<timerVars, recordingVars, announced, cleared>>
      BY <1>12 DEF vars, savedVars, Live
    <2> QED BY <1>3, <2>1 DEF Unended, timerVars, recordingVars
  <1> QED BY <1>4, <1>5, <1>6, <1>7, <1>8, <1>9, <1>10, <1>11, <1>12 DEF Next, Thread

\* RunFrame inserts only what is owed, and changes no live run otherwise.
LEMMA RunFrameRun ==
    ASSUME PipeInv, RunFrame, NEW r \in Live
    PROVE  /\ submissions'[r].eligible = submissions[r].eligible
           /\ \/ inserts'[r] = inserts[r]
              \/ inserts'[r] = inserts[r] + 1 /\ submissions[r].eligible
  <1> DEFINE s == submissions[r]
             u == [s EXCEPT !.replayReady = TRUE]
             done == {q \in Live : submissions[q].localUUID \in In("serialized")}
             new == {q \in done : Submits([submissions[q] EXCEPT !.replayReady = TRUE])}
  <1>1. /\ submissions'[r] = IF r \in done THEN TryFinalize(u) ELSE s
        /\ inserts'[r] = IF r \in new THEN inserts[r] + 1 ELSE inserts[r]
        /\ r \in new <=> r \in done /\ Submits(u)
    BY LiveRun DEF RunFrame, Insert, Counted
  <1>2. s \in Submission /\ Good(r, s, inserts[r], announced[r], r \in written, r \in answering)
    BY LiveRun
  <1>3. u \in Submission /\ u.eligible = s.eligible /\ u.local = s.local
        /\ u.localSubmitted = s.localSubmitted
    BY <1>2 DEF Submission
  <1> HIDE DEF s, u, done, new
  <1>4. TryFinalize(u).eligible = u.eligible
    BY <1>3, TryFinalizeFields
  <1>5. Submits(u) => s.eligible
    BY <1>2, <1>3 DEF Submits, Good
  <1> QED BY <1>1, <1>3, <1>4, <1>5 DEF s

\* So does CheckAll.
LEMMA CheckAllInserts ==
    ASSUME PipeInv, CheckAll, NEW r \in Live
    PROVE  \/ inserts'[r] = inserts[r]
           \/ inserts'[r] = inserts[r] + 1 /\ submissions[r].eligible
  <1> DEFINE s == submissions[r]
             new == {q \in Live : Submits(submissions[q])}
  <1>1. /\ inserts'[r] = IF r \in new THEN inserts[r] + 1 ELSE inserts[r]
        /\ r \in new => Submits(s)
    BY LiveRun DEF CheckAll, Insert, Counted
  <1>2. s \in Submission /\ Good(r, s, inserts[r], announced[r], r \in written, r \in answering)
    BY LiveRun
  <1> HIDE DEF s, new
  <1>3. Submits(s) => s.eligible
    BY <1>2 DEF Submits, Good
  <1> QED BY <1>1, <1>3 DEF s

LEMMA LifeStep ==
    ASSUME LifeInv, [Next]_vars
    PROVE  \A r \in Runs : Lives(r)
  <1>1. PipeInv /\ PipeInv' /\ Recording
    BY PipeStep DEF LifeInv, PipeInv
  <1> SUFFICES ASSUME NEW r \in Runs PROVE Lives(r)
    OBVIOUS
  <1>2. ASSUME UNCHANGED <<submissions, inserts, announced, cleared>>,
               (r \in written' <=> r \in written) \/ (Phase(r) = "dropped" /\ r \in written')
        PROVE  Rest(r)
    BY <1>2 DEF Rest, Phase, Time, Told, Live
  <1>3. CASE \/ TimerStart \/ TimerStop \/ OnClientConnect \/ OnClientDisconnect
             \/ \E q \in Runs : CheckRecorders(q) \/ QueueWrite(q)
    <2>1. UNCHANGED <<submissions, inserts, announced, cleared, written>>
      BY <1>3 DEF TimerStart, TimerStop, OnClientConnect, OnClientDisconnect,
                  CheckRecorders, QueueWrite, savedVars
    <2> QED BY <1>2, <2>1 DEF Lives
  <1>4. ASSUME NEW q \in Runs, QueueWriteToFile(q)
        PROVE  Lives(r)
    <2>1. /\ UNCHANGED <<submissions, inserts, announced, cleared>>
          /\ written' \in {written, written \cup {q}} /\ recorder[q] = "filing"
      BY <1>4 DEF QueueWriteToFile, savedVars
    <2>2. CASE r # q \/ r \in written
      <3>1. r \in written' <=> r \in written
        BY <2>1, <2>2
      <3> QED BY <1>2, <2>1, <3>1 DEF Lives
    <2>3. CASE r = q /\ r \notin written
      <3>1. r \in Live \cup cleared
        BY <2>1, <2>3 DEF LifeInv, Ended
      <3>2. CASE r \in Live
        <4>1. /\ Phase(r) = "ended" /\ Phase(r)' = "ended"
              /\ Time(r)' = Time(r) /\ Told(r)' = Told(r)
          BY <2>1, <3>2 DEF Phase, Time, Told, Live
        <4> QED BY <2>1, <4>1 DEF Work, Lives
      <3>3. CASE r \notin Live
        <4>1. Phase(r) = "dropped"
          BY <3>1, <3>3 DEF Phase
        <4>2. (r \in written' <=> r \in written) \/ r \in written'
          BY <2>1
        <4> QED BY <1>2, <2>1, <4>1, <4>2 DEF Lives
      <3> QED BY <3>2, <3>3
    <2> QED BY <2>2, <2>3
  <1>5. ASSUME NEW isGlobal \in BOOLEAN, NEW isLocal \in BOOLEAN, NEW isStyled \in BOOLEAN,
               TimerEnd(isGlobal, isLocal, isStyled)
        PROVE  Lives(r)
    <2>1. /\ timerRunning /\ Live' = Live \cup {started}
          /\ UNCHANGED <<started, announced, cleared, written>>
      BY <1>5 DEF TimerEnd, Live
    <2>2. started \in Runs /\ started \notin Live \cup cleared /\ announced[started] = 0
      BY <1>1, <2>1 DEF Recording, LifeInv, Unended, PipeInv, Fresh
    <2>3. CASE r = started
      <3>1. Phase(r) = "open" /\ Phase(r)' = "ended"
        BY <2>1, <2>2, <2>3 DEF Phase
      <3> QED BY <2>1, <3>1 DEF End, Silent, Told, Lives
    <2>4. CASE r # started
      <3> DEFINE now == {q \in {started} : isLocal /\ ~isGlobal}
      <3>1. inserts'[r] = inserts[r]
        <4>1. inserts'[r] = IF r \in now THEN inserts[r] + 1 ELSE inserts[r]
          BY <1>5 DEF TimerEnd, Insert, Counted
        <4>2. r \notin now
          BY <2>4
        <4> QED BY <4>1, <4>2
      <3>2. r \in Live => submissions'[r] = submissions[r]
        BY <1>5, <2>4 DEF TimerEnd
      <3>3. (r \in Live' <=> r \in Live) /\ UNCHANGED <<announced, cleared, written>>
        BY <2>1, <2>4
      <3> QED BY <3>1, <3>2, <3>3, RestRun, RestLive DEF Lives
    <2> QED BY <2>3, <2>4
  <1>6. CASE RunFrame
    <2> DEFINE done == {q \in Live : submissions[q].localUUID \in In("serialized")}
               new == {q \in done : Submits([submissions[q] EXCEPT !.replayReady = TRUE])}
    <2>1. /\ Live' = Live /\ UNCHANGED <<announced, cleared>>
          /\ written' = written \cup {submissions[q].localUUID : q \in done}
          /\ inserts'[r] = IF r \in new THEN inserts[r] + 1 ELSE inserts[r]
      BY <1>6 DEF RunFrame, Insert, Counted, Live
    <2>2. CASE r \in Live
      <3>1. announced[r] \in Nat
        BY <1>1, <2>2, LiveRun
      <3> QED BY <1>1, <1>6, <2>1, <2>2, <3>1, RunFrameRun, WorkRun DEF Lives
    <2>3. CASE r \notin Live
      <3>1. \A q \in done : submissions[q].localUUID # r
        BY <1>1, <2>3, LiveRun DEF Good
      <3>2. r \in written' <=> r \in written
        BY <2>1, <3>1
      <3>3. inserts'[r] = inserts[r]
        BY <2>1, <2>3
      <3> QED BY <2>1, <2>3, <3>2, <3>3, RestRun DEF Lives
    <2> QED BY <2>2, <2>3
  <1>7. CASE CheckAll
    <2>1. /\ Live' \subseteq Live /\ UNCHANGED <<cleared, written>>
      BY <1>7 DEF CheckAll, Live, recordingVars
    <2>2. CASE r \in Live
      <3>1. announced'[r] >= announced[r]
        BY <1>1, <1>7, <2>2, LiveRun DEF CheckAll, Counted
      <3> QED BY <1>1, <1>7, <2>1, <2>2, <3>1, ForgottenRun, CheckAllInserts, WorkRun DEF Lives
    <2>3. CASE r \notin Live
      <3>1. announced'[r] = announced[r] /\ inserts'[r] = inserts[r]
        BY <1>7, <2>3 DEF CheckAll, Counted, Insert
      <3> QED BY <2>1, <2>3, <3>1, RestRun DEF Lives
    <2> QED BY <2>2, <2>3
  <1>8. CASE OnActivateServer
    <2>1. /\ Live' = {} /\ cleared' = cleared \cup Live
          /\ UNCHANGED <<announced, inserts, written>>
      BY <1>8 DEF OnActivateServer, Live
    <2>2. CASE r \in Live
      <3>1. Phase(r) = "ended" /\ Phase(r)' = "dropped"
        BY <2>1, <2>2 DEF Phase
      <3>2. Time(r)' = IF Time(r) = "due" THEN "none" ELSE Time(r)
        BY <2>1 DEF Time
      <3> QED BY <2>1, <3>1, <3>2 DEF Drop, Silent, Told, Lives
    <2>3. CASE r \notin Live
      BY <2>1, <2>3 DEF Rest, Phase, Time, Told, Lives
    <2> QED BY <2>2, <2>3
  <1>9. ASSUME NEW q \in Runs, GrowOlder(q) \/ Answer(q)
        PROVE  Lives(r)
    <2>1. Live' = Live /\ UNCHANGED <<inserts, announced, cleared, written>>
      BY <1>9 DEF GrowOlder, Answer, Live, recordingVars
    <2>2. CASE r \in Live
      <3>1. submissions[r] \in Submission
        BY <1>1, <2>2, LiveRun
      <3>2. CASE GrowOlder(q)
        BY <2>1, <2>2, <3>1, <3>2, RestLive DEF GrowOlder, Submission, Live, Lives
      <3>3. CASE Answer(q)
        BY <2>1, <2>2, <3>1, <3>3, RestLive DEF Answer, Submission, Live, Lives
      <3> QED BY <1>9, <3>2, <3>3
    <2>3. CASE r \notin Live
      BY <2>1, <2>3, RestRun DEF Lives
    <2> QED BY <2>2, <2>3
  <1>10. CASE UNCHANGED vars
    BY <1>2, <1>10 DEF vars, savedVars, recordingVars, Lives
  <1> QED BY <1>3, <1>4, <1>5, <1>6, <1>7, <1>8, <1>9, <1>10 DEF Next, Thread

\* RunPipeline implements RunLife: however many runs there are, and however the
\* recordings, the frames, the answers and the changes of the map interleave,
\* each run is saved at most once, and forgotten with nothing left to do
\* (surf/timer/submission.cpp, surf/recording).
THEOREM RunsLiveAsTheyShould == Spec => RunsLiveAsPromised
  <1>1. Init => LifeInv /\ Life!Init
    BY LifeStart
  <1>2. LifeInv /\ [Next]_vars => LifeInv'
    BY LifeInvStep
  <1>3. LifeInv /\ [Next]_vars => Life!Next
    BY LifeStep, LifeFromRuns
  <1> QED BY <1>1, <1>2, <1>3, PTL DEF Spec, RunsLiveAsPromised, Life!Spec
=============================================================================
