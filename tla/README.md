# A verification project for cs2surf

cs2surf is a Metamod plugin that runs the Surf game mode on Counter-Strike 2
servers: zones on the map start, split and end a player's timed run; runs are
recorded, submitted to a local database and a global API, and can be replayed
by a bot.  This directory models its state machines in TLA+, checks them with
TLC on small instances and proves what matters most with TLAPS for every value
of the constants.

Source paths below are relative to `src/src/` unless they start elsewhere.

1. Inventory - 2. Modules - 3. Runs - 4. Bounds, deadlock, fairness -
5. Proofs - 6. Where the code and what it says disagree - 7. Not modelled -
8. Plan

## 1. Inventory

| component | state it keeps | operations | what is hard about it |
|---|---|---|---|
| run timer, `surf/timer/surf_timer.*` | running, time, course, stage, counters, split vectors, pause; caches of records and bests | zone touches, tick, pause, resume, stop, end, compare | every command, death, team change and engine step may come between any two touches; the caches are shared over maps and players |
| chat commands, `surf/misc` | none of their own | stop, restart, stage, bonus, end, spectate, join | each resets part of the timer, in an order of its own |
| triggers, `surf/trigger` | the triggers a player touches, waiting pushes | start touch, touch, end touch, per tick and half tick | filters change, entities vanish, lists change while walked |
| spectating, `surf/spec`; noclip, `surf/noclip` | saved position; flag | commands, tick | the flag, the move type and the run must agree |
| global connection, `surf/global` | connection state, two queues, waiting callbacks, current map | socket events, tick, players, maps | two threads, reconnecting, events that cross |
| replay loading, `surf/replays/data.cpp`, commands, bot | load status, current replay, bot | load, cancel, install, end | detached threads, memory freed by hand, cancellation |
| replay format and playback, `surf/replays` | ticks and events of a file, position, pauses | pack, read back, play, pause, jump | delta coding, chunks, a jump rebuilds the time from events |
| replay watcher, `surf/replays/watcher.cpp` | index of replay files, marks | scan, mark, remove, list | a scan thread, crashes, the clock |
| recording, `surf/recording` | recorders, circular buffers, chunk files, writer threads | start, stop, break, put aside, write | recorders outlive the run; threads call back |
| asynchronous file I/O, `utils/async_file_io` | a queue, a worker | queue, drain, stop | the order the threads are stopped in |
| submission, `surf/timer/submission.*` | one record per finished run | replay ready, answers, timeouts | three answers in any order, map changes |
| record queries, `surf/timer/queries` | one request per question | look up, ask, answer, time out | four answers that come late, fail or never come |
| saved locations, `surf/checkpoint` | a list of positions and times | save, teleport, undo | they restore the time of a run |
| preferences, `surf/option` | preferences and where they came from | load, merge, choose, save | two sources in either order, late answers, slots that change hands |
| mapping API, `surf/mappingapi` | course descriptors, a sorted list | create, count, validate, register | invalid maps, late answers |
| database, `surf/db` | connection, set-up flags | connect, migrate, one transaction per question | answers come frames, rounds or maps later |
| modes and styles, `surf/mode`, `surf/style` | registries with the IDs of the database, the rules of a player | register, switch, add, remove, clear; the settings of a move | plugins that come and go; console variables shared by all players |
| movement, `movement`; players and hooks, `surf/surf_player.*`, `utils/hooks.cpp` | move data, flags of the last move | hooks around the engine's steps | what the engine does between two hooks must be noticed |
| circular buffer, `utils/circularfifobuffer.h` | a ring | write, read by position | it overwrites what others refer to |
| presentation, anticheat and telemetry, cvar queries | | output and periodic checks | |
| SDK, game configuration, patches, vendored libraries | | | not part of the program's logic |

How they interact.  The engine calls the hooks (`utils/hooks.cpp`), which call
the player's services.  A zone touch goes from the trigger service to the timer
service; the timer service calls event listeners (recording, spectating, styles)
before and after it starts, ends, stops, pauses.  TimerEnd creates a submission,
which waits for the recording's writer thread, the database and the API.  The
database's worker, the WebSocket, the loading, scanning and writing threads
never touch game state: they leave work in queues, status structures and files
which the main thread takes up once per tick or frame.

### What makes each component correct

* Timer: a run that ends covered its course; a run that covered it ends; nobody
  runs dead, flying, or unfrozen while paused; splits fit the run; who is told
  that he missed a time has missed it.
* Triggers: the timer hears of starts and ends in turn; every push is given when
  it is due.
* Connection: the API hears of every player it should; no answer is lost to its
  own callback; the connection is never left in a state nobody leaves.
* Replays: an answer belongs to its request; memory is owned once; a bot replays
  runs of this map only, tick by tick, with the time and mode they had; every
  request is answered; the best runs stay on the disk.
* Recording and submission: a finished run is saved once, announced once and
  forgotten; a recording covers its run; its chunks are read before they are
  removed; the unload ends.
* Record queries: one answer, with all that had arrived.
* Preferences: what the player set wins, then the newest, in either order, and
  nobody gets another player's.
* Mapping API and database: courses have their own map's IDs and splits; modes
  and styles have the IDs of their rows.
* Rules of a move: the mode, course and style of the player whose move it is;
  a run keeps the rules it was started with; both halves of a doubled tick are
  simulated; the services know where a player stands; teleports stick; the clock
  shows times of the run that is on.

The hazards behind these, one by one and at their lines, are in `PROJECT.json`.

## 2. Modules

| module | models | proofs | instance for TLC |
|---|---|---|---|
| `SurfTimer` | the timer of one player with the zones, commands, pausing, spectating, noclip | `SurfTimerProofs` | `MCSurfTimer` |
| `GlobalConnection` | `SurfGlobalService`, both threads, and the API's side of a link | `GlobalConnectionProofs` | its `.cfg` |
| `ReplayLoad` | asynchronous loading, cancellation and the life of a playback | `ReplayProofs` | its `.cfg` |
| `RunPipeline` | what becomes of a run: recorder, writing thread, submission | `RunPipelineProofs` | its `.cfg` |
| `RunLife` | what the pipeline promises: each run open, ended, then forgotten or dropped | implemented by `RunPipeline` | |
| `FileWorkers` | chunk files, the writing threads, the worker, the order they stop in | `ReplayProofs` | `MCFileWorkers` |
| `ReplayTape` | recording a run tick by tick, its file, its playback | `ReplayProofs` | `MCReplayTape` |
| `ReplayArchive` | the watcher: scans, marks, retention, crashes | `ReplayProofs` | `MCReplayArchive` |
| `Preferences` | preferences over the sessions of a slot | `PreferencesProofs` | `MCPreferences` |
| `MapSetup` | courses over rounds and maps, and their IDs | `MapSetupProofs` | `MCMapSetup` |
| `TimeCaches` | the cached records and bests, and who is told he missed one | `MapSetupProofs` | `MCMapSetup` |
| `RecordQueries` | the requests for records | `PlayerProofs` | `MCRecordQueries` |
| `TriggerTouch` | the list of touched triggers and the pushes | `PlayerProofs` | `MCTriggerTouch` |
| `ModesStyles` | the rules of a player's moves: mode, styles, shared variables | `PlayerProofs` | `MCPlayer` |
| `TickRates` | modes of other tick rates on a server of 64 ticks | `PlayerProofs` | `MCPlayer` |
| `Movement` | the hooks around a move | `PlayerProofs` | `MCPlayer` |
| `SavedLocations` | saved locations and the clock | `PlayerProofs` | `MCPlayer` |
| `PluginIDs` | the registries of modes and styles, the connection and migrations of the database, and the IDs it gives | `PreferencesProofs` | `MCPlayer` |
| `Lists` | what loops over lists keep and find, for the models above | `ListProofs` | |

Variables carry the names of the fields they stand for, actions those of the
functions.  Where one function has several outcomes that only the environment
decides (is the player on the ground, did he just teleport), the action takes
the answer as a parameter and the next-state relation chooses it freely.

Definitions marked *Defect* are the following definition with a bug in it.  They
are not part of any specification; each property is known to fail when its
defect replaces the true definition, which shows that the property says
something about the code.

Two instances hold several models that share no variable.  `MCPlayer` chooses
one of five in its initial state, `MCMapSetup` one of two, and only that one
takes steps: the states checked are the sum, not the product, of theirs.

### SurfTimer

State: the pawn (`alive`, `team`, `moveType`, `inNoclip`), the touched zones,
the fields of `SurfTimerService`, the saved position of `SurfSpecService`.  One
tick is one unit of time.  `run` is a history variable: what the player visited
since TimerStart.  It becomes `NoRun` when the run is stopped, when a command
clears the stage of a run that goes on (`surf_bonus` without that bonus), and
when the run changes course because the player touches another start zone
(`surf/trigger/callbacks.cpp:313-320`).  The last two are behaviours of the code
that make the finished run mean something else; the properties leave them out
openly, through the history.

Going back to a saved location (`DoTeleport`) may set the clock to any time it has
shown since the locations were last dropped (`longest`; `SavedLocations` has the
locations themselves), and `SetTime` turns the run on or off by that time, with its
stage, its counters and the times its stages began as they are.  A stopped run that
goes on in this way is not followed (`NoRun`), and one whose clock was set is no
longer `plain`.  `restored` says that this happened in noclip and that
HandleMoveCollision has not run since.

A stage vector has `MaxZones` cells of storage (SURF_MAX_STAGE_ZONES); an index
outside of it changes nothing in the model, though it is undefined behaviour in
the code.  The code reaches index -1 after `surf_bonus` cleared the stage of a
run, and one past the end when the last stage zone is left.

Players do not share any of this state, so one player is enough.

### GlobalConnection

Two threads interleave at the granularity at which they share state: the store
of the connection state, the queueing of a callback, the preparing of a message
(which reads the state) and its leaving on the socket are steps of their own.
The API answers every request in order and forgets a link with its frames.  The
IX library's promise is modelled from how the code uses it: it reconnects until
`disableAutomaticReconnection`, and delivers events one at a time.

### ReplayLoad

Each step of a loading thread holds at most one mutex or accesses one atomic.
The main thread's steps are whole, which is sound: while the state is Loading
the main thread touches only the cancel flag, and a thread that left Loading
touches only the error message.

### RunPipeline and RunLife

One player starts runs, numbered in their order; a run number stands for the
UUID of its recording and the `uid` of its submission.  `recorder` says for each
run where its `RunRecorder` is: recording, recording its last 4 s
("breather"), with a thread of `ReplayFileWriter`, in `m_completedCallbacks`, or
gone.  `submissions` is the static list, as a function from the live runs to
their fields.  `inserts`, `announced` and `cleared` are history variables.

Runs of different players meet only where `RunFrame` and `CheckAll` walk over
all callbacks and all submissions, and those treat each by itself; two runs of
one player meet there too, so one player is enough.  Time is the age of a
submission: young, late (past `timeout`, 5 s), overdue (past
`announcementTimeout`, 10 s).  A recording is over after 4 s of game time,
which may stand behind real time, so the model lets it end at any age.  The API's
answers are commented out in the code, so a run of a mode the API knows always
waits for the timeout.  Whether a run is global, local and styled is chosen
freely when it ends.  Left out: what is recorded (ReplayTape), saved locations
that turn a stopped timer on again, the unloading of the plugin (FileWorkers).

`RunLife` is the promise: a run ends, is worked on, and is forgotten when its time
is saved if it was due, it was announced and its replay kept; a change of map
drops it, with the time if that is still due.  The refinement mapping computes
`phase` and `time` from the submissions and the history (`Phase`, `Time`).  One
frame may move many runs, so a step of `RunLife` is one step of every run.

### FileWorkers

Recorders put chunks of long runs aside as files, through the queue of
AsyncFileIO's worker; a thread for each finished recorder reads its chunks back,
writes the replay and reports to `RunFrame`; a recorder that is given up removes
its chunks; the unload stops the recording threads, then the worker, in the order
of `SurfPlugin::Unload`.  A write may fail.  Each step of a thread holds one lock.

### ReplayTape

One unit is one tick.  The recording (ticks, pauses, deaths and spectating, modes,
teleports, weapons, manual replays) fills the circular buffers and the recorder,
which puts chunks aside; nobody looks whether a chunk was written, so each may be
read back whole, up to some section, or not at all (`LoadedChunk`); the codec writes of a tick what the reader would not
guess (`Guess`, `WriteTickData`, `DecodeTick`, `ReadTickData`,
`UnpackSubtickData`); the playback plays frames, handles events, pauses, and jumps
by rebuilding the time from the events (`Reprocess`, `NavigateReplay`).  Left out:
styles (recorded like the mode), the client's commands (written, and read by
nobody), the threads, the end time that is shown, the header.  Assumed: the replay
is played on the map session it was recorded in, by a server that has been up for
longer than the run, with the timer started at time 0.

Three actions are named apart from their functions, whose names other modules
have: `LivingTick`, `FlushChunk`, `PushEvents`.  Loops that copy the part of a list
are walks, recursive functions from the number of passes (`Chosen` of `Lists`).

`RunIsReproduced` names two jumps that show too much: past ticks spent
spectating, by those ticks (`surf/recording/surf_recording.cpp:413`,
`surf/replays/events.cpp:247-261`), and into a pause that ends the recording.
It is about replays whose chunks were all read back whole (`whole`).
`TicksAreKept` allows the ticks of a chunk that could not be read back to be
missing (`lost`), and is about the weapons and subtick moves of recordings only
that were never put aside in chunks.

### ReplayArchive

The scan thread lists, marks, removes and counts while other threads write
replays; marks are in memory and in a file saved after a scan; the process may
stop or crash at any point; the clock runs or is set back.  An age is unsigned, so
it is modelled modulo `Word`.

### Preferences

Two tables (the database's and the API's), two queues of questions and answers,
and one slot that players use one after the other.  A set holds a value or nothing
for each key and the time it was saved.  The listeners of modes and styles, which
apply what was loaded and thereby record it as the player's choice, are part of
the actions that call them.

### MapSetup and TimeCaches

`MapSetup`: descriptors are slots of an array, the sorted list points to slots, and
FastRemove moves the last descriptor over the removed one.  The transactions that
ask for the IDs are in a queue and may be answered on another map.  Left out are the
bonus courses that legacy maps get while entities spawn
(`surf/mappingapi/surf_mappingapi.cpp:347-365`) and the stages, whose triggers are
counted into the course in the same loop (`:840`, `:898`).

`TimeCaches`: one mode and one course, whose guid all maps share.  Records and
bests are read when the map is set up, when a player is and when a run was saved;
each tick compares the time with them.  `mixed` is the history of a course that
took its ID from the answer for another map.

### RecordQueries

`surf_pb`, `surf_spb`, `surf_ctop` and `surf_sr`: a request looks up its course and
its player where it must, asks the database and the API, and is answered when both
have replied or given up, or after the timeout.  Answers find a request by its
`uid`.

### TriggerTouch

A tick is OnPhysicsSimulate, up to two steps of movement and
OnPhysicsSimulatePost; between any two, a filter may change, a trigger vanish,
the player die or noclip.  Time is in halves of a tick, from the start of the tick.
The events of the pushes are a set: nothing depends on their order.  The loops of
the code over trackers and over touched triggers are recursive functions from the
number of passes to the state after it (`walk`), in the order the code goes and
with the changes it makes to the list it walks.

### ModesStyles, TickRates, Movement, SavedLocations, PluginIDs

`ModesStyles`: the server's console variables and the pawn's gravity are set before
every move of a player; what other players' moves leave in them is arbitrary.  The
loops over styles (adding a list of them, letting each change a move) are walks.

`TickRates`: a mode doubles k of every 64 ticks through
`m_arrForceSubtickMoveWhen`; all 64 positions are checked for all five modes.

`Movement`: the engine is external and taken to change FL_ONGROUND in
CategorizePosition, by a jump, or between two moves.  `unheardLadder` is the history
of a ladder that was taken from the ground, which no service is told of.

`SavedLocations`: a list of places and times, the undo, the custom start.  The
clock is the timer's, reduced to what saved locations read and set: it stops with the
time it has (`StopRun`) or with the tick TimerEnd adds (`FinishRun`).

`PluginIDs`: `infos` is both registries; the database's thread executes queries in
order and is heard of later; the server may stop at any point and start again.
`UnregisterMode` returns before it does anything (`surf_mode_manager.cpp:235`
assigns where it should compare), so only styles ever leave their registry.  The
rows of an answer are a walk (`Updated`).

## 3. Runs

| run | question | states |
|---|---|---|
| `surf_timer` | a staged course with a checkpoint and a bonus with two: does a run that ends cover its course, does one that covers it end, do splits fit, does nobody run dead or flying, with saved locations that set the clock? | 727,824 |
| `global_connection` | three links, two maps: is the state true, does every answer find its callback, does the map only move forward? | 900,730 |
| `replay_load` | three loads on two maps: is each answered, with its own replay, owned once, of this map? | 170,168 |
| `run_pipeline` | two runs with disconnects and map changes: does each live as `RunLife` promises, and finish? | 143,999 |
| `preferences` | two players and two sessions of a slot: newest set, own choices, own preferences? | 3,702,987 |
| `replay_archive` | eight replays, one crash: do the best stay, is the retention kept? | 1,529,843 |
| `file_workers` | two recorders of two chunks: are chunks there when they are read, and gone when their recorder is; does the unload end? | 426,062 |
| `map_setup` | two maps, three loads: IDs, splits; the caches of times | 2,934,820 |
| `record_queries` | two requests: one answer, with all that had arrived? | 283,605 |
| `trigger_touch` | three triggers: starts and ends in turn, pushes, touches out of reach? | 139,424 |
| `replay_tape` | five ticks, chunks read back or not: is what is played what was recorded? | 584,274 |
| `player` | the rules, ticks, hooks, saved locations and IDs: see the five modules | 1,565,218 |

All pass.  What each property says is in the comment before it.  Some properties
state an exception which the code makes and its comments do not: section 6 has
them all.

## 4. Bounds, deadlock, fairness

Bounds.  Two stages are the fewest that have a first, a middle and a last boundary;
`MCOverlaps` lets the player stand in two stage zones at a time; three
ticks tell a split apart from its neighbours and leave one to go back to.  Three links are the fewest with one lost before,
and one lost after a completed handshake before a third; two authorizations let a
player leave and return.  Three loads are the fewest in which a late step of one
load can meet the load after next.  Two runs are the fewest whose recordings and
submissions meet in one frame (a player who has no run left does not come back).
Two players and two sessions make a late answer meet another player and the same
one again; the clock counts to 2, one choice and one lost link per behaviour.
Eight replays are one of every type and group; one crash, a clock of 2 and a
`Word` of 8 let a mark be lost, and an age wrap.  Two recorders of two chunks let
the worker hold a chunk of one while a thread reads another.  Three courses over
two maps that share a name, three loads and three transactions let an answer come
two maps late; in `TimeCaches` two maps, two players, one change of map, one run
saved beside the old records, runs of two ticks and two queries under way.  Two
requests let an answer of a forgotten one meet the next; the timeout is one unit,
four kinds of question are asked.  A zone, a plain trigger and a push trigger, a
delay of half a tick and a cooldown of three halves put a push in either half.
Five ticks with circular buffers of two, a lead and a tail of one and two inputs
make the buffer overwrite; chunks of two let a recording have two of them, the
second with the subtick count the first left; each is read back not at all, cut in
its ticks, cut in its moves, or whole.  In
`player`: two modes, two courses, three loadouts of plugins and two pauses of
plugins; all 64 tick positions with one subtick move a command; two places, two
saved locations, one tick of a run; one mode and one style beside the built-in
mode, three comings and goings and one failed query in `PluginIDs`, over databases
that are new, old, newer than the plugin, of another version, or hold a row with a
plugin's short name as its short name, or as its name.

`replay_tape` uses a symmetry of two positions and two weapons, `map_setup` a symmetry
of the maps and of the players of `TimeCaches`; both runs check invariants only, for
which that is sound.  Two runs use a view, which leaves out what neither a step nor a
property looks at in that state: in `replay_tape` how a finished replay was recorded,
the subtick moves of one with chunks, the events and the playback of one that is not
whole; in `surf_timer` (`MCView`) the clock of a run that is off and the splits of one
that is off or not plain.

Deadlock is checked except where the modelled system really stops: the last session
is over (`preferences`, `record_queries`), the clock or the loads are used up
(`replay_archive`, `map_setup`), the plugin is unloaded (`file_workers`), the
recording has ended (`replay_tape`).

Fairness.  `ReplayLoad`: weak fairness of each loading thread (the operating system
schedules it) and of ProcessAsyncLoadCompletion (called every frame).  `FairSpec`
of `RunPipeline`: weak fairness of RunFrame and CheckAll (every frame) and of
GrowOlder (time passes).  `FileWorkers`: of the worker, of each writing thread, and
of the steps of the main thread inside Stop and Cleanup.  `RecordQueries`: of
CheckRequests (every frame) and of the clock.  Nobody has to give a command, change
the map, unload the plugin or end a playback, and neither the database nor the API
owes an answer.

## 5. Proofs

Eight modules hold the theorems; none uses the bounds of the runs.  Courses, zones,
players, keys, plugins, runs, loads, recorders, maps and times are arbitrary under the
named assumptions of the modules, which TLC evaluates in the runs.  Every model but
`TickRates` and `ReplayTape` has its type invariant as a theorem (no run is spent on
those).  Each argument is an inductive invariant that TLC checked on a run's instance
first.

`SurfTimerProofs` (`CourseAssumption`, `BoundAssumption`):

* `PawnInv` is behind `DeadRunsAreResumable`, `PausedPlayersAreFrozen`,
  `NoRunsInNoclip` and `MoveTypesFit`.  It adds that who is alive is in team "ct",
  and who is in no team has no run.  The run that a saved location turns on again in
  noclip is the one exception (`restored`).
* `RunInv` is behind `FinishedRunsAreComplete` and `StagesInRange`.  The code
  compares counters, the property speaks of sets.  `RunInv` says of a run no
  command has tampered with that the current course is its own, that
  `reachedCheckpoints` is the number of its visited checkpoints
  (`CheckpointsCounted`), and that the stage zones from 2 to the current stage
  are all of its course and, unless a zone is numbered 1, visited
  (`StagesInOrder`).  At the end zone the counts equal those of the course: a
  subset of a finite set with as many elements is the set itself
  (`AllCheckpoints`), and a course with n stage triggers that has the numbers 2
  to n + 1 has no other (`StagesFit`).
* `SplitInv` is behind `SplitsFit`, for plain runs: there are moments, one for each stage reached,
  between which the splits lie (`Parts`).  The witness is not a variable of the
  program: it is kept as an existential, and each action extends it or keeps it.
* `CompletedRunsEnd` is an action property.  It holds where stages are numbered as
  TimerEnd counts them, from 2 (`NumberedFromTwo`): a hypothesis of the theorem and
  not an assumption of the module, since the game's own documentation tells mappers
  otherwise (section 6).  `NoneAhead` adds that no stage is credited that the run
  has not come to.

`ReplayProofs` is about a replay on its way to the disk, on it and back:

* `FileInv` (`RecorderAssumption`, `NoFileAssumption`) says where the chunks of a
  recorder are.  None is anywhere that its recorder does not count (`OnlyCounted`),
  and each it counts is on the disk, has failed or is under way (`NoneForgotten`);
  what the worker holds depends on where it is (`WorkerFits`).  `ChunksLast` follows:
  a thread that finds the queue drained finds the chunks.
* `ArchiveInv` (`ReplayAssumption`) is behind `ListIsTrue`, `BestStay` and
  `RetentionStays`.  A group of replays changes between two scans, so that the best
  of a group are never removed cannot be shown of one scan alone.  `Outdone` says it
  of all of them: a replay with a mark or no longer there has as many better ones
  in the directory, or once had, as the option keeps; one removed had a mark, and
  those better than it outdo everybody it outdid.  `MarksArePast`: while the clock
  has not been set back no mark is older than the first one of its replay or from
  the future, so the unsigned age of a mark is the time that really went by.
* `LoadInv` (`LoadAssumption`) joins the properties of loading with two facts they
  need: a state other than Idle has a load the callbacks belong to (`CallbackSet`),
  and a thread about to publish has placed its replay (`ReplayIsPlaced`).

* `TapeInv` is behind `TicksAreKept`.  The circular buffer and every recorder hold
  the last ticks the player was alive in, however many (`LastTicks`), the ticks of
  a loaded replay have their places among such ticks (`SomeTicks`, `Fit`), and ticks
  come in the order of the server's count (`Increasing`).  `Holds` says it of a
  recorder whose ticks are in memory or partly in chunks: `Placed` gives each tick
  that will be read back a place among those that were recorded, in their order, and
  a place without one is that of a tick in `lost`.  What was never put aside also has
  its weapons and subtick moves.  The
  file is a list of differences to a guess that writer and reader make from the
  ticks before: the lemmas of the codec show that the reader's guess is the
  writer's, so each tick is decoded as it was encoded.

`RunPipelineProofs` (`RunAssumption`): `PipeInv` says what the flags of a live
submission mean (`Good`: it was sent to the database as often as its flags
say, announced as often as `runAnnounced` says, its replay given to the disk if
`replayReady`), that nothing has been done for a run that has not ended
(`Fresh`), and that the recorders with no end in sight are those of the run
being timed (`Recording`).  Without the first, `DoneOnce` is not inductive: that a
run is inserted once is visible only in the flags.  `ForgottenRun` is the lemma on
CheckAll from which `NothingIsForgotten` and the refinement follow.

The refinement, `RunsLiveAsTheyShould`, adds that a run is live or dropped, not
both, that only a run that ended has a recording under way, and that the replay of
a forgotten run is kept (`LifeInv`).  `LifeStep` shows for every action and every
run that the step is one of `RunLife`'s (End, Work, Drop or Rest).

`GlobalConnectionProofs`:

* `HandshakeInv` (`ConnectedIsHandled`, `GivesUpForGood`, `HelloNamesAll`,
  `AcksFollowHello`) is behind `StatesAreTrue` and the three theorems it joins.  The
  API hears of a skipped player because the hello that is prepared names everybody
  who was skipped, and nobody is skipped between a hello and the loss of its link.
* `OrderInv` (`InOrder`, `InTime`, `AllAwaited`) is behind `AnswersGetAwaited` and
  the action property `MapInfoNeverGoesBack`: from the frames of the link over the
  queue to the callbacks being run, everything under way is in the order in which it
  was sent, so no answer is read after its callback ran, and no older map after a
  newer one.

`PlayerProofs` (the assumptions of `Movement`, `SavedLocations`, `TriggerTouch` and
`RecordQueries`), about six models of one player that share no variable:

* `MoveInv` is behind `HeardGround` and `TeleportsStick`.  `HearingInv` says what the
  services believe at each point of a move: during it, the ground as it is; between
  two moves, the flag the last one left, which the next one compares with; and of the
  move type what was last told, unless he is on a ladder he took from the ground.
* `LocationInv` is behind `OwnTimes`: not only the clock, every place a time can
  come back from (the list, the undo) holds times this run has had (`KeptTimes`).
* `HalfInv` is behind `HalvesSimulated`: one of the four slots is always free for
  the tick to come (`FreeSlot`), so that asking for a half never overwrites one that
  is still due.
* `IndTriggers` is behind `TouchesMatch`, `PushesGiven` and the action property
  `OutOfReachHolds`, for any triggers, delays and cooldowns.  There is one tracker of
  each trigger, a start without its end is exactly what a tracker notes, and plain
  triggers tell nobody (`ToldFits`); each trigger has at most one event under way,
  which is not due before the last push has rested, and a trigger without one has
  rested by now (`PushesFit`).  The code keeps no such order: it follows from what
  each pass of each loop preserves.  `OutOfReachHolds` counts: a walk that skips the
  trigger after each one it ends still ends half of them (`EndTouchAllFits`).

  These loops change the list they walk, so what they compute is shown by
  induction along the walk (`ListProofs`).  The library's induction theorems take an operator as
  a parameter, which the provers cannot instantiate; `LeastOf` says the same of
  sets of numbers instead (from the well-foundedness of the strict subsets), and
  from it follow that a walk exists (`WalkExists`), that it obeys its recursion
  (`WalkSteps`) and that what each pass keeps is kept (`WalkKeeps`, `WalkStays`).

* `RulesInv` is behind `RightPhysics` and the action property `RunKeepsItsRules`, for
  any courses, preferences, pauses of plugins and moves of others, with the plugins
  the repository has.  `RightPhysics` speaks of the middle of a move; what lies
  between two moves (`RulesCore`) keeps the styles known and compatible
  (`GoodLists`), the gravity the map's unless a style is there to set it
  (`PutBack`), and a run on a course.  `RegistryFits` says that a style excludes no
  more than its plugin does: it may exclude less, since a pause loses the list.
  `GoodLists` follows from what the loop that adds styles asks the registry before
  each, not from what it was given.  `RulesAreKept` shows of every step
  after which the run goes on that it left the mode and at most took styles away.
* `QueryInv` is behind `AnsweredOnce`: it reads off the two states of a request which
  of its calls may be under way (`CallsFit`), which answers it has heard
  (`HeardFits`), and that nothing is there of a request that is not (`NothingElse`).
  Without the first, `AnsweredOnce` would not follow: that an answer does not come
  again after the request was completed and freed is visible only in what is under
  way.

`PreferencesProofs` (`PreferenceAssumption`, `OwnFirstAssumption`): `PrefInv` is
`SlotInv`, about the player in the slot, and `AwayInv`, about everything under way.
`NewestWins` is about two sets in either order and is not inductive: `FirstCounts`
adds that as long as one set has arrived it is the one in force, under its own tier
and stamp, which is what the second is compared with.  `ChoicesAreMarked` ties what
the player chose to `userSetPrefs`.  `OwnPreferences` needs that each set in a table,
a question or an answer is stored under its owner (`TablesOwn`, `QueuesOwn`) and that
an answer knows its session (`SessionsAreOwn`).

`IDInv` (`PluginAssumption`) is behind `PluginsHaveTheirIDs`, for any plugins, tables,
migrations, and any number of comings and goings, failures and restarts:

* `EntryOK`: an ID is that of a row with the name; the entry of a plugin shares no
  name with an earlier one, so that the walk over an answer, which takes the first
  entry of a name, takes the right one; any other entry was named after a row.
* `OneByOne`: until the database is ready there is at most one question, and it is
  none of a plugin's, so nothing that was asked before is answered after.
* `AnswerOK`: the rows of an answer are in the table, and an insert that found none
  was refused for its short name.
* `AllAsked`: who has no ID has asked and not been heard, or there is a reason
  (`LeftWithout`).  This is what the listener's loop establishes at once for everybody
  registered by then, and registration for each who comes later; a failed answer,
  an entry written anew and a name that is taken end it, each with its reason.

`PluginAssumption` says that no two plugins of a kind share a name.  The code sees to
that itself: the second is refused (`surf_mode_manager.cpp:198-207`).

`MapSetupProofs`:

* `SetupInv` (`MapAssumption`) is behind `SplitsHaveZones` and `IDsStayOwn`.
  `ListInv`: the slots in use and those the sorted list points to are the same, each
  once, until a course is taken out.  `QueueInv`: the database is asked in the order
  of the loads, and once it has answered for this one nothing of an earlier one is
  left, which is why courses keep their IDs although they are found by name alone.
* `CacheInv` (`CacheAssumption`) is behind `MissedIsMissed` and `KnownIsBest`.
  `CacheBounds`: a cached time is never better than the best of the table.
  `Renewed`: a known one is up to date, or a question that will renew it is under
  way.  `SessionInv` orders the questions of the sessions of a slot, without which an
  answer for the player before could fill the cache of the next.

`ListProofs` is about lists and the loops over them: that a walk exists, obeys its
recursion and keeps what each pass keeps; what is in a list that was appended to,
taken from, or filtered (`Chosen`), and that the first of some places is the least.
`ReplayProofs`, `PlayerProofs` and `PreferencesProofs` rest on it.

Properties that are proved and in no run by a name of their own: `StageInRange`,
`RecordingFindsItsRun`, `DoneOnce`, `WaitsForAnAnswer`, `ForgottenWhenDone`,
`LoadingHasOneThread`, `ListedAreThere`, `LookupsComeFirst`, and the parts of
`MoveTypeFits` and `StateIsTrue`.

Only model-checked:

* Liveness (`LoadsAreAnswered`, `RunsAreFinished`, `StopReturns`,
  `EveryoneIsAnswered`): it rests on fairness and ENABLED, which the prover's
  backends do not reach.
* `RunIsReproduced`.  Its proof would need an invariant between the run as it was and
  the bot's jumps over the events, each rebuilt from the event before: a time that is
  two ticks late in a pause and wrong by what was not recorded, for a buffer that
  trims events by time and ticks by count.  `TapeKeepsTicks` proves the half of it
  that does not depend on the events.

## 6. Where the code and what it says disagree

Each was met while modelling.  No run is kept for them; where a property would fail
because of one, it states the exception.  Names in italics are the formulas the code
does not satisfy.

Timer and triggers

* The FGD (`mapping_api/game/csgo_core/csgo_internal.fgd:33`) numbers stages from 1.
  `TimerStart` makes 1 the current stage and a stage zone counts when its number is
  the next one, so a zone numbered 1 never counts and `TimerEnd` asks for one stage
  more than was reached (`surf/timer/surf_timer.cpp:286`).
* `SetTime` (`surf_timer.h:249`, called in `surf/checkpoint/surf_checkpoint.cpp:201`)
  turns a stopped run on again, by the time it sets and with the stage and the
  checkpoints counted so far, also after the course changed; also one that noclip
  stopped, until the next HandleMoveCollision (`restored` in `NoRunInNoclip`).  It
  leaves `stageEndTouchTimes` as they are: a split taken after the clock was set back
  can be wrong or negative (`surf_timer.cpp:142`; `plain` in `SplitsFitTheRun`).
* *EndsHadStarts*: a trigger that vanishes is ended though its filter kept the start
  away (`surf/trigger/surf_trigger.cpp:26-36`, against `callbacks.cpp:88-89`).
* `callbacks.cpp:187-192`: an upward push takes the player off the ground and tells
  nobody (`pushedOff` in `GroundIsHeard`); a ladder taken from the ground is not told
  either (`unheardLadder`; `utils/hooks.cpp:969-1003`).
* `callbacks.cpp:318-334`: the `break` that is to leave the limit to a speed style
  only leaves the loop over the styles.
* *RecordsAreLoaded*: `OnMapSetup` asks for the records before a round can register the
  courses, so all rows are passed over (`surf_timer.h:139`, the TODO at
  `surf_timer.cpp:1365`).  *GlobalTimesAreHis*: `globalPBCache` is not cleared when the
  map or the player changes.  `UpdateRecordCache` has no caller, so nobody misses a
  world record.  `ApplyPreferences` lets COMPARETYPE_COUNT through
  (`surf_timer.cpp:1354`).  `sql_getsrs` and `sql_getpbs` take runs with styles and of
  cheaters.  `preferredCompareType` stays for the next player of the slot.

Submission, recording, replays

* *TimesAreSaved*: `TryFinalize` returns while the replay of a global-mode run is
  missing, before it looks at the timeout (`surf/timer/submission.cpp:232`); without a
  replay the time is never sent.  A change of map drops inserts still due
  (`submission.h:137`).
* *CancelledStaysCancelled*: the loading thread looks at the cancel flag once
  (`surf/replays/data.cpp:341`); a later cancellation is confirmed and does nothing.
* `LostWakeup` (in `StopReturns`): the last writing thread notifies without the mutex,
  so Stop may wait for ever (`surf/recording/filewriter.cpp:29`).
* `recorders.cpp:320`: a chunk that failed to write or cannot be read is passed over,
  and nobody is told: the replay has a gap (`lost` in `TicksAreKept`), or blank ticks
  where the file is cut short.
* `surf_recording.h:131`: a chunk is put aside between a tick and its subtick moves and
  events, so the first chunk has one subtick count fewer than ticks and is written with
  what stands behind the vector (`recorders.cpp:267`; `beyond` in `FlushChunk`), and
  each later one begins with the count of the tick before; `CopyWeaponsToRecorder` looks only at the ticks in memory (the assertion at
  `data.cpp:234`); `TrimOldEvents` goes by time while ticks go by count; `Reset` keeps
  `earliestMode` and `earliestStyles`; `TickData.checkpoint` is always zero; commands
  are written and loaded by nobody; SetTime by saved locations is not recorded.
* `surf/replays/events.cpp`: a pause that is the last event is not subtracted by a
  jump; TIMER_END, TIMER_STOP and zone events are guarded when played only; TIMER_SPLIT
  is handled when jumped over only, and recorded by nobody; the stop tick is the
  current one when played, the server's when jumped over.
* `compression.cpp`: a file of an old version with no elements divides by zero; a
  subtick section whose compression fails is left out.
* `watcher.cpp`: a clock set back makes an age huge (the exception of
  `KeptForRetention`).

Connection, queries, preferences

* *HelloWasSent*: `Init` starts the socket, then stores Initialized
  (`surf/global/surf_global.cpp:142`); an early Open is overwritten, the hello is
  refused, and HandshakeInitiated ("After we sent the 'Hello' message") is stored.
* *CurrentMapIsCurrent*: a map change during the handshake is told to nobody (`:203`).
* A rankless best that was found sets no status, so its request is answered at the
  timeout (`surf/timer/queries/personal_best.cpp:293`).  A local query that must wait
  for the API's player is dropped a frame later (`:91-98`).  After a failed lookup of
  the player the API is asked by name, with SteamID 0 (`:138`).
* *NewestWinsForAll*: `SwitchToMode` and `AddStyle` record what a listener applies as
  if the player had chosen it (`surf/mode/surf_mode_manager.cpp:341`), so a newer set
  no longer changes the mode and styles; `surf/option/surf_option.h:57` promises
  otherwise.  Loading preferences rewrites `preferredStyles` without the styles that
  are not there; SurfPlayer::Reset makes the default styles a preference.

Maps, modes, styles, database

* The first invalid course ends the loop over the courses
  (`surf/mappingapi/surf_mappingapi.cpp:891-896`): the courses after it keep the counts
  of the map before, or none.  The XOR that is to find stages whose numbers do not
  follow each other (`:778-782`) is computed and read by nobody.  Courses take IDs by name alone
  (`surf/db/setup_map_courses.cpp`), also from the answer for another map.
* `UnregisterMode` tests `if (id = g_PLID)` and always returns
  (`surf_mode_manager.cpp:235`): a mode stays registered with a factory that is gone,
  and its plugin cannot register again.  `UnregisterStyle` shadows its index
  (`surf/style/surf_style_manager.cpp:179-182`).
* `RegisterMode` and `RegisterStyle` write a known entry anew and with it the ID,
  though "no need to update it" (`surf_mode_manager.cpp:216-219`): a style whose plugin
  is paused or loaded again has no ID, and its runs are not saved (`forgotten` in
  `PluginsHaveTheirIDs`).  A style that goes on after a pause has lost its list of
  exclusions.
* `UpdateModeDatabaseID` adds a mode it does not know with its long name as the short
  one and no ID (`:120-121`).  When the plugin is loaded later, the entry hides it
  from `GetModeInfo(name)` and from `SwitchToMode`, which finds no factory.
* A mode plugin whose short name is the name of a mode in the database takes over the
  entry the database named (`:120-121`, then `:198-207`): the comment at `:218` has it
  that the ID then "has to come from the database", but it was put into no entry and
  nobody asks again (the last reason of `LeftWithout`).  The proof attempt met it.
* `SetupDatabase` uses the connection it did not make when the driver is unknown
  (`surf/db/setup_database.cpp:40-44`).
* Removing a style does not stop the timer.  `sv_maxvelocity` stays as the last player
  left it for one without a course.  *OthersAreWhole*: a doubled tick moves the input
  of a tick that is not doubled (`surf/mode/surf_mode_85t.cpp:140`).

Saved locations and movement

* Saving while paused on a ladder forgets the ladder; the custom start never has one;
  `TpHoldPlayerStill` has no caller; *OnlyTASGoesBack*: `surf_undo` does not ask for TAS
  (`translations/cs2surf-saveloc.phrases.txt:41`).
* `OnTryPlayerMovePost` multiplies `tpmVelocity` with itself (`surf/mode/surf_mode.cpp:553`).
* `surf_spec`: a partial name that fits a spectator ends the search.

## 7. Not modelled, and why

* The fixes of ramps and slopes: float geometry, no protocol.
* Presentation, SDK, game configuration, memory patches, vendored code: no state
  that a property could be about.  Anticheat and telemetry stop runs, which is an
  action of the timer.  Cookies of cvar queries: one map from numbers to callbacks.
* Of the connection: the heartbeat threads and `Cleanup`; `UpdateRecordCache` and
  `SubmitRecord` have no callers.
* Of spectating: whom to watch.  Of triggers: modifiers and teleports.  Of the mapping
  API: the parsing of entities, legacy maps' bonus courses, and the count of stages.  Of
  the database: the SQL of times.
* Metadata, sounds and texts everywhere; velocities and angles.

## 8. Plan

Done: all modules above; type invariants and inductive invariants proved for every
instance; of the safety properties all but `RunIsReproduced`.

Left:

1. The events of `ReplayTape`: that the events of a loaded replay are those of the
   run, trimmed; then the time and mode rebuilt from them.
2. Spectating and pausing composed with saved positions: a run that goes on goes on
   from where it was paused.
3. An abstract queue that the circular buffer implements, and the recording on top
   of it.
