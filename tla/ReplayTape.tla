----------------------------- MODULE ReplayTape -----------------------------
(***************************************************************************)
(* From the player's ticks to the bot's: the recording of a run            *)
(* (surf/recording), its file (surf/replays/compression) and its playback  *)
(* with pauses and jumps (surf/replays, playback, events, commands).       *)
(*                                                                         *)
(* One player is recorded tick by tick until a replay is saved; a bot then *)
(* plays it back on the same map.  One tick interval is the unit of time,  *)
(* and the game time of a tick is its number.                              *)
(*                                                                         *)
(* Of a tick the model keeps what the file format treats in a way of its   *)
(* own: its number (one more than the last, unless written), the pawn      *)
(* before the move (that after the last move, unless written) and after it *)
(* (that before it), the weapon (written on the first tick and on a        *)
(* change), and whether the player sent a subtick move.  The events are    *)
(* those of the timer, of one course, and of the mode.  Left out: the      *)
(* styles, recorded like the mode, the client's commands, recorded beside  *)
(* the ticks and never read back, and the threads, which FileWorkers has.  *)
(*                                                                         *)
(* A definition marked "Defect" is not part of the model: it is the next   *)
(* definition with a bug in it, which the properties must tell apart.      *)
(***************************************************************************)
EXTENDS Integers, Sequences, FiniteSets, SequencesExt, Lists

CONSTANTS
    Modes, DefaultMode,     \* DefaultMode: "64tick", which a jump back restores
    Weapons,
    Places,                 \* where a pawn may be
    Nowhere,                \* the MovementData of zeroes
    CircularTicks,          \* ticks the circular buffers hold: two minutes
    BreatherTicks,          \* ticks a run's replay has before the run: five seconds
    TailTicks,              \* and after it: four seconds
    FlushTicks,             \* FLUSH_INTERVAL_TICKS: fifteen minutes
    Reads,                  \* how much of a chunk may be read back: see LoadedChunk
    MaxTicks,               \* bound: ticks that are recorded
    MaxInputs               \* bound: what the player does besides running

ASSUME TapeAssumption ==
    /\ DefaultMode \in Modes /\ Nowhere \notin Places
    /\ {CircularTicks, BreatherTicks, TailTicks, FlushTicks} \subseteq Nat \ {0}
    /\ {MaxTicks, MaxInputs} \subseteq Nat /\ Reads \subseteq -1 .. 4
    /\ BreatherTicks < FlushTicks /\ BreatherTicks <= CircularTicks

VARIABLES
    tickcount,
    inputs,         \* what the player did so far
    \* the player
    alive, timer, mode, weapon, place,
    \* his SurfRecordingService
    currentTick,    \* currentTickData.serverTick: the last tick he was alive in
    circular,       \* circularRecording, with lastKnownMode
    runRecorders,
    \* the replay that was loaded, and its bot
    tape, replay,
    \* history: what every tick he was alive in was like
    seen

playerVars    == <<alive, timer, mode, weapon, place>>
recordingVars == <<currentTick, circular, runRecorders>>
botVars  == <<tape, replay>>
tapeVars == <<tickcount, inputs, playerVars, recordingVars, botVars, seen>>

NoMode   == "no mode"
NotEnded == -1              \* desiredStopTime of a recorder whose run is on

Stopped    == [running |-> FALSE, paused |-> FALSE, time |-> 0]
NotPlaying == [playing |-> FALSE, tick |-> 1, played |-> 0, event |-> 0, replayPaused |-> FALSE,
               timing |-> FALSE, elapsed |-> 0, paused |-> FALSE, mode |-> DefaultMode]
NoTape     == [ticks |-> <<>>, subticks |-> <<>>, events |-> <<>>, weapons |-> {},
               chunks |-> 0, whole |-> TRUE, lost |-> {}]
EmptyCircular == [ticks |-> <<>>, events |-> <<>>, earliestMode |-> NoMode, knownMode |-> NoMode]

InitTape ==
    /\ tickcount = 0 /\ inputs = 0
    /\ alive = TRUE /\ timer = Stopped /\ mode \in Modes
    /\ weapon \in Weapons /\ place \in Places
    /\ currentTick = 0 /\ circular = EmptyCircular /\ runRecorders = <<>>
    /\ tape = NoTape /\ replay = NotPlaying
    /\ seen = <<>>

(***************************************************************************)
(* Sequences of ticks and events.                                          *)
(***************************************************************************)
\* Write on a full buffer drops the oldest.
LastOf(s, n) == SubSeq(s, IF Len(s) > n THEN Len(s) - n + 1 ELSE 1, Len(s))

\* How many events come before the first one that is later than the tick.
Due(events, tick) ==
    LET later == {i \in DOMAIN events : events[i].serverTick > tick}
    IN  IF later = {} THEN Len(events)
        ELSE (CHOOSE i \in later : \A j \in later : i <= j) - 1

Event(type, tick, time, to) == [type |-> type, serverTick |-> tick, time |-> time, mode |-> to]

(***************************************************************************)
(* A Recorder: what it has in memory, and the chunks it put aside.         *)
(***************************************************************************)
Part == [ticks |-> <<>>, counts |-> <<>>, moves |-> <<>>, events |-> <<>>]

Data(t) == [serverTick |-> t.serverTick, pre |-> t.pre, post |-> t.post, weapon |-> t.weapon]

Zero == [serverTick |-> -1, pre |-> Nowhere, post |-> Nowhere, weapon |-> "no weapon"]

\* A tick of zeroes.  Weapon 0, the first the player had, stands as none.
Blank == [Zero EXCEPT !.serverTick = 0]

\* A subtick move is known by the tick it was sent for.
Counts(ticks) == [i \in DOMAIN ticks |-> ticks[i].moves]
Moves(ticks)  == LET sent == Chosen(ticks, {i \in DOMAIN ticks : ticks[i].moves = 1})
                 IN  [i \in DOMAIN sent |-> sent[i].serverTick]

ModesIn(events) == Chosen(events, {i \in DOMAIN events : events[i].type = "mode"})

\* The mode before the first copied tick, as an event of tick 0.
BaseMode(events, earliest) ==
    LET before == ModesIn(SubSeq(events, 1, Due(events, earliest - 1)))
    IN  <<Event("mode", 0, 0, IF before = <<>> THEN circular.earliestMode ELSE Last(before).mode)>>

\* The constructor: the last n ticks, and the events since the first of them.
Copied(n) ==
    LET last     == LastOf(circular.ticks, n)
        earliest == last[1].serverTick
    IN  IF last = <<>> THEN Part
        ELSE [ticks  |-> [i \in DOMAIN last |-> Data(last[i])],
              counts |-> Counts(last),
              moves  |-> Moves(last),
              events |-> BaseMode(circular.events, earliest)
                         \o SubSeq(circular.events, Due(circular.events, earliest - 1) + 1,
                                   Len(circular.events))]

\* flushed is what the chunks will be read back as; history: whether that is what
\* they were, and the numbers of the ticks that will not be read back.
Recorder(n) == [memory |-> Copied(n), flushed |-> Part, chunks |-> 0, whole |-> TRUE, lost |-> {},
                desiredStopTime |-> NotEnded]

\* LoadFlushedChunks: the chunks in their order, then what is in memory.
Joined(p, q) == [ticks  |-> p.ticks \o q.ticks,   counts |-> p.counts \o q.counts,
                 moves  |-> p.moves \o q.moves,   events |-> p.events \o q.events]

\* Nobody looks whether the write of a chunk succeeded.  read is how many of its
\* sections, in this order, are in the file whole; the next has its vector grown,
\* by zeroes, and is the last.  -1: there is no file, or its head is cut off, and
\* the chunk is passed over.
LoadedChunk(chunk, read) ==
    LET Section(k, list, zero) == IF read >= k THEN list
                                  ELSE [i \in 1 .. (IF read = k - 1 THEN Len(list) ELSE 0) |-> zero]
    IN  [ticks  |-> Section(1, chunk.ticks, Blank), counts |-> Section(2, chunk.counts, 0),
         moves  |-> Section(3, chunk.moves, 0),
         events |-> Section(4, chunk.events, Event("start", 0, 0, NoMode))]

Numbers(ticks) == {ticks[i].serverTick : i \in DOMAIN ticks}

\* Writes as many counts as there are ticks.  The tick that was just pushed has
\* none yet: it comes first in the next chunk, which has as many as ticks; the
\* first chunk has one too few, and what stands behind the vector is anything.
\* What will be read back of the file is settled here.
FlushChunk(r, beyond, read) ==
    LET ticks == r.memory.ticks
        chunk == [r.memory EXCEPT !.counts = SubSeq(Append(@, beyond), 1, Len(ticks))]
    IN  [r EXCEPT !.flushed = Joined(@, LoadedChunk(chunk, read)),
                  !.chunks  = @ + 1,
                  !.whole   = @ /\ LoadedChunk(chunk, read) = chunk,
                  !.lost    = IF read >= 1 THEN @ ELSE @ \cup Numbers(ticks),
                  !.memory  = Part]

\* Defect: the chunk is put aside before the tick is pushed, and the tick with
\* it lost.
PushTickLate(r, t, beyond, read) ==
    LET pushed  == [r EXCEPT !.memory.ticks = Append(@, Data(t))]
        flushed == IF Len(pushed.memory.ticks) >= FlushTicks THEN FlushChunk(r, beyond, read)
                   ELSE pushed
    IN  [flushed EXCEPT !.memory.counts = Append(@, t.moves),
                        !.memory.moves  = @ \o Moves(<<t>>)]

PushTick(r, t, beyond, read) ==
    LET pushed  == [r EXCEPT !.memory.ticks = Append(@, Data(t))]
        flushed == IF Len(pushed.memory.ticks) >= FlushTicks THEN FlushChunk(pushed, beyond, read)
                   ELSE pushed
    IN  [flushed EXCEPT !.memory.counts = Append(@, t.moves),
                        !.memory.moves  = @ \o Moves(<<t>>)]

PushEvent(r, e) == [r EXCEPT !.memory.events = Append(@, e)]

\* One after the other.
PushEvents(r, events) == [r EXCEPT !.memory.events = @ \o events]

Each(recorders, Push(_)) == [i \in DOMAIN recorders |-> Push(recorders[i])]

(***************************************************************************)
(* The file.  Writer and reader go through the ticks with the same guess   *)
(* of what the next tick is; only what differs is written.                 *)
(***************************************************************************)
Fields == {"serverTick", "pre", "post", "weapon"}

Guess(last, tick) ==
    [serverTick |-> last.serverTick + 1, pre |-> last.post, post |-> tick.pre, weapon |-> last.weapon]

WriteTickData(ticks) ==
    [i \in DOMAIN ticks |->
        LET guess   == Guess(IF i = 1 THEN Zero ELSE ticks[i - 1], ticks[i])
            changed == {f \in Fields : (i = 1 /\ f = "weapon") \/ ticks[i][f] # guess[f]}
        IN  [f \in changed |-> ticks[i][f]]]

DecodeTick(last, flagged) ==
    LET Field(f, guess) == IF f \in DOMAIN flagged THEN flagged[f] ELSE guess
        pre == Field("pre", last.post)
    IN  [serverTick |-> Field("serverTick", last.serverTick + 1),
         pre        |-> pre,
         post       |-> Field("post", pre),
         weapon     |-> Field("weapon", last.weapon)]

ReadTickData(written) ==
    LET decoded[i \in 0 .. Len(written)] ==
            IF i = 0 THEN Zero ELSE DecodeTick(decoded[i - 1], written[i])
    IN  [i \in DOMAIN written |-> decoded[i]]

\* 0: no move.
UnpackSubtickData(counts, moves) ==
    [i \in DOMAIN counts |->
        LET offset == Cardinality({j \in 1 .. i : counts[j] = 1})
        IN  IF counts[i] = 1 /\ offset <= Len(moves) THEN moves[offset] ELSE 0]

\* Only the ticks that are still in memory are looked at.
WeaponsOf(r) == {r.memory.ticks[i].weapon : i \in DOMAIN r.memory.ticks}

WriteToMemory(r) ==
    LET all == Joined(r.flushed, r.memory)
    IN  [ticks    |-> WriteTickData(all.ticks),
         subticks |-> UnpackSubtickData(all.counts, all.moves),
         events   |-> all.events,
         weapons  |-> WeaponsOf(r),
         chunks   |-> r.chunks,
         whole    |-> r.whole,
         lost     |-> r.lost]

LoadReplayFromMemory(file) == [file EXCEPT !.ticks = ReadTickData(@)]

(***************************************************************************)
(* Recording.                                                              *)
(***************************************************************************)
Recording == ~replay.playing /\ tape = NoTape

\* InsertEvent: into the circular buffer and into every run recorder.
Insert(e) ==
    /\ circular' = [circular EXCEPT !.events = Append(@, e)]
    /\ runRecorders' = Each(runRecorders, LAMBDA r : PushEvent(r, e))

\* InsertTimerEvent of OnPause and OnResume: no time when no run is on.
InsertTimerEvent(type) ==
    Insert(Event(type, currentTick, IF timer.running THEN timer.time ELSE 0, NoMode))

\* OnTimerStop drops the recorders whose run is on.
Ended(recorders) ==
    Chosen(recorders, {i \in DOMAIN recorders : recorders[i].desiredStopTime # NotEnded})

\* TimerStop, between two ticks: the events carry the last tick's number.
TimerStop ==
    IF timer.running
    THEN /\ timer' = [timer EXCEPT !.running = FALSE]
         /\ LET e == Event("stop", currentTick, timer.time, NoMode)
            IN  /\ circular' = [circular EXCEPT !.events = Append(@, e)]
                /\ runRecorders' = Ended(Each(runRecorders, LAMBDA r : PushEvent(r, e)))
    ELSE UNCHANGED <<timer, circular, runRecorders>>

\* What the player does between two ticks.
Input ==
    /\ Recording
    /\ inputs < MaxInputs /\ inputs' = inputs + 1
    /\ UNCHANGED <<tickcount, currentTick, botVars, seen>>

StopRun == Input /\ timer.running /\ TimerStop /\ UNCHANGED <<alive, mode, weapon, place>>

SwitchToMode(to) ==
    /\ Input /\ to # mode
    /\ mode' = to
    /\ TimerStop
    /\ UNCHANGED <<alive, weapon, place>>

PauseEvent  == timer' = [timer EXCEPT !.paused = TRUE]  /\ InsertTimerEvent("pause")
ResumeEvent == timer' = [timer EXCEPT !.paused = FALSE] /\ InsertTimerEvent("resume")

Pause  == Input /\ alive /\ ~timer.paused /\ PauseEvent /\ UNCHANGED <<alive, mode, weapon, place>>
Resume == Input /\ alive /\ timer.paused /\ ResumeEvent /\ UNCHANGED <<alive, mode, weapon, place>>

\* JoinTeam(CS_TEAM_SPECTATOR) of a player who may pause, or has: the run is
\* paused, for the second time if it was; OnPlayerSpawn resumes it.
JoinSpectators == Input /\ alive /\ alive' = FALSE /\ PauseEvent /\ UNCHANGED <<mode, weapon, place>>
OnPlayerSpawn  == Input /\ ~alive /\ alive' = TRUE /\ ResumeEvent /\ UNCHANGED <<mode, weapon, place>>

Teleport(to) ==
    /\ Input /\ alive /\ to # place
    /\ place' = to
    /\ Insert(Event("teleport", currentTick, 0, NoMode))
    /\ UNCHANGED <<alive, timer, mode, weapon>>

SwitchWeapon(to) ==
    /\ Input /\ alive /\ to # weapon
    /\ weapon' = to
    /\ UNCHANGED <<alive, timer, mode, place, circular, runRecorders>>

\* What happens in tick number tick before its OnPhysicsSimulatePost: the
\* player leaves the start zone, or reaches the end zone, or neither.  The
\* result: the timer, the events, and the recorders.
Started(tick) ==
    [timer |-> [timer EXCEPT !.running = TRUE, !.time = 0],
     events |-> <<Event("start", tick, 0, NoMode)>>,
     recorders |-> Append(runRecorders, Recorder(BreatherTicks))]

Finished(tick) ==
    [timer |-> [timer EXCEPT !.running = FALSE, !.time = @ + 1],
     events |-> <<Event("end", tick, timer.time + 1, NoMode)>>,
     recorders |-> Each(runRecorders, LAMBDA r :
                        IF r.desiredStopTime = NotEnded
                        THEN [r EXCEPT !.desiredStopTime = tick + TailTicks] ELSE r)]

Moved(tick, touch) ==
    CASE touch = "start" -> Started(tick)
      [] touch = "end"   -> Finished(tick)
      [] OTHER           -> [timer |-> timer, events |-> <<>>, recorders |-> runRecorders]

MayTouch(touch) ==
    /\ touch = "start" => ~timer.running /\ ~timer.paused
    /\ touch = "end"   => timer.running /\ ~timer.paused

\* CheckModeStyles notices a change after the tick was pushed.
ModeEvents(tick) == IF circular.knownMode = mode THEN <<>> ELSE <<Event("mode", tick, 0, mode)>>

\* Defect: what is trimmed is forgotten.
TrimmedAway(c, tick) ==
    [c EXCEPT !.events = SelectSeq(@, LAMBDA e : e.serverTick + CircularTicks >= tick)]

\* TrimOldEvents goes by the age of the events; the mode of the last one that
\* goes is kept.
Trimmed(c, tick) ==
    LET old   == Chosen(c.events, {i \in DOMAIN c.events : c.events[i].serverTick + CircularTicks < tick})
        modes == ModesIn(old)
    IN  [c EXCEPT !.events = SubSeq(@, Len(old) + 1, Len(@)),
                  !.earliestMode = IF modes = <<>> THEN @ ELSE Last(modes).mode]

Record(tick, t, moved, beyond, read) ==
    LET events == moved.events \o ModeEvents(tick)
    IN  /\ runRecorders' = Each(moved.recorders, LAMBDA r :
               PushEvents(PushTick(PushEvents(r, moved.events), t, beyond, read), ModeEvents(tick)))
        /\ circular' = Trimmed([ticks  |-> LastOf(Append(circular.ticks, t), CircularTicks),
                                events |-> circular.events \o events,
                                earliestMode |-> IF circular.earliestMode = NoMode THEN mode
                                                 ELSE circular.earliestMode,
                                knownMode |-> mode], tick)

\* CheckRecorders: those whose tail has passed, in the order of their runs.
Passed(recorders, tick) ==
    Chosen(recorders, {i \in DOMAIN recorders :
                          /\ recorders[i].desiredStopTime # NotEnded
                          /\ tick >= recorders[i].desiredStopTime})

\* The recording ends with the first replay that is saved.
Save(r) ==
    /\ tape' = LoadReplayFromMemory(WriteToMemory(r))
    /\ circular' = EmptyCircular /\ runRecorders' = <<>>
    /\ UNCHANGED replay

\* currentTickData and currentSubtickData, filled before and after the move.
TickData(tick, to, moves) ==
    [serverTick |-> tick, pre |-> place, post |-> to, weapon |-> weapon, moves |-> moves]

\* A tick of a living player: the timer's touches, CheckRecorders, the tick
\* itself, and then the timer's own OnPhysicsSimulatePost.  beyond and read are
\* the same for all recorders, as only one is ever saved, and matter when a chunk
\* is put aside.
LivingTick(touch, to, moves, beyond, read) ==
    LET tick  == tickcount + 1
        t     == TickData(tick, to, moves)
        moved == Moved(tick, touch)
    IN  /\ Recording /\ alive /\ tickcount < MaxTicks
        /\ MayTouch(touch)
        /\ <<beyond, read>> # <<0, 4>> =>
              \E i \in DOMAIN moved.recorders : Len(moved.recorders[i].memory.ticks) + 1 >= FlushTicks
        /\ timer.paused => to = place
        /\ inputs' = inputs + (IF to = place THEN 0 ELSE 1) + moves /\ inputs' <= MaxInputs
        /\ tickcount' = tick /\ currentTick' = tick
        /\ place' = to
        /\ IF Passed(moved.recorders, tick) # <<>>
           THEN Save(PushEvents(Head(Passed(moved.recorders, tick)), moved.events))
           ELSE Record(tick, t, moved, beyond, read) /\ UNCHANGED botVars
        /\ timer' = [moved.timer EXCEPT !.time =
                        IF moved.timer.running /\ ~moved.timer.paused THEN @ + 1 ELSE @]
        /\ seen' = Append(seen, [tick |-> t, timer |-> timer', mode |-> mode])
        /\ UNCHANGED <<alive, mode, weapon>>

\* Nothing is recorded of a player who is not alive.
DeadTick ==
    /\ Recording /\ ~alive /\ tickcount < MaxTicks
    /\ tickcount' = tickcount + 1
    /\ IF Passed(runRecorders, tickcount + 1) # <<>>
       THEN Save(Head(Passed(runRecorders, tickcount + 1)))
       ELSE UNCHANGED <<circular, runRecorders, botVars>>
    /\ UNCHANGED <<inputs, playerVars, currentTick, seen>>

\* A player who leaves has the replays of his finished runs saved at once.
OnClientDisconnect ==
    /\ Recording
    /\ Ended(runRecorders) # <<>>
    /\ Save(Head(Ended(runRecorders)))
    /\ UNCHANGED <<tickcount, inputs, playerVars, currentTick, seen>>

\* surf_rpsave: the last n ticks.
SaveManual(n) ==
    /\ Recording
    /\ circular.ticks # <<>>
    /\ Save(Recorder(n))
    /\ UNCHANGED <<tickcount, inputs, playerVars, currentTick, seen>>

(***************************************************************************)
(* Playback.  elapsed is curtime - startTime, at the last frame; timing    *)
(* says that startTime is not 0.                                           *)
(***************************************************************************)
TickCount == Len(tape.ticks)

\* LoadReplay's callback; the replay was cleared by the load.
StartReplay ==
    /\ TickCount > 0 /\ ~replay.playing
    /\ replay' = [NotPlaying EXCEPT !.playing = TRUE]
    /\ UNCHANGED <<tickcount, inputs, playerVars, recordingVars, tape, seen>>

HandleTimerStart(p, e) ==
    [p EXCEPT !.timing = TRUE, !.elapsed = e.time, !.paused = FALSE]

\* CheckEvents, one event.
HandleEvent(p, e) ==
    CASE e.type = "start"               -> HandleTimerStart(p, e)
      [] e.type \in {"end", "stop"}     -> [p EXCEPT !.timing = FALSE]
      [] e.type = "pause"               -> [p EXCEPT !.paused = TRUE]
      [] e.type = "resume"              -> [p EXCEPT !.paused = FALSE]
      [] e.type = "mode"                -> [p EXCEPT !.mode = e.mode]
      [] OTHER                          -> p

DueEvents(p, tick) ==
    LET left == SubSeq(tape.events, p.event + 1, Len(tape.events))
    IN  SubSeq(left, 1, Due(left, tape.ticks[tick].serverTick))

\* OnPhysicsSimulatePost of the bot.  While the replay or the run in it is
\* paused, startTime moves along with the time.
PlayFrame ==
    LET due   == DueEvents(replay, replay.tick)
        shown == FoldLeft(HandleEvent, [replay EXCEPT !.elapsed = @ + 1], due)
    IN  /\ replay.playing
        /\ replay' = IF replay.replayPaused THEN replay
                     ELSE [shown EXCEPT !.elapsed = IF shown.paused THEN @ - 1 ELSE @,
                                        !.event   = @ + Len(due),
                                        !.played  = replay.tick,
                                        !.tick    = @ + 1,
                                        !.playing = (replay.tick < TickCount)]
        /\ UNCHANGED <<tickcount, inputs, playerVars, recordingVars, tape, seen>>

ToggleReplayPause ==
    /\ replay.playing
    /\ replay' = [replay EXCEPT !.replayPaused = ~@]
    /\ UNCHANGED <<tickcount, inputs, playerVars, recordingVars, tape, seen>>

\* Relative jumps are clamped to the replay, absolute ones beyond it refused.
Targets == 1 .. TickCount

\* The first tick with this number or a later one.
TickIndex(serverTick) ==
    LET from == {i \in DOMAIN tape.ticks : tape.ticks[i].serverTick >= serverTick}
    IN  IF from = {} THEN 1 ELSE CHOOSE i \in from : \A j \in from : i <= j

GameTime(serverTick) == tape.ticks[TickIndex(serverTick)].serverTick

\* Reprocessing one event: p is the replay; total, the time spent in pauses;
\* since, the tick of the pause that is on, or 0; active, that the run's start
\* was among the events.
Reprocess(s, e, target) ==
    LET elapsed == e.time + tape.ticks[target].serverTick - e.serverTick
    IN  CASE e.type = "start" ->
               [p |-> [HandleTimerStart(s.p, e) EXCEPT !.elapsed = elapsed],
                total |-> 0, since |-> 0, inPause |-> FALSE, active |-> TRUE]
          [] e.type \in {"end", "stop"} ->
               [s EXCEPT !.p.timing = FALSE, !.active = FALSE, !.inPause = FALSE]
          [] e.type = "pause" ->
               [s EXCEPT !.p.paused = TRUE,
                         !.since = IF s.active /\ ~s.inPause THEN e.serverTick ELSE @,
                         !.inPause = @ \/ s.active]
          [] e.type = "resume" ->
               [s EXCEPT !.p.paused = FALSE,
                         !.total = IF s.active /\ s.inPause
                                   THEN @ + GameTime(e.serverTick) - GameTime(s.since) ELSE @,
                         !.inPause = @ /\ ~s.active]
          [] e.type = "mode" -> [s EXCEPT !.p.mode = e.mode]
          [] OTHER           -> s

\* Defect: a pause the target lies in is not subtracted.
PauseLeftIn(s, target) == s.total

\* A pause the target lies in counts as far as the target, if an event follows.
PauseTime(s, target) ==
    IF s.inPause /\ s.active /\ s.p.timing
         /\ Due(tape.events, tape.ticks[target].serverTick) < Len(tape.events)
    THEN s.total + tape.ticks[target].serverTick - GameTime(s.since)
    ELSE s.total

ResetReplayState(p) ==
    [p EXCEPT !.played = 0, !.timing = FALSE, !.elapsed = 0, !.paused = FALSE, !.replayPaused = FALSE]

\* ResetReplayState, ReprocessEventsUpToTick, ApplyTickState.  The events are
\* gone through from the first, whichever way the jump goes; the mode is reset
\* on the way back.  late: the command still sees the time of the last frame.
NavigateReplay(target, late) ==
    LET due    == Due(tape.events, tape.ticks[target].serverTick)
        back   == ~(target > replay.tick /\ replay.tick > 1)
        fresh  == [ResetReplayState(replay) EXCEPT !.tick = target, !.event = due,
                                                   !.mode = IF back THEN DefaultMode ELSE @]
        s      == FoldLeft(LAMBDA r, e : Reprocess(r, e, target),
                           [p |-> fresh, total |-> 0, since |-> 0, inPause |-> FALSE, active |-> FALSE],
                           SubSeq(tape.events, 1, due))
    IN  /\ replay.playing
        /\ replay' = [s.p EXCEPT !.elapsed = IF s.p.timing
                                             THEN @ - PauseTime(s, target) - (IF late THEN 0 ELSE 1)
                                             ELSE 0]
        /\ UNCHANGED <<tickcount, inputs, playerVars, recordingVars, tape, seen>>

Touches == {"none", "start", "end"}

NextTape ==
    \/ \E touch \in Touches, to \in Places, moves, beyond \in {0, 1}, read \in Reads :
          LivingTick(touch, to, moves, beyond, read)
    \/ DeadTick
    \/ Pause \/ Resume \/ StopRun
    \/ JoinSpectators \/ OnPlayerSpawn
    \/ \E to \in Modes : SwitchToMode(to)
    \/ \E to \in Places : Teleport(to)
    \/ \E to \in Weapons : SwitchWeapon(to)
    \/ OnClientDisconnect
    \/ \E n \in 1 .. CircularTicks : SaveManual(n)
    \/ StartReplay \/ PlayFrame \/ ToggleReplayPause
    \/ \E target \in Targets, late \in BOOLEAN : NavigateReplay(target, late)

SpecTape == InitTape /\ [][NextTape]_tapeVars

-----------------------------------------------------------------------------
\* What tick number k was like when it was recorded.
Seen(k) == seen[CHOOSE i \in DOMAIN seen : seen[i].tick.serverTick = k]

\* A loaded replay has, in order, ticks the player lived through, each as it
\* was: through the buffers, the chunks and the file.  Between two of them none
\* is missing but those of a chunk whose ticks could not be read back, in whose
\* place there may be blank ones.  A replay that was never put aside in part also
\* has the weapon of every tick in its table, and each subtick move in the tick
\* it was sent in.
TicksAreKept ==
    LET Number(i) == tape.ticks[i].serverTick
        kept      == {i \in 1 .. TickCount : tape.ticks[i] # Blank}
    IN  /\ kept # 1 .. TickCount => tape.lost # {}
        /\ \A i, j \in kept :
              /\ i < j => Number(i) < Number(j)
              /\ \A k \in DOMAIN seen :
                    seen[k].tick.serverTick \in Number(i) .. Number(j)
                        => seen[k].tick.serverTick \in Numbers(tape.ticks) \cup tape.lost
        /\ \A i \in kept :
              \E j \in DOMAIN seen : LET t == seen[j].tick IN
                  /\ Data(t) = tape.ticks[i]
                  /\ tape.chunks = 0 => /\ t.weapon \in tape.weapons
                                        /\ tape.subticks[i] = IF t.moves = 1 THEN t.serverTick ELSE 0

\* The last tick the bot played, as it was when it was recorded.
Played == Seen(tape.ticks[replay.played].serverTick)

\* How many ticks before the played one were not recorded: he was spectating.
Missing == (tape.ticks[replay.played].serverTick - tape.ticks[1].serverTick) - (replay.played - 1)

\* A replay that was saved in a pause ends in it: no later event bounds it.
LastPause == replay.paused /\ replay.event = Len(tape.events)

\* While the bot plays a run it shows the time the player had at that tick,
\* one tick late, two in a pause, never further off: after pauses of the run
\* and of the replay, and after jumps in either direction.  Two jumps show too
\* much: past the ticks he was spectating in (their resume carries the tick of
\* the pause), by those ticks; and into the pause a recording ends in.
TimeIsReproduced ==
    replay.played > 0 /\ replay.timing =>
        /\ Played.timer.running
        /\ Played.timer.time <= replay.elapsed + (IF replay.paused THEN 2 ELSE 1)
        /\ ~LastPause =>
              replay.elapsed <= Played.timer.time + Missing - (IF replay.paused THEN 1 ELSE 0)

\* While the bot plays a run it is in the mode the player ran in, however old
\* his last change of the mode was when the recording began, and whichever way
\* the bot jumped.
ModeIsReproduced ==
    replay.played > 0 /\ replay.timing =>
        replay.mode = Played.mode

\* What a bot shows of a run is what the player did, its time and its mode, when
\* every chunk of the replay was read back whole.
RunIsReproduced == tape.whole => TimeIsReproduced /\ ModeIsReproduced

=============================================================================
