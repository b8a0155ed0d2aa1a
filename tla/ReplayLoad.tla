------------------------------ MODULE ReplayLoad ------------------------------
(***************************************************************************)
(* Loading a replay and playing it back: surf/replays, data.cpp with the   *)
(* commands, the bot and the end of the playback.                          *)
(*                                                                         *)
(* surf_replay hands the file to a detached thread.  The thread and the    *)
(* main thread share g_loadStatus: an atomic state, and the replay, the    *)
(* callbacks and the error message, each under a mutex of its own.  Each   *)
(* step below holds at most one of the mutexes or accesses one atomic.     *)
(* The main thread's steps are whole: while the state is Loading it        *)
(* touches only the cancel flag, and a thread that left Loading touches    *)
(* only the message.                                                       *)
(*                                                                         *)
(* A load is known by its number, given in the order of the requests; so   *)
(* is the replay it reads.  Left out: the progress percentage, the frames  *)
(* of the playback, and LoadReplayMemoryAsync, which nothing calls.        *)
(*                                                                         *)
(* A definition marked "Defect" is not part of the model: it is the next   *)
(* definition with a bug in it, which the properties must tell apart.      *)
(***************************************************************************)
EXTENDS Naturals

CONSTANTS
    MaxLoads,   \* bound: the loads the players ask for
    Maps        \* the maps of the server and of the replays

ASSUME LoadAssumption == MaxLoads \in Nat

Loads  == 1 .. MaxLoads
NoLoad == 0                 \* no load, or no replay

VARIABLES
    \* g_loadStatus and g_cancelLoad
    loadState,
    errorMessage,
    completedReplay,
    callback,           \* the load the two callbacks belong to
    cancelLoad,
    \* the loading threads
    thread,             \* load -> where its thread is
    \* the main thread
    currentReplay,      \* g_currentReplay, with playingReplay
    playingReplay,
    bot,                \* g_replayBot is on the server
    map,                \* the current map
    \* history
    replayMap,          \* load -> the map of its replay
    live,               \* the replays in memory, each allocated by its load
    cancelled,          \* the loads reported as cancelled to a player
    answered            \* the loads one of whose callbacks ran

statusVars   == <<loadState, errorMessage, completedReplay, callback, cancelLoad>>
playbackVars == <<currentReplay, playingReplay, bot, map>>
historyVars  == <<replayMap, live, cancelled, answered>>
loadVars     == <<statusVars, thread, playbackVars, historyVars>>

LoadingState == {"Idle", "Loading", "Completed", "Failed"}
Messages     == {"", "Load Cancelled", "Invalid File Format"}

\* A thread before it stores the state it leaves, and after.
Before == {"loading", "loaded", "invalid", "cancelling", "failing", "storing", "publishing"}
After  == {"told cancelled", "told invalid", "done"}

InitLoads ==
    /\ loadState = "Idle" /\ errorMessage = "" /\ completedReplay = NoLoad
    /\ callback = NoLoad /\ cancelLoad = FALSE
    /\ thread = [i \in Loads |-> "none"]
    /\ currentReplay = NoLoad /\ playingReplay = FALSE /\ bot = FALSE
    /\ map \in Maps
    /\ replayMap \in [Loads -> Maps]
    /\ live = {} /\ cancelled = {} /\ answered = {}

\* Defect: the structure is cleared, the memory is not freed.
FreeReplayDataLeaks(replay) == live

FreeReplayData(replay) == live \ {replay}

(***************************************************************************)
(* The commands, on the main thread.                                       *)
(***************************************************************************)
PrepareAsyncLoad(i) ==
    /\ loadState' = "Loading"
    /\ cancelLoad' = FALSE
    /\ callback' = i
    /\ errorMessage' = ""
    /\ completedReplay' = NoLoad
    /\ live' = FreeReplayData(completedReplay)

\* Defect: no test that another load is on.
LoadReplayAnyTime(i) ==
    /\ thread[i] = "none" /\ \A j \in Loads : j < i => thread[j] # "none"
    /\ PrepareAsyncLoad(i)
    /\ thread' = [thread EXCEPT ![i] = "loading"]
    /\ UNCHANGED <<playbackVars, replayMap, cancelled, answered>>

LoadReplay(i) ==
    /\ loadState # "Loading"
    /\ thread[i] = "none" /\ \A j \in Loads : j < i => thread[j] # "none"
    /\ PrepareAsyncLoad(i)
    /\ thread' = [thread EXCEPT ![i] = "loading"]
    /\ UNCHANGED <<playbackVars, replayMap, cancelled, answered>>

\* Any player may cancel; he is told that the load is cancelled.
CancelReplayLoad ==
    /\ loadState = "Loading"
    /\ cancelLoad' = TRUE
    /\ cancelled' = cancelled \cup {callback}
    /\ UNCHANGED <<loadState, errorMessage, completedReplay, callback, thread,
                   playbackVars, replayMap, live, answered>>

(***************************************************************************)
(* The thread of load i.                                                   *)
(***************************************************************************)
ThreadStep(i, from, to) ==
    /\ thread[i] = from
    /\ thread' = [thread EXCEPT ![i] = to]

\* The file is read, unless it is malformed or a cancellation is noticed.
LoadReplayWithProgress(i) ==
    /\ \/ ThreadStep(i, "loading", "loaded") /\ live' = live \cup {i}
       \/ ThreadStep(i, "loading", "invalid") /\ UNCHANGED live
    /\ UNCHANGED <<statusVars, playbackVars, replayMap, cancelled, answered>>

\* HandleAsyncResult reads g_cancelLoad, once.
CheckCancel(i) ==
    /\ IF cancelLoad
       THEN /\ ThreadStep(i, "loaded", "cancelling") \/ ThreadStep(i, "invalid", "cancelling")
            /\ live' = FreeReplayData(i)
       ELSE /\ ThreadStep(i, "loaded", "storing") \/ ThreadStep(i, "invalid", "failing")
            /\ UNCHANGED live
    /\ UNCHANGED <<statusVars, playbackVars, replayMap, cancelled, answered>>

\* Defect: a cancelled load returns before it stores a state.
StoreFailedUnlessCancelled(i) ==
    /\ ThreadStep(i, "cancelling", "told cancelled") \/ ThreadStep(i, "failing", "told invalid")
    /\ loadState' = IF thread[i] = "failing" THEN "Failed" ELSE loadState
    /\ UNCHANGED <<errorMessage, completedReplay, callback, cancelLoad,
                   playbackVars, historyVars>>

StoreFailed(i) ==
    /\ ThreadStep(i, "cancelling", "told cancelled") \/ ThreadStep(i, "failing", "told invalid")
    /\ loadState' = "Failed"
    /\ UNCHANGED <<errorMessage, completedReplay, callback, cancelLoad,
                   playbackVars, historyVars>>

\* The reason is written after the state that announces it.
WriteError(i) ==
    /\ \/ ThreadStep(i, "told cancelled", "done") /\ errorMessage' = "Load Cancelled"
       \/ ThreadStep(i, "told invalid", "done") /\ errorMessage' = "Invalid File Format"
    /\ UNCHANGED <<loadState, completedReplay, callback, cancelLoad,
                   playbackVars, historyVars>>

StoreReplay(i) ==
    /\ ThreadStep(i, "storing", "publishing")
    /\ completedReplay' = i
    /\ UNCHANGED <<loadState, errorMessage, callback, cancelLoad,
                   playbackVars, historyVars>>

StoreCompleted(i) ==
    /\ ThreadStep(i, "publishing", "done")
    /\ loadState' = "Completed"
    /\ UNCHANGED <<errorMessage, completedReplay, callback, cancelLoad,
                   playbackVars, historyVars>>

(***************************************************************************)
(* ProcessAsyncLoadCompletion, once per game frame.                        *)
(***************************************************************************)

\* Defect: the map of the replay is not compared.
StartsAnywhere(playerIsHere) == playerIsHere

\* The player who asked for the replay is here and it is of this map.
Starts(playerIsHere) == playerIsHere /\ replayMap[completedReplay] = map

\* The new replay replaces the current one, playing or not.
ProcessCompleted(playerIsHere) ==
    /\ loadState = "Completed"
    /\ loadState' = "Idle"
    /\ completedReplay' = NoLoad
    /\ currentReplay' = completedReplay
    /\ live' = FreeReplayData(currentReplay)
    /\ playingReplay' = Starts(playerIsHere)
    /\ bot' \in IF playingReplay' THEN {bot, TRUE} ELSE {bot}
    /\ answered' = answered \cup {callback}
    /\ UNCHANGED <<errorMessage, callback, cancelLoad, thread, map, replayMap, cancelled>>

ProcessFailed ==
    /\ loadState = "Failed"
    /\ loadState' = "Idle"
    /\ answered' = answered \cup {callback}
    /\ UNCHANGED <<errorMessage, completedReplay, callback, cancelLoad, thread,
                   playbackVars, replayMap, live, cancelled>>

ProcessAsyncLoadCompletion ==
    \/ \E playerIsHere \in BOOLEAN : ProcessCompleted(playerIsHere)
    \/ ProcessFailed

(***************************************************************************)
(* The playback.                                                           *)
(***************************************************************************)

\* The last tick of the replay: the bot is kicked.
EndPlayback ==
    /\ bot /\ playingReplay
    /\ bot' = FALSE /\ playingReplay' = FALSE
    /\ UNCHANGED <<statusVars, thread, currentReplay, map, historyVars>>

\* A new round kicks the bot and leaves the replay playing.
OnRoundStart ==
    /\ bot
    /\ bot' = FALSE
    /\ UNCHANGED <<statusVars, thread, currentReplay, playingReplay, map, historyVars>>

\* The bot does not outlive its map; the replay and the load do.
ChangeMap ==
    /\ map' \in Maps \ {map}
    /\ bot' = FALSE
    /\ UNCHANGED <<statusVars, thread, currentReplay, playingReplay, historyVars>>

(***************************************************************************)
(* The specification.  The operating system runs every thread and the      *)
(* engine every frame; nobody has to give a command.                       *)
(***************************************************************************)
Thread(i) ==
    \/ LoadReplayWithProgress(i)
    \/ CheckCancel(i)
    \/ StoreFailed(i)
    \/ WriteError(i)
    \/ StoreReplay(i)
    \/ StoreCompleted(i)

NextLoads ==
    \/ \E i \in Loads : LoadReplay(i) \/ Thread(i)
    \/ CancelReplayLoad
    \/ ProcessAsyncLoadCompletion
    \/ EndPlayback
    \/ OnRoundStart
    \/ ChangeMap

FairnessLoads ==
    /\ \A i \in Loads : WF_loadVars(Thread(i))
    /\ WF_loadVars(ProcessAsyncLoadCompletion)

SpecLoads == InitLoads /\ [][NextLoads]_loadVars /\ FairnessLoads

-----------------------------------------------------------------------------
(***************************************************************************)
(* Properties.                                                             *)
(***************************************************************************)
TypeOKLoads ==
    /\ loadState \in LoadingState /\ errorMessage \in Messages
    /\ completedReplay \in Loads \cup {NoLoad} /\ callback \in Loads \cup {NoLoad}
    /\ cancelLoad \in BOOLEAN
    /\ thread \in [Loads -> {"none"} \cup Before \cup After]
    /\ currentReplay \in Loads \cup {NoLoad} /\ playingReplay \in BOOLEAN /\ bot \in BOOLEAN
    /\ map \in Maps /\ replayMap \in [Loads -> Maps]
    /\ live \subseteq Loads /\ cancelled \subseteq Loads /\ answered \subseteq Loads

\* The state is Loading exactly as long as a thread has yet to leave it, and
\* that thread is the one the callbacks belong to: loads never overlap.
LoadingHasOneThread ==
    \A i \in Loads : thread[i] \in Before <=> (loadState = "Loading" /\ callback = i)

\* A success callback finds the replay its own player asked for, whatever was
\* cancelled, replaced or failed before.
ReplayIsTheOneAsked == loadState = "Completed" => completedReplay = callback

Holders == {i \in Loads : thread[i] \in {"loaded", "storing"}}

\* Every replay in memory has exactly one owner (the playback, the status or the
\* thread that reads it) and no owner holds a freed one: FreeReplayData is
\* called by hand on structures that are copied around.
ReplaysAreOwnedOnce ==
    /\ live = Holders \cup ({completedReplay, currentReplay} \ {NoLoad})
    /\ completedReplay # NoLoad => completedReplay # currentReplay
    /\ {completedReplay, currentReplay} \cap Holders = {}

\* The bot never replays a run of another map, although a load outlives the
\* map it was asked on and a kicked bot leaves its replay playing.
PlaybackIsOfThisMap ==
    bot /\ playingReplay => currentReplay # NoLoad /\ replayMap[currentReplay] = map

\* A load is answered, or another load took its place before it could be.
LoadsAreAnswered ==
    \A i \in Loads : (callback = i) ~> (i \in answered \/ callback # i)

\* "Load cancelled": what was reported as cancelled is not installed.
CancelledStaysCancelled == currentReplay \notin cancelled
=============================================================================
