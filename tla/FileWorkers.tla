---------------------------- MODULE FileWorkers ----------------------------
(***************************************************************************)
(* The threads that write replays: the worker of AsyncFileIO with its      *)
(* queue (utils/async_file_io), the thread ReplayFileWriter starts for     *)
(* each replay (surf/recording/filewriter), the chunk files a long run     *)
(* puts aside (surf/recording/recorders), and the order the plugin stops   *)
(* them in (cs2surf.cpp).                                                  *)
(*                                                                         *)
(* The main thread records, gives recorders up, hands them to a thread,    *)
(* runs the callbacks of finished threads once a frame, and unloads the    *)
(* plugin at some point.  A write to the disk may fail.                    *)
(*                                                                         *)
(* A definition marked "Defect" is not part of the model: it is the next   *)
(* definition with a bug in it, which the properties must tell apart.      *)
(***************************************************************************)
EXTENDS Integers, Sequences

CONSTANTS
    Recorders,      \* the recorders of the session; a recorder is never reused
    NoFile,         \* no task, no recorder
    MaxChunks       \* bound: chunks of a recorder

ASSUME RecorderAssumption == MaxChunks \in Nat

Chunk(r, i) == [kind |-> "chunk", of |-> r, index |-> i]
Replay(r)   == [kind |-> "replay", of |-> r, index |-> 0]
Files == [kind : {"chunk", "replay"}, of : Recorders, index : 0 .. MaxChunks]

ASSUME NoFileAssumption == NoFile \notin Files \cup Recorders

VARIABLES
    recorder,           \* "recording", "writing" (a thread has it) or "gone"
    numFlushedChunks,
    main,               \* where the main thread is: "running", "erase", then Stop and Cleanup
    erasing,            \* the recorder it is destroying, or NoFile
    writer,             \* the thread of each recorder
    toMemory,           \* QueueWrite, not QueueWriteToFile
    activeThreads,
    completedCallbacks, \* the replays whose buffer waits for RunFrame
    taskQueue, current, worker, terminate,
    disk, failed, missed    \* failed: writes that failed; missed: chunks not found

recorderVars == <<recorder, numFlushedChunks>>
mainVars     == <<main, erasing>>
writerVars   == <<writer, toMemory, activeThreads, completedCallbacks>>
workerVars   == <<taskQueue, current, worker, terminate>>
diskVars     == <<disk, failed, missed>>
vars == <<recorderVars, mainVars, writerVars, workerVars, diskVars>>

Init ==
    /\ recorder = [r \in Recorders |-> "recording"]
    /\ numFlushedChunks = [r \in Recorders |-> 0]
    /\ main = "running" /\ erasing = NoFile
    /\ writer = [r \in Recorders |-> "none"]
    /\ toMemory = [r \in Recorders |-> FALSE]
    /\ activeThreads = 0 /\ completedCallbacks = <<>>
    /\ taskQueue = <<>> /\ current = NoFile /\ worker = "waiting" /\ terminate = FALSE
    /\ disk = {} /\ failed = {} /\ missed = {}

(***************************************************************************)
(* The worker of AsyncFileIO.                                              *)
(***************************************************************************)
\* What Drain waits for; once the worker has stopped, nobody has a pointer to
\* wait with.
Drained == taskQueue = <<>> /\ current = NoFile

Take ==
    /\ worker = "waiting" /\ taskQueue # <<>>
    /\ current' = Head(taskQueue) /\ taskQueue' = Tail(taskQueue)
    /\ worker' = "busy"
    /\ UNCHANGED <<recorderVars, mainVars, writerVars, terminate, diskVars>>

\* The result of the write is not looked at.
Process ==
    /\ worker = "busy"
    /\ \/ disk' = disk \cup {current} /\ UNCHANGED failed
       \/ failed' = failed \cup {current} /\ UNCHANGED disk
    /\ worker' = "processed"
    /\ UNCHANGED <<recorderVars, mainVars, writerVars, taskQueue, current, terminate, missed>>

\* Defect: a task that failed leaves the worker marked as processing.
DoneIfWritten ==
    /\ worker = "processed"
    /\ current' = IF current \in disk THEN NoFile ELSE current
    /\ worker' = "waiting"
    /\ UNCHANGED <<recorderVars, mainVars, writerVars, taskQueue, terminate, diskVars>>

Done ==
    /\ worker = "processed"
    /\ current' = NoFile /\ worker' = "waiting"
    /\ UNCHANGED <<recorderVars, mainVars, writerVars, taskQueue, terminate, diskVars>>

Exit ==
    /\ worker = "waiting" /\ terminate /\ taskQueue = <<>>
    /\ worker' = "exited"
    /\ UNCHANGED <<recorderVars, mainVars, writerVars, taskQueue, current, terminate, diskVars>>

(***************************************************************************)
(* The main thread.                                                        *)
(***************************************************************************)
Chunks(r) == {Chunk(r, i) : i \in 0 .. numFlushedChunks[r] - 1}

\* The count goes up whether or not the write will succeed.
FlushChunkToDisk(r) ==
    /\ main = "running" /\ recorder[r] = "recording" /\ numFlushedChunks[r] < MaxChunks
    /\ taskQueue' = Append(taskQueue, Chunk(r, numFlushedChunks[r]))
    /\ numFlushedChunks' = [numFlushedChunks EXCEPT ![r] = @ + 1]
    /\ UNCHANGED <<recorder, mainVars, writerVars, current, worker, terminate, diskVars>>

\* CheckRecorders (to memory), OnClientDisconnect and the manual replays (to a
\* file): the recorder moves to a thread of its own.
QueueWrite(r, memory) ==
    /\ main = "running" /\ recorder[r] = "recording"
    /\ recorder' = [recorder EXCEPT ![r] = "writing"]
    /\ writer' = [writer EXCEPT ![r] = "load"]
    /\ toMemory' = [toMemory EXCEPT ![r] = memory]
    /\ activeThreads' = activeThreads + 1
    /\ UNCHANGED <<numFlushedChunks, mainVars, completedCallbacks, workerVars, diskVars>>

\* A run that stops: the recorder is destroyed, which waits for its chunks.
Discard(r) ==
    /\ main = "running" /\ recorder[r] = "recording"
    /\ main' = "erase" /\ erasing' = r
    /\ UNCHANGED <<recorderVars, writerVars, workerVars, diskVars>>

\* Defect: the chunks are removed without waiting for them.
CleanupTempFilesNow(r) ==
    /\ disk' = disk \ Chunks(r)
    /\ numFlushedChunks' = [numFlushedChunks EXCEPT ![r] = 0]
    /\ UNCHANGED <<failed, missed>>

CleanupTempFiles(r) ==
    /\ numFlushedChunks[r] = 0 \/ Drained
    /\ disk' = disk \ Chunks(r)
    /\ numFlushedChunks' = [numFlushedChunks EXCEPT ![r] = 0]
    /\ UNCHANGED <<failed, missed>>

Erase ==
    /\ main = "erase"
    /\ CleanupTempFiles(erasing)
    /\ recorder' = [recorder EXCEPT ![erasing] = "gone"]
    /\ main' = "running" /\ erasing' = NoFile
    /\ UNCHANGED <<writerVars, workerVars>>

\* A finished run's buffer is written out (RunSubmission::OnReplayReady).
RunFrame ==
    /\ main = "running" /\ completedCallbacks # <<>>
    /\ taskQueue' = Append(taskQueue, Replay(Head(completedCallbacks)))
    /\ completedCallbacks' = Tail(completedCallbacks)
    /\ UNCHANGED <<recorderVars, mainVars, writer, toMemory, activeThreads, current, worker, terminate,
                   diskVars>>

GoTo(from, to) ==
    /\ main = from /\ main' = to
    /\ UNCHANGED <<recorderVars, erasing, writerVars, diskVars>>

Unload == GoTo("running", "check") /\ UNCHANGED workerVars

\* ReplayFileWriter::Stop, under m_shutdownMutex: the predicate ...
CheckThreads ==
    /\ GoTo("check", IF activeThreads = 0 THEN "stopped" ELSE "toWait")
    /\ UNCHANGED workerVars

\* ... and the wait.  The threads notify without the mutex, so that one may
\* do it in between.
StartWaiting == GoTo("toWait", "wait") /\ UNCHANGED workerVars

SpuriousWakeup == GoTo("wait", "check") /\ UNCHANGED workerVars

\* The file writer is deleted with the callbacks it still has; AsyncFileIO::Stop.
Terminate ==
    /\ main = "stopped" /\ main' = "joining"
    /\ completedCallbacks' = <<>>
    /\ terminate' = TRUE
    /\ UNCHANGED <<recorderVars, erasing, writer, toMemory, activeThreads, taskQueue, current, worker, diskVars>>

Join == worker = "exited" /\ GoTo("joining", "down") /\ UNCHANGED workerVars

(***************************************************************************)
(* The thread of a replay.                                                 *)
(***************************************************************************)
Step(r, from, to) == writer[r] = from /\ writer' = [writer EXCEPT ![r] = to]

\* Defect: the chunks are read without waiting for them.
LoadNow(r) ==
    /\ Step(r, "load", IF toMemory[r] THEN "report" ELSE "write")
    /\ missed' = missed \cup (Chunks(r) \ disk)
    /\ UNCHANGED <<recorderVars, mainVars, toMemory, activeThreads, completedCallbacks, workerVars, disk, failed>>

\* WriteToMemory with LoadFlushedChunks: a chunk that is not there is skipped.
LoadFlushedChunks(r) ==
    /\ Step(r, "load", IF toMemory[r] THEN "report" ELSE "write")
    /\ numFlushedChunks[r] = 0 \/ Drained
    /\ missed' = missed \cup (Chunks(r) \ disk)
    /\ UNCHANGED <<recorderVars, mainVars, toMemory, activeThreads, completedCallbacks, workerVars, disk, failed>>

WriteToFile(r) ==
    /\ \/ Step(r, "write", "clean") /\ disk' = disk \cup {Replay(r)}
       \/ Step(r, "write", "decrement") /\ UNCHANGED disk
    /\ UNCHANGED <<recorderVars, mainVars, toMemory, activeThreads, completedCallbacks, workerVars, failed, missed>>

Clean(r) ==
    /\ Step(r, "clean", "decrement")
    /\ CleanupTempFiles(r)
    /\ UNCHANGED <<recorder, mainVars, toMemory, activeThreads, completedCallbacks, workerVars>>

\* The callbacks of a replay that went to a file only tell the player.
Report(r) ==
    /\ Step(r, "report", "decrement")
    /\ completedCallbacks' = Append(completedCallbacks, r)
    /\ UNCHANGED <<recorderVars, mainVars, toMemory, activeThreads, workerVars, diskVars>>

Decrement(r) ==
    /\ Step(r, "decrement", IF activeThreads = 1 THEN "notify" ELSE "destroy")
    /\ activeThreads' = activeThreads - 1
    /\ UNCHANGED <<recorderVars, mainVars, toMemory, completedCallbacks, workerVars, diskVars>>

\* notify_all reaches Stop only when it already waits.
Notify(r) ==
    /\ Step(r, "notify", "destroy")
    /\ main' = IF main = "wait" THEN "check" ELSE main
    /\ UNCHANGED <<recorderVars, erasing, toMemory, activeThreads, completedCallbacks, workerVars, diskVars>>

\* The closure of the thread is destroyed with the recorder, after the count
\* went down: the plugin may be unloading by then.  When AsyncFileIO is gone
\* its pointer is null and nothing is waited for.
Destroy(r) ==
    /\ Step(r, "destroy", "ended")
    /\ CleanupTempFiles(r)
    /\ recorder' = [recorder EXCEPT ![r] = "gone"]
    /\ UNCHANGED <<mainVars, toMemory, activeThreads, completedCallbacks, workerVars>>

WorkerStep == Take \/ Process \/ Done \/ Exit
WriterStep(r) ==
    \/ LoadFlushedChunks(r) \/ WriteToFile(r) \/ Clean(r) \/ Report(r)
    \/ Decrement(r) \/ Notify(r) \/ Destroy(r)
StopStep == CheckThreads \/ StartWaiting \/ Terminate \/ Join

Next ==
    \/ WorkerStep \/ StopStep \/ Erase \/ RunFrame \/ Unload \/ SpuriousWakeup
    \/ \E r \in Recorders :
          \/ FlushChunkToDisk(r) \/ Discard(r) \/ WriterStep(r)
          \/ \E memory \in BOOLEAN : QueueWrite(r, memory)

\* The threads run; the main thread gets through Stop and Cleanup once it is
\* in them.  Nobody has to unload the plugin.
Fairness ==
    /\ WF_vars(WorkerStep) /\ WF_vars(StopStep)
    /\ \A r \in Recorders : WF_vars(WriterStep(r))

Spec == Init /\ [][Next]_vars /\ Fairness

-----------------------------------------------------------------------------
MainPlaces == {"running", "erase", "check", "toWait", "wait", "stopped", "joining", "down"}
WriterPlaces == {"none", "load", "write", "clean", "report", "decrement", "notify", "destroy", "ended"}

\* Every variable has its type.
TypeOK ==
    /\ recorder \in [Recorders -> {"recording", "writing", "gone"}]
    /\ numFlushedChunks \in [Recorders -> 0 .. MaxChunks]
    /\ main \in MainPlaces /\ erasing \in Recorders \cup {NoFile}
    /\ writer \in [Recorders -> WriterPlaces] /\ toMemory \in [Recorders -> BOOLEAN]
    /\ activeThreads \in Int /\ completedCallbacks \in Seq(Recorders)
    /\ taskQueue \in Seq(Files) /\ current \in Files \cup {NoFile}
    /\ worker \in {"waiting", "busy", "processed", "exited"} /\ terminate \in BOOLEAN
    /\ disk \subseteq Files /\ failed \subseteq Files /\ missed \subseteq Files

ChunkFilesOf(r) == {f \in Files : f.kind = "chunk" /\ f.of = r}
InTheQueue == {taskQueue[i] : i \in 1 .. Len(taskQueue)}

\* A thread that reads the chunks of a run back misses none whose write
\* succeeded, and no chunk is on the disk, or still to be written there, when
\* its recorder is gone: whatever the worker, the other threads and the main
\* thread do meanwhile, before and during the unload (LoadFlushedChunks,
\* CleanupTempFiles, AsyncFileIO::Drain).
ChunksLastAsLongAsNeeded ==
    /\ missed \subseteq failed
    /\ \A r \in Recorders :
          recorder[r] = "gone" => ChunkFilesOf(r) \cap (disk \cup InTheQueue \cup {current}) = {}

\* The wakeup is lost: Stop waits, no thread is left to notify it.
LostWakeup ==
    /\ main = "wait" /\ activeThreads = 0
    /\ \A r \in Recorders : writer[r] # "notify"

\* Once the plugin unloads, every replay that is being written is finished,
\* the worker empties its queue and the unload goes through, or else the last
\* thread notified between the check and the wait of ReplayFileWriter::Stop
\* ("blocks until all in-flight serializations finish", surf_recording.h:216).
StopReturns == main = "check" ~> (LostWakeup \/ (main = "down" /\ taskQueue = <<>>))
=============================================================================
