---------------------------- MODULE ReplayProofs ----------------------------
(***************************************************************************)
(* Proofs about replays, for any replays, recorders, loads, ticks and      *)
(* options: the threads that write their files (FileWorkers), the watcher  *)
(* that removes them (ReplayArchive), the threads that load them           *)
(* (ReplayLoad), and what is in them (ReplayTape).  The four share no      *)
(* variable; each has a specification of its own, and its theorems are     *)
(* about that one.                                                         *)
(***************************************************************************)
EXTENDS FileWorkers, ReplayArchive, ReplayLoad, ReplayTape, ListProofs

(***************************************************************************)
(* FileWorkers.  The inductive invariant says where the chunks of a        *)
(* recorder are.                                                           *)
(***************************************************************************)
InQueue(q) == {q[i] : i \in 1 .. Len(q)}
Underway   == InQueue(taskQueue) \cup {current}

\* No chunk is anywhere that its recorder does not count.
OnlyCounted ==
    \A r \in Recorders : \A f \in ChunkFilesOf(r) :
        f \in disk \cup Underway => f \in Chunks(r)

\* Each chunk a recorder counts was written, has failed or is under way.
NoneForgotten ==
    \A r \in Recorders : Chunks(r) \subseteq disk \cup failed \cup Underway

\* What the worker holds: nothing when it waits, a file when it is busy, and
\* one that was tried when it has processed it.
WorkerFits ==
    /\ worker \in {"waiting", "exited"} => current = NoFile
    /\ worker = "busy" => current # NoFile
    /\ worker = "processed" => current \in disk \cup failed

\* The main thread erases a recorder only when it was told which one.
EraseFits == main = "erase" => erasing # NoFile

GoneHasNone == \A r \in Recorders : recorder[r] = "gone" => numFlushedChunks[r] = 0

FileInv ==
    /\ TypeOK /\ WorkerFits /\ EraseFits
    /\ OnlyCounted /\ NoneForgotten /\ GoneHasNone /\ missed \subseteq failed

(***************************************************************************)
(* Files and queues.                                                       *)
(***************************************************************************)
\* Appending to a queue adds its new member; taking its head leaves the rest.
LEMMA Queued ==
    ASSUME NEW q \in Seq(Files), NEW f \in Files
    PROVE  Append(q, f) \in Seq(Files) /\ InQueue(Append(q, f)) = InQueue(q) \cup {f}
<1>1. Append(q, f) \in Seq(Files)
    OBVIOUS
<1>2. Len(Append(q, f)) = Len(q) + 1 /\ Len(q) \in Nat
    OBVIOUS
<1>3. \A i \in 1 .. Len(q) : Append(q, f)[i] = q[i]
    OBVIOUS
<1>4. Append(q, f)[Len(q) + 1] = f
    OBVIOUS
<1> QED BY <1>1, <1>2, <1>3, <1>4 DEF InQueue

LEMMA Dequeued ==
    ASSUME NEW q \in Seq(Files), q # <<>>
    PROVE  /\ Head(q) \in Files /\ Tail(q) \in Seq(Files)
           /\ InQueue(q) = InQueue(Tail(q)) \cup {Head(q)}
<1>1. Head(q) \in Files /\ Tail(q) \in Seq(Files) /\ Head(q) = q[1]
    OBVIOUS
<1>2. Len(q) \in Nat /\ Len(q) >= 1 /\ Len(Tail(q)) = Len(q) - 1
    OBVIOUS
<1>3. \A i \in 1 .. Len(Tail(q)) : Tail(q)[i] = q[i + 1]
    OBVIOUS
<1>4. \A j \in 2 .. Len(q) : j - 1 \in 1 .. Len(Tail(q)) /\ q[j] = Tail(q)[j - 1]
    BY <1>2, <1>3
<1>5. \A i \in 1 .. Len(Tail(q)) : i + 1 \in 1 .. Len(q)
    BY <1>2
<1>6. InQueue(Tail(q)) \cup {Head(q)} \subseteq InQueue(q)
    BY <1>1, <1>2, <1>3, <1>5 DEF InQueue
<1>7. InQueue(q) \subseteq InQueue(Tail(q)) \cup {Head(q)}
    BY <1>1, <1>2, <1>4 DEF InQueue
<1> QED BY <1>1, <1>6, <1>7

\* The chunks a recorder counts are its files, and are its files alone.
LEMMA ChunkKinds ==
    ASSUME TypeOK
    PROVE  /\ \A r \in Recorders : Chunks(r) \subseteq ChunkFilesOf(r)
           /\ \A r, s \in Recorders : r # s => ChunkFilesOf(r) \cap ChunkFilesOf(s) = {}
           /\ \A r \in Recorders : ChunkFilesOf(r) \subseteq Files /\ NoFile \notin ChunkFilesOf(r)
           /\ \A r, s \in Recorders : Replay(s) \in Files /\ Replay(s) \notin ChunkFilesOf(r)
           /\ \A r \in Recorders : numFlushedChunks[r] = 0 => Chunks(r) = {}
BY RecorderAssumption, NoFileAssumption DEF TypeOK, Chunks, ChunkFilesOf, Chunk, Replay, Files

(***************************************************************************)
(* Steps that do not touch the chunks.                                     *)
(***************************************************************************)
\* A step that counts no chunk, and moves files only so that what was under
\* way stays so, or is on the disk, or has failed.
LEMMA ChunksRest ==
    ASSUME FileInv, TypeOK', WorkerFits', EraseFits', missed' \subseteq failed',
           numFlushedChunks' = numFlushedChunks,
           \A r \in Recorders : recorder'[r] = "gone" => recorder[r] = "gone",
           disk \subseteq disk', failed \subseteq failed',
           Underway \subseteq Underway' \cup disk' \cup failed' \cup {NoFile},
           \A r \in Recorders : \A f \in ChunkFilesOf(r) :
               f \in disk' \cup Underway' => f \in disk \cup Underway
    PROVE  FileInv'
<1>1. \A r \in Recorders : Chunks(r)' = Chunks(r) /\ ChunkFilesOf(r)' = ChunkFilesOf(r)
    BY DEF Chunks, ChunkFilesOf
<1>2. OnlyCounted'
    BY <1>1 DEF FileInv, OnlyCounted
<1>3. NoneForgotten'
    BY <1>1, ChunkKinds DEF FileInv, NoneForgotten
<1>4. GoneHasNone'
    BY DEF FileInv, GoneHasNone
<1> QED BY <1>2, <1>3, <1>4 DEF FileInv

\* A recorder whose chunks are removed has none anywhere: either it counted
\* none, or nothing was under way.
LEMMA ChunksRemoved ==
    ASSUME FileInv, TypeOK', EraseFits', NEW r \in Recorders, CleanupTempFiles(r),
           \A s \in Recorders : s # r /\ recorder'[s] = "gone" => recorder[s] = "gone",
           UNCHANGED workerVars
    PROVE  FileInv'
<1>1. /\ numFlushedChunks'[r] = 0
      /\ \A s \in Recorders : s # r => numFlushedChunks'[s] = numFlushedChunks[s]
      /\ disk' = disk \ Chunks(r) /\ failed' = failed /\ missed' = missed
      /\ Underway' = Underway
    BY DEF CleanupTempFiles, FileInv, TypeOK, Underway, workerVars
<1>2. \A s \in Recorders : s # r => Chunks(s)' = Chunks(s) /\ Chunks(s) \cap Chunks(r) = {}
    BY <1>1, ChunkKinds DEF Chunks, FileInv
<1>3. Chunks(r)' = {}
    BY <1>1 DEF Chunks
<1>4. \A f \in ChunkFilesOf(r) : f \notin disk' \cup Underway'
    <2>1. CASE numFlushedChunks[r] = 0
        BY <1>1, <2>1, ChunkKinds DEF FileInv, OnlyCounted
    <2>2. CASE Drained
        <3>1. Underway = {NoFile}
            BY <2>2 DEF Drained, Underway, InQueue
        <3> QED BY <1>1, <3>1, ChunkKinds DEF FileInv, OnlyCounted
    <2> QED BY <2>1, <2>2 DEF CleanupTempFiles
<1>5. OnlyCounted'
    <2>1. \A s \in Recorders : ChunkFilesOf(s)' = ChunkFilesOf(s)
        BY DEF ChunkFilesOf
    <2> QED BY <1>1, <1>2, <1>4, <2>1 DEF FileInv, OnlyCounted
<1>6. NoneForgotten'
    BY <1>1, <1>2, <1>3 DEF FileInv, NoneForgotten
<1>7. WorkerFits'
    <2>1. worker = "processed" => current \in disk' \cup failed'
        <3> SUFFICES ASSUME worker = "processed" PROVE current \in disk' \cup failed'
            OBVIOUS
        <3>1. current \in disk \cup failed /\ current \in Underway
            BY DEF FileInv, WorkerFits, Underway
        <3>2. current \notin Chunks(r)
            BY <1>1, <1>4, <3>1, ChunkKinds DEF FileInv
        <3> QED BY <1>1, <3>1, <3>2
    <2> QED BY <2>1 DEF FileInv, WorkerFits, workerVars
<1>8. GoneHasNone'
    BY <1>1 DEF FileInv, GoneHasNone
<1> QED BY <1>1, <1>5, <1>6, <1>7, <1>8 DEF FileInv

(***************************************************************************)
(* Types, and what the worker and the main thread hold.                    *)
(***************************************************************************)
\* What each step does to the recorders, the threads and the queues is typed,
\* and the worker and the main thread hold what they should.
TypeInv == TypeOK /\ WorkerFits /\ EraseFits

LEMMA TypedStep ==
    ASSUME TypeInv, Next
    PROVE  TypeOK' /\ EraseFits' /\ (disk \subseteq disk' => WorkerFits')
<1> USE RecorderAssumption, NoFileAssumption DEF TypeInv, TypeOK, WorkerFits, EraseFits,
        recorderVars, mainVars, writerVars, workerVars, diskVars, MainPlaces, WriterPlaces
<1>1. CASE Take
    BY <1>1, Dequeued DEF Take
<1>2. CASE Process
    BY <1>2 DEF Process
<1>3. CASE Done
    BY <1>3 DEF Done
<1>4. CASE Exit
    BY <1>4 DEF Exit
<1>5. CASE CheckThreads \/ StartWaiting \/ Join \/ Unload \/ SpuriousWakeup
    BY <1>5 DEF CheckThreads, StartWaiting, Join, Unload, SpuriousWakeup, GoTo
<1>6. CASE Terminate
    BY <1>6 DEF Terminate
<1>7. CASE Erase
    BY <1>7 DEF Erase, CleanupTempFiles
<1>8. CASE RunFrame
    <2>1. Head(completedCallbacks) \in Recorders /\ Tail(completedCallbacks) \in Seq(Recorders)
        BY <1>8 DEF RunFrame
    <2>2. Replay(Head(completedCallbacks)) \in Files
        BY <2>1, ChunkKinds
    <2> QED BY <1>8, <2>1, <2>2, Queued DEF RunFrame
<1>9. ASSUME NEW r \in Recorders, FlushChunkToDisk(r)
      PROVE  TypeOK' /\ EraseFits' /\ WorkerFits'
    <2>1. Chunk(r, numFlushedChunks[r]) \in Files
        BY <1>9 DEF FlushChunkToDisk, Chunk, Files
    <2> QED BY <1>9, <2>1, Queued DEF FlushChunkToDisk
<1>10. ASSUME NEW r \in Recorders, Discard(r)
       PROVE  TypeOK' /\ EraseFits' /\ WorkerFits'
    BY <1>10 DEF Discard
<1>11. ASSUME NEW r \in Recorders, NEW memory \in BOOLEAN, QueueWrite(r, memory)
       PROVE  TypeOK' /\ EraseFits' /\ WorkerFits'
    BY <1>11 DEF QueueWrite
<1>12. ASSUME NEW r \in Recorders, LoadFlushedChunks(r)
       PROVE  TypeOK' /\ EraseFits' /\ WorkerFits'
    BY <1>12, ChunkKinds DEF LoadFlushedChunks, Step
<1>13. ASSUME NEW r \in Recorders, WriteToFile(r)
       PROVE  TypeOK' /\ EraseFits' /\ WorkerFits'
    <2>1. Replay(r) \in Files
        BY ChunkKinds
    <2>2. disk \subseteq disk' /\ disk' \subseteq Files /\ writer' \in [Recorders -> WriterPlaces]
        BY <1>13, <2>1 DEF WriteToFile, Step
    <2> QED BY <1>13, <2>2 DEF WriteToFile
<1>14. ASSUME NEW r \in Recorders, Clean(r) \/ Destroy(r)
       PROVE  TypeOK' /\ EraseFits' /\ (disk \subseteq disk' => WorkerFits')
    <2>1. CASE Clean(r)
        BY <2>1 DEF Clean, CleanupTempFiles, Step
    <2>2. CASE Destroy(r)
        BY <2>2 DEF Destroy, CleanupTempFiles, Step
    <2> QED BY <1>14, <2>1, <2>2
<1>15. ASSUME NEW r \in Recorders, Report(r)
       PROVE  TypeOK' /\ EraseFits' /\ WorkerFits'
    <2>1. Append(completedCallbacks, r) \in Seq(Recorders)
        OBVIOUS
    <2> QED BY <1>15, <2>1 DEF Report, Step
<1>16. ASSUME NEW r \in Recorders, Decrement(r) \/ Notify(r)
       PROVE  TypeOK' /\ EraseFits' /\ WorkerFits'
    BY <1>16 DEF Decrement, Notify, Step
<1> QED BY <1>1, <1>2, <1>3, <1>4, <1>5, <1>6, <1>7, <1>8, <1>9, <1>10, <1>11, <1>12, <1>13,
           <1>14, <1>15, <1>16
        DEF Next, WorkerStep, StopStep, WriterStep

(***************************************************************************)
(* The steps.                                                              *)
(***************************************************************************)
\* A chunk that is put aside is under way, and counted from then on.
LEMMA ChunkPutAside ==
    ASSUME FileInv, TypeInv', NEW r \in Recorders, FlushChunkToDisk(r)
    PROVE  FileInv'
<1> DEFINE f == Chunk(r, numFlushedChunks[r])
<1>1. /\ numFlushedChunks[r] \in Nat /\ numFlushedChunks'[r] = numFlushedChunks[r] + 1
      /\ \A s \in Recorders : s # r => numFlushedChunks'[s] = numFlushedChunks[s]
      /\ f \in ChunkFilesOf(r) /\ f \in Files
    BY RecorderAssumption DEF FlushChunkToDisk, FileInv, TypeOK, Chunk, ChunkFilesOf, Files
<1>2. Underway' = Underway \cup {f}
    BY <1>1, Queued DEF FlushChunkToDisk, FileInv, TypeOK, Underway
<1>3. Chunks(r)' = Chunks(r) \cup {f}
    BY <1>1 DEF Chunks
<1>4. \A s \in Recorders : s # r => Chunks(s)' = Chunks(s) /\ f \notin ChunkFilesOf(s)
    BY <1>1, ChunkKinds DEF Chunks, FileInv
<1> HIDE DEF f
<1>5. /\ disk' = disk /\ failed' = failed /\ missed' = missed
      /\ recorder' = recorder /\ recorder[r] = "recording"
      /\ \A s \in Recorders : ChunkFilesOf(s)' = ChunkFilesOf(s)
    BY DEF FlushChunkToDisk, diskVars, ChunkFilesOf
<1>6. OnlyCounted'
    BY <1>2, <1>3, <1>4, <1>5 DEF FileInv, OnlyCounted
<1>7. NoneForgotten'
    BY <1>2, <1>3, <1>4, <1>5 DEF FileInv, NoneForgotten
<1>8. GoneHasNone'
    BY <1>1, <1>5 DEF FileInv, GoneHasNone
<1> QED BY <1>5, <1>6, <1>7, <1>8 DEF FileInv, TypeInv

\* A thread that reads the chunks back has waited for them, if there are any.
LEMMA ChunksRead ==
    ASSUME FileInv, NEW r \in Recorders, LoadFlushedChunks(r)
    PROVE  missed' \subseteq failed
<1>1. CASE numFlushedChunks[r] = 0
    BY <1>1, ChunkKinds DEF LoadFlushedChunks, FileInv
<1>2. CASE Drained
    <2>1. Underway = {NoFile}
        BY <1>2 DEF Drained, Underway, InQueue
    <2>2. Chunks(r) \ disk \subseteq failed
        BY <2>1, ChunkKinds DEF FileInv, NoneForgotten
    <2> QED BY <2>2 DEF LoadFlushedChunks, FileInv
<1> QED BY <1>1, <1>2 DEF LoadFlushedChunks

LEMMA FileStep ==
    ASSUME FileInv, [Next]_vars
    PROVE  FileInv'
<1>1. CASE UNCHANGED vars
    BY <1>1 DEF vars, recorderVars, mainVars, writerVars, workerVars, diskVars, FileInv, TypeOK,
        WorkerFits, EraseFits, OnlyCounted, NoneForgotten, GoneHasNone, Chunks, ChunkFilesOf, Underway, InQueue
<1> SUFFICES ASSUME Next PROVE FileInv'
    BY <1>1
<1>2. TypeInv /\ TypeOK' /\ EraseFits' /\ (disk \subseteq disk' => WorkerFits')
    BY TypedStep DEF FileInv, TypeInv
<1> USE DEF recorderVars, mainVars, writerVars, workerVars, diskVars
<1>3. CASE Take
    <2>1. Underway' \cup {NoFile} = Underway /\ current = NoFile
        <3>1. taskQueue \in Seq(Files) /\ taskQueue # <<>> /\ current = NoFile
            BY <1>3 DEF Take, FileInv, TypeOK, WorkerFits
        <3>2. InQueue(taskQueue) = InQueue(Tail(taskQueue)) \cup {Head(taskQueue)}
            BY <3>1, Dequeued
        <3>3. Underway' = InQueue(Tail(taskQueue)) \cup {Head(taskQueue)}
            BY <1>3 DEF Take, Underway
        <3> QED BY <3>1, <3>2, <3>3 DEF Underway
    <2>2. \A r \in Recorders : NoFile \notin ChunkFilesOf(r)
        BY ChunkKinds DEF FileInv
    <2> QED BY <1>2, <1>3, <2>1, <2>2, ChunksRest DEF Take, FileInv
<1>4. CASE Process
    <2>1. Underway' = Underway /\ current \in Underway
        BY <1>4 DEF Process, Underway
    <2> QED BY <1>2, <1>4, <2>1, ChunksRest DEF Process, FileInv
<1>5. CASE Done
    <2>1. Underway' \subseteq Underway \cup {NoFile} /\ Underway \subseteq Underway' \cup {current}
        BY <1>5 DEF Done, Underway
    <2>2. current \in disk \cup failed
        BY <1>5 DEF Done, FileInv, WorkerFits
    <2>3. \A r \in Recorders : NoFile \notin ChunkFilesOf(r)
        BY ChunkKinds DEF FileInv
    <2> QED BY <1>2, <1>5, <2>1, <2>2, <2>3, ChunksRest DEF Done, FileInv
<1>6. CASE Exit
    BY <1>2, <1>6, ChunksRest DEF Exit, FileInv, Underway
<1>7. CASE CheckThreads \/ StartWaiting \/ Join \/ Unload \/ SpuriousWakeup
    BY <1>2, <1>7, ChunksRest
    DEF CheckThreads, StartWaiting, Join, Unload, SpuriousWakeup, GoTo, FileInv, Underway
<1>8. CASE Terminate
    BY <1>2, <1>8, ChunksRest DEF Terminate, FileInv, Underway
<1>9. CASE Erase
    <2>1. erasing \in Recorders
        BY <1>9 DEF Erase, FileInv, TypeOK, EraseFits
    <2>2. CleanupTempFiles(erasing) /\ UNCHANGED workerVars
        BY <1>9 DEF Erase
    <2>3. \A s \in Recorders : s # erasing /\ recorder'[s] = "gone" => recorder[s] = "gone"
        BY <1>9 DEF Erase, FileInv, TypeOK
    <2> QED BY <1>2, <2>1, <2>2, <2>3, ChunksRemoved
<1>10. CASE RunFrame
    <2> DEFINE f == Replay(Head(completedCallbacks))
    <2>1. f \in Files /\ \A r \in Recorders : f \notin ChunkFilesOf(r)
        BY <1>10, ChunkKinds DEF RunFrame, FileInv, TypeOK
    <2> HIDE DEF f
    <2>2. Underway' = Underway \cup {f}
        BY <1>10, <2>1, Queued DEF RunFrame, FileInv, TypeOK, Underway, f
    <2> QED BY <1>2, <1>10, <2>1, <2>2, ChunksRest DEF RunFrame, FileInv
<1>11. ASSUME NEW r \in Recorders, FlushChunkToDisk(r)
       PROVE  FileInv'
    BY <1>2, <1>11, ChunkPutAside DEF FlushChunkToDisk, TypeInv
<1>12. ASSUME NEW r \in Recorders, Discard(r)
       PROVE  FileInv'
    BY <1>2, <1>12, ChunksRest DEF Discard, FileInv, Underway
<1>13. ASSUME NEW r \in Recorders, NEW memory \in BOOLEAN, QueueWrite(r, memory)
       PROVE  FileInv'
    <2>1. \A s \in Recorders : recorder'[s] = "gone" => recorder[s] = "gone"
        BY <1>13 DEF QueueWrite, FileInv, TypeOK
    <2> QED BY <1>2, <1>13, <2>1, ChunksRest DEF QueueWrite, FileInv, Underway
<1>14. ASSUME NEW r \in Recorders, LoadFlushedChunks(r)
       PROVE  FileInv'
    <2>1. missed' \subseteq failed'
        BY <1>14, ChunksRead DEF LoadFlushedChunks
    <2> QED BY <1>2, <1>14, <2>1, ChunksRest DEF LoadFlushedChunks, FileInv, Underway
<1>15. ASSUME NEW r \in Recorders, WriteToFile(r)
       PROVE  FileInv'
    <2>1. \A s \in Recorders : Replay(r) \notin ChunkFilesOf(s)
        BY ChunkKinds DEF FileInv
    <2>2. disk \subseteq disk' /\ disk' \subseteq disk \cup {Replay(r)} /\ Underway' = Underway
        BY <1>15 DEF WriteToFile, Underway
    <2> QED BY <1>2, <1>15, <2>1, <2>2, ChunksRest DEF WriteToFile, FileInv
<1>16. ASSUME NEW r \in Recorders, Clean(r)
       PROVE  FileInv'
    BY <1>2, <1>16, ChunksRemoved DEF Clean
<1>17. ASSUME NEW r \in Recorders, Destroy(r)
       PROVE  FileInv'
    <2>1. \A s \in Recorders : s # r /\ recorder'[s] = "gone" => recorder[s] = "gone"
        BY <1>17 DEF Destroy, FileInv, TypeOK
    <2> QED BY <1>2, <1>17, <2>1, ChunksRemoved DEF Destroy
<1>18. ASSUME NEW r \in Recorders, Report(r) \/ Decrement(r) \/ Notify(r)
       PROVE  FileInv'
    BY <1>2, <1>18, ChunksRest DEF Report, Decrement, Notify, FileInv, Underway
<1> QED BY <1>3, <1>4, <1>5, <1>6, <1>7, <1>8, <1>9, <1>10, <1>11, <1>12, <1>13, <1>14, <1>15, <1>16,
           <1>17, <1>18
        DEF Next, WorkerStep, StopStep, WriterStep

LEMMA FileInit ==
    ASSUME Init
    PROVE  FileInv
<1> USE RecorderAssumption, NoFileAssumption DEF Init
<1>1. TypeOK
    <2>1. taskQueue \in Seq(Files) /\ completedCallbacks \in Seq(Recorders)
        OBVIOUS
    <2>2. erasing \in Recorders \cup {NoFile} /\ current \in Files \cup {NoFile} /\ activeThreads \in Int
        OBVIOUS
    <2>3. disk \subseteq Files /\ failed \subseteq Files /\ missed \subseteq Files
        OBVIOUS
    <2>4. main \in MainPlaces /\ worker \in {"waiting", "busy", "processed", "exited"} /\ terminate \in BOOLEAN
        BY DEF MainPlaces
    <2>5. numFlushedChunks \in [Recorders -> 0 .. MaxChunks] /\ toMemory \in [Recorders -> BOOLEAN]
        OBVIOUS
    <2>6. writer \in [Recorders -> WriterPlaces] /\ recorder \in [Recorders -> {"recording", "writing", "gone"}]
        BY DEF WriterPlaces
    <2> HIDE DEF Init
    <2> QED BY <2>1, <2>2, <2>3, <2>4, <2>5, <2>6 DEF TypeOK
<1>2. Underway = {NoFile} /\ \A r \in Recorders : Chunks(r) = {}
    BY DEF Underway, InQueue, Chunks
<1>3. OnlyCounted /\ NoneForgotten
    BY <1>1, <1>2, ChunkKinds DEF OnlyCounted, NoneForgotten
<1> QED BY <1>1, <1>3 DEF FileInv, WorkerFits, EraseFits, GoneHasNone

(***************************************************************************)
(* The theorems.                                                           *)
(***************************************************************************)
LEMMA FileInvHolds == Spec => []FileInv
BY FileInit, FileStep, PTL DEF Spec

\* Every variable of the threads that write replays has its type.
THEOREM FilesTyped == Spec => []TypeOK
<1>1. FileInv => TypeOK
    BY DEF FileInv
<1> QED BY <1>1, FileInvHolds, PTL

\* A thread that reads the chunks of a run back misses none whose write
\* succeeded, and none is left when its recorder is gone: what a recorder
\* counts is on the disk, has failed or is under way, nothing else of it is
\* anywhere, and who reads or removes chunks has waited until nothing is under
\* way.
THEOREM ChunksLast == Spec => []ChunksLastAsLongAsNeeded
<1>1. ASSUME FileInv, NEW r \in Recorders, recorder[r] = "gone"
      PROVE  ChunkFilesOf(r) \cap (disk \cup InTheQueue \cup {current}) = {}
    <2>1. Chunks(r) = {}
        BY <1>1, ChunkKinds DEF FileInv, GoneHasNone
    <2>2. InTheQueue \cup {current} = Underway
        BY DEF InTheQueue, Underway, InQueue
    <2> QED BY <1>1, <2>1, <2>2 DEF FileInv, OnlyCounted
<1>2. FileInv => ChunksLastAsLongAsNeeded
    BY <1>1 DEF FileInv, ChunksLastAsLongAsNeeded
<1> QED BY <1>2, FileInvHolds, PTL

(***************************************************************************)
(* ReplayArchive.  The inductive invariant says who has betters, and that  *)
(* marks are of the past.                                                  *)
(***************************************************************************)
\* What a scan has yet to look at and what it has found are apart; nothing is
\* left to look at when no scan is on, and then what is listed is there.
ScanFits ==
    /\ todo \cap found = {}
    /\ phase # "scan" => todo = {}
    /\ ListedAreThere

MaxRuns   == AtLeastTwo(MaxRunReplays)
MaxManual == AtLeastTwo(MaxManualReplays)

\* In the index or in its file.
HasMark(r) == archivedIndex[r] # NotArchived \/ savedIndex[r] # NotArchived

\* A run that is marked or removed has its betters, and whoever was removed
\* himself had his, who are better still.
Outdone ==
    /\ \A r \in Replays : HasMark(r) => r \notin Manual
    /\ \A r \in Ranked : HasMark(r) \/ r \in Removed => Cardinality(Faster(r)) >= MaxRuns
    /\ \A r \in Removed \cap Manual : Cardinality(Newer(r)) >= MaxManual

\* While the clock has not been set back, a mark is no older than the first
\* one of its replay, and none is from the future.
MarksArePast ==
    /\ now <= MaxTime
    /\ ~setBack =>
        /\ scanTime <= now
        /\ \A r \in Replays : firstMarked[r] # NotArchived =>
               firstMarked[r] <= now /\ (phase # "stopped" => firstMarked[r] <= scanTime)
        /\ \A r \in Replays : archivedIndex[r] # NotArchived =>
               /\ firstMarked[r] # NotArchived /\ firstMarked[r] <= archivedIndex[r]
               /\ archivedIndex[r] <= scanTime
        /\ \A r \in Replays : savedIndex[r] # NotArchived =>
               /\ firstMarked[r] # NotArchived /\ firstMarked[r] <= savedIndex[r]
               /\ savedIndex[r] <= now

ArchiveInv ==
    /\ TypeOKArchive /\ ScanFits /\ MarksArePast
    /\ DistinctTimes => Outdone

(***************************************************************************)
(* The files and the betters of a replay.                                  *)
(***************************************************************************)
LEMMA SubsetsCount ==
    ASSUME NEW S \in SUBSET Replays, NEW T \in SUBSET S
    PROVE  /\ IsFiniteSet(T) /\ Cardinality(T) \in Nat /\ Cardinality(S) \in Nat
           /\ Cardinality(T) <= Cardinality(S)
<1>1. IsFiniteSet(S)
    BY ReplayAssumption, FS_Subset
<1>2. IsFiniteSet(T) /\ Cardinality(T) <= Cardinality(S)
    BY <1>1, FS_Subset
<1> QED BY <1>1, <1>2, FS_CardinalityType

\* The options.
LEMMA OptionsAreNumbers == MaxRuns \in Nat /\ MaxManual \in Nat
BY ReplayAssumption DEF MaxRuns, MaxManual, AtLeastTwo

LEMMA KindsApart == Ranked \subseteq Replays /\ Manual \subseteq Replays /\ Ranked \cap Manual = {}
BY ReplayAssumption DEF Ranked

LEMMA ArchiveTypedStep ==
    ASSUME TypeOKArchive, ScanFits, NextArchive
    PROVE  TypeOKArchive' /\ ScanFits'
<1> USE ReplayAssumption DEF directoryVars, scanVars, indexVars, TypeOKArchive, ScanFits, ListedAreThere
<1>1. ASSUME NEW r \in Replays, WriteReplay(r)
      PROVE  TypeOKArchive' /\ ScanFits'
    BY <1>1 DEF WriteReplay
<1>2. ASSUME NEW r \in Replays, ScanReplay(r)
      PROVE  TypeOKArchive' /\ ScanFits'
    <2>1. CASE Expired(r)
        BY <1>2, <2>1 DEF ScanReplay
    <2>2. CASE ~Expired(r)
        BY <1>2, <2>2 DEF ScanReplay
    <2> QED BY <2>1, <2>2
<1>3. CASE Start
    BY <1>3 DEF Start, BeginScan
<1>4. CASE WakeUp
    BY <1>4 DEF WakeUp, BeginScan
<1>5. CASE EndScan
    <2>1. PICK keep \in SUBSET (found \cap Ranked), stay \in SUBSET (found \cap Manual) :
              EndScan!2!(keep, stay)
        BY <1>5 DEF EndScan
    <2>2. /\ files' = files \ ((found \cap Manual) \ stay)
          /\ listed' = found \ (Manual \ stay)
          /\ phase = "scan" /\ todo = {} /\ phase' \in {"sleep", "save"}
          /\ UNCHANGED <<written, savedIndex, todo, found, scanTime, firstScan, now, setBack, crashes>>
        BY <1>5, <2>1 DEF EndScan, Listing
    <2>3. /\ archivedIndex' \in [Replays -> Nat \cup {NotArchived}]
          /\ firstMarked' \in [Replays -> Nat \cup {NotArchived}]
        BY <2>1
    <2>4. archiveDirty' \in BOOLEAN
        BY <2>1
    <2> QED BY <2>2, <2>3, <2>4
<1>6. CASE SaveArchiveIndex
    BY <1>6 DEF SaveArchiveIndex
<1>7. CASE Crash
    <2>1. NoIndex \in [Replays -> Nat \cup {NotArchived}]
        BY DEF NoIndex
    <2>2. /\ savedIndex' \in [Replays -> Nat \cup {NotArchived}]
          /\ archivedIndex' \in [Replays -> Nat \cup {NotArchived}]
        BY <1>7, <2>1 DEF Crash, Forget
    <2>3. crashes' \in Nat /\ scanTime' \in Nat /\ phase' = "stopped"
        BY <1>7 DEF Crash, Forget
    <2>4. todo' = {} /\ found' = {} /\ listed' = {} /\ ~archiveDirty' /\ firstScan'
        BY <1>7 DEF Crash, Forget
    <2>5. UNCHANGED <<files, written, now, setBack, firstMarked>>
        BY <1>7 DEF Crash, Forget
    <2>6. archiveDirty' \in BOOLEAN /\ firstScan' \in BOOLEAN
        BY <1>7 DEF Crash, Forget
    <2> QED BY <2>2, <2>3, <2>4, <2>5, <2>6
<1>8. CASE Tick
    BY <1>8 DEF Tick
<1>9. CASE SetClockBack
    BY <1>9 DEF SetClockBack
<1> QED BY <1>1, <1>2, <1>3, <1>4, <1>5, <1>6, <1>7, <1>8, <1>9 DEF NextArchive

LEMMA MarksStep ==
    ASSUME TypeOKArchive, MarksArePast, NextArchive
    PROVE  MarksArePast'
<1> USE ReplayAssumption DEF directoryVars, scanVars, indexVars, TypeOKArchive, MarksArePast
<1>1. ASSUME NEW r \in Replays, WriteReplay(r)
      PROVE  MarksArePast'
    BY <1>1 DEF WriteReplay
<1>2. ASSUME NEW r \in Replays, ScanReplay(r)
      PROVE  MarksArePast'
    <2>1. CASE Expired(r)
        BY <1>2, <2>1 DEF ScanReplay
    <2>2. CASE ~Expired(r)
        BY <1>2, <2>2 DEF ScanReplay
    <2> QED BY <2>1, <2>2
<1>3. CASE Start
    BY <1>3 DEF Start, BeginScan
<1>4. CASE WakeUp
    BY <1>4 DEF WakeUp, BeginScan
<1>5. CASE EndScan
    <2>1. PICK keep \in SUBSET (found \cap Ranked), stay \in SUBSET (found \cap Manual) :
              EndScan!2!(keep, stay)
        BY <1>5 DEF EndScan
    <2>2. /\ archivedIndex' = [r \in Replays |-> IF r \in Marked(keep) THEN scanTime ELSE archivedIndex[r]]
          /\ firstMarked' = [r \in Replays |-> IF r \in Marked(keep) /\ firstMarked[r] = NotArchived
                                               THEN scanTime ELSE firstMarked[r]]
          /\ phase = "scan"
          /\ UNCHANGED <<savedIndex, scanTime, now, setBack>>
        BY <1>5, <2>1 DEF EndScan
    <2> QED BY <2>2
<1>6. CASE SaveArchiveIndex
    BY <1>6 DEF SaveArchiveIndex
<1>7. CASE Crash
    BY <1>7 DEF Crash, Forget, NoIndex
<1>8. CASE Tick
    BY <1>8 DEF Tick
<1>9. CASE SetClockBack
    BY <1>9 DEF SetClockBack
<1> QED BY <1>1, <1>2, <1>3, <1>4, <1>5, <1>6, <1>7, <1>8, <1>9 DEF NextArchive

\* Who is outdone stays so while one replay at most goes that has a mark
\* itself: its betters are better than all it was better than.
LEMMA StillFaster ==
    ASSUME TypeOKArchive, Outdone, files' \subseteq Replays,
           NEW q \in Replays, HasMark(q), (files \cap Ranked) \ {q} \subseteq files',
           NEW r \in Ranked, Cardinality(Faster(r)) >= MaxRuns
    PROVE  Cardinality(Faster(r)') >= MaxRuns
<1>1. /\ Faster(r)' = {p \in files' \cap Ranked : Group[p] = Group[r] /\ Time[p] < Time[r]}
      /\ Faster(r)' \subseteq Replays
    BY DEF Faster
<1>2. CASE q \notin Faster(r)
    <2>1. Faster(r) \subseteq Faster(r)'
        BY <1>1, <1>2 DEF Faster
    <2> QED BY <1>1, <2>1, SubsetsCount, OptionsAreNumbers
<1>3. CASE q \in Faster(r)
    <2>1. q \in Ranked /\ Group[q] = Group[r] /\ Time[q] < Time[r]
        BY <1>3 DEF Faster
    <2>2. Faster(q) \subseteq Faster(r)'
        BY <1>1, <2>1, KindsApart, ReplayAssumption DEF Faster
    <2>3. Cardinality(Faster(q)) >= MaxRuns
        BY <2>1 DEF Outdone
    <2> QED BY <1>1, <2>2, <2>3, SubsetsCount, OptionsAreNumbers
<1> QED BY <1>2, <1>3

\* And while no ranked replay goes at all.
LEMMA FasterStay ==
    ASSUME TypeOKArchive, files' \subseteq Replays, files \cap Ranked \subseteq files',
           NEW r \in Ranked, Cardinality(Faster(r)) >= MaxRuns
    PROVE  Cardinality(Faster(r)') >= MaxRuns
<1>1. Faster(r) \subseteq Faster(r)' /\ Faster(r)' \subseteq Replays
    BY DEF Faster
<1> QED BY <1>1, SubsetsCount, OptionsAreNumbers

LEMMA NewerStay ==
    ASSUME TypeOKArchive, files' \subseteq Replays, files \cap Manual \subseteq files',
           NEW r \in Manual, Cardinality(Newer(r)) >= MaxManual
    PROVE  Cardinality(Newer(r)') >= MaxManual
<1>1. Newer(r) \subseteq Newer(r)' /\ Newer(r)' \subseteq Replays
    BY DEF Newer
<1> QED BY <1>1, SubsetsCount, OptionsAreNumbers

\* A step that neither marks a replay nor removes one.
LEMMA OutdoneRests ==
    ASSUME TypeOKArchive, TypeOKArchive', Outdone,
           files \subseteq files', Removed' = Removed,
           \A r \in Replays : HasMark(r)' => HasMark(r)
    PROVE  Outdone'
<1>1. files' \subseteq Replays /\ Removed \subseteq Replays
    BY DEF TypeOKArchive, Removed
<1> USE KindsApart
<1>2. \A r \in Replays : HasMark(r)' => r \notin Manual
    BY DEF Outdone
<1>3. ASSUME NEW r \in Ranked, HasMark(r)' \/ r \in Removed'
      PROVE  Cardinality(Faster(r)') >= MaxRuns
    BY <1>1, <1>3, FasterStay DEF Outdone
<1>4. ASSUME NEW r \in Removed' \cap Manual
      PROVE  Cardinality(Newer(r)') >= MaxManual
    BY <1>1, <1>4, NewerStay DEF Outdone
<1> QED BY <1>2, <1>3, <1>4 DEF Outdone

\* A scan ends: those it marks and those it removes are outdone by those it keeps.
LEMMA KeptFaster ==
    ASSUME TypeOKArchive, DistinctTimes, files' \subseteq Replays, phase = "scan",
           NEW keep, KeptRuns(keep), files \cap Ranked \subseteq files',
           NEW r \in (found \cap Ranked) \ keep
    PROVE  Cardinality(Faster(r)') >= MaxRuns
<1> DEFINE kept == keep \cap SameGroup(r)
<1> USE KindsApart, ReplayAssumption
<1>1. kept \subseteq found \cap Ranked /\ found \subseteq files
    BY DEF TypeOKArchive, KeptRuns
<1>2. /\ Cardinality(kept) <= MaxRuns /\ ~(Cardinality(kept) < MaxRuns)
      /\ \A q \in kept : Time[q] <= Time[r]
    BY DEF KeptRuns, MaxRuns
<1>3. ASSUME NEW q \in kept
      PROVE  q \in files' /\ Group[q] = Group[r] /\ Time[q] < Time[r]
    <2>1. q \in Ranked /\ q # r /\ Group[q] = Group[r] /\ q \in files'
        BY <1>1, <1>3 DEF SameGroup
    <2>2. Time[q] # Time[r]
        BY <2>1 DEF DistinctTimes, Distinct
    <2>3. Time[q] \in Nat /\ Time[r] \in Nat
        BY <2>1
    <2> QED BY <1>2, <1>3, <2>1, <2>2, <2>3
<1>4. kept \subseteq Faster(r)' /\ Faster(r)' \subseteq Replays /\ kept \subseteq Replays
    BY <1>1, <1>3 DEF Faster
<1> HIDE DEF kept
<1> QED BY <1>2, <1>4, SubsetsCount, OptionsAreNumbers

LEMMA KeptNewer ==
    ASSUME TypeOKArchive, DistinctTimes, phase = "scan",
           NEW stay, KeptManual(stay), files' = files \ ((found \cap Manual) \ stay),
           NEW r \in (found \cap Manual) \ stay, NEW s \in Replays,
           Group[s] = Group[r], Time[s] <= Time[r]
    PROVE  Cardinality(Newer(s)') >= MaxManual
<1> DEFINE kept == stay \cap ManualOf(r)
<1> USE KindsApart, ReplayAssumption
<1>1. kept \subseteq found \cap Manual /\ found \subseteq files /\ files \subseteq Replays
    BY DEF TypeOKArchive, KeptManual
<1>2. /\ Cardinality(kept) <= MaxManual /\ ~(Cardinality(kept) < MaxManual)
      /\ \A q \in kept : Time[q] >= Time[r]
    BY DEF KeptManual, MaxManual
<1>3. ASSUME NEW q \in kept
      PROVE  q \in files' /\ Group[q] = Group[s] /\ Time[q] > Time[s]
    <2>1. q \in Manual /\ q # r /\ Group[q] = Group[r] /\ q \in files'
        BY <1>1, <1>3 DEF ManualOf
    <2>2. Time[q] # Time[r]
        BY <2>1 DEF DistinctTimes, Distinct
    <2>3. Time[q] \in Nat /\ Time[r] \in Nat /\ Time[s] \in Nat
        BY <2>1
    <2> QED BY <1>2, <1>3, <2>1, <2>2, <2>3
<1>4. kept \subseteq Newer(s)' /\ Newer(s)' \subseteq Replays /\ kept \subseteq Replays
    BY <1>1, <1>3 DEF Newer
<1> HIDE DEF kept
<1> QED BY <1>2, <1>4, SubsetsCount, OptionsAreNumbers

LEMMA OutdoneByScan ==
    ASSUME TypeOKArchive, TypeOKArchive', DistinctTimes, Outdone, EndScan
    PROVE  Outdone'
<1>1. PICK keep \in SUBSET (found \cap Ranked), stay \in SUBSET (found \cap Manual) :
          EndScan!2!(keep, stay)
    BY DEF EndScan
<1>2. /\ KeptRuns(keep) /\ KeptManual(stay) /\ phase = "scan"
      /\ files' = files \ ((found \cap Manual) \ stay)
      /\ UNCHANGED <<written, savedIndex>>
      /\ \A r \in Replays : HasMark(r)' => HasMark(r) \/ r \in Marked(keep)
    BY <1>1 DEF EndScan, HasMark
<1>3. files' \subseteq Replays /\ files \cap Ranked \subseteq files' /\ Removed' \subseteq Replays
    BY <1>2, KindsApart DEF TypeOKArchive, Removed
<1> USE KindsApart
<1>4. \A r \in Replays : HasMark(r)' => r \notin Manual
    BY <1>2, ReplayAssumption DEF Outdone, Marked, Ranked
<1>5. ASSUME NEW r \in Ranked, HasMark(r)' \/ r \in Removed'
      PROVE  Cardinality(Faster(r)') >= MaxRuns
    <2>1. CASE HasMark(r) \/ r \in Removed
        BY <1>3, <2>1, FasterStay DEF Outdone
    <2>2. CASE r \in Marked(keep)
        <3>1. r \in (found \cap Ranked) \ keep
            BY <2>2, ReplayAssumption DEF Marked, Ranked
        <3> QED BY <1>2, <1>3, <3>1, KeptFaster
    <2>3. r \in Removed' => r \in Removed
        BY <1>2, <1>3 DEF Removed
    <2> QED BY <1>2, <1>5, <2>1, <2>2, <2>3
<1>6. ASSUME NEW r \in Removed' \cap Manual
      PROVE  Cardinality(Newer(r)') >= MaxManual
    <2>1. Time \in [Replays -> Nat]
        BY ReplayAssumption
    <2>2. CASE r \in files
        <3>1. r \in (found \cap Manual) \ stay
            BY <1>2, <1>6, <2>2 DEF Removed
        <3>2. Time[r] <= Time[r]
            BY <2>1, <3>1
        <3> QED BY <1>2, <3>1, <3>2, KeptNewer
    <2>3. CASE r \notin files /\ Newer(r) \subseteq files'
        <3>1. r \in Removed
            BY <1>2, <1>6, <2>3 DEF Removed
        <3>2. Newer(r) \subseteq Newer(r)' /\ Newer(r)' \subseteq Replays
            BY <1>3, <2>3 DEF Newer
        <3>3. Cardinality(Newer(r)) >= MaxManual
            BY <1>6, <3>1 DEF Outdone
        <3> QED BY <3>2, <3>3, SubsetsCount, OptionsAreNumbers
    <2>4. ASSUME NEW q \in Newer(r) \ files'
          PROVE  Cardinality(Newer(r)') >= MaxManual
        <3>1. q \in (found \cap Manual) \ stay /\ Group[r] = Group[q] /\ Time[r] <= Time[q]
            BY <1>2, <1>6, <2>1, <2>4 DEF Newer
        <3> QED BY <1>2, <1>6, <3>1, KeptNewer
    <2> QED BY <2>2, <2>3, <2>4
<1> QED BY <1>4, <1>5, <1>6 DEF Outdone

LEMMA OutdoneStep ==
    ASSUME TypeOKArchive, TypeOKArchive', ScanFits, DistinctTimes, Outdone, NextArchive
    PROVE  Outdone'
<1> USE ReplayAssumption DEF directoryVars, scanVars, indexVars
<1>1. ASSUME NEW r \in Replays, WriteReplay(r)
      PROVE  Outdone'
    <2>1. files \subseteq files' /\ Removed' = Removed /\ \A q \in Replays : HasMark(q)' = HasMark(q)
        BY <1>1 DEF WriteReplay, Removed, HasMark, TypeOKArchive
    <2> QED BY <2>1, OutdoneRests
<1>2. ASSUME NEW r \in Replays, ScanReplay(r)
      PROVE  Outdone'
    <2>1. CASE ~Expired(r)
        <3>1. files \subseteq files' /\ Removed' = Removed /\ \A q \in Replays : HasMark(q)' = HasMark(q)
            BY <1>2, <2>1 DEF ScanReplay, Removed, HasMark
        <3> QED BY <3>1, OutdoneRests
    <2>2. CASE Expired(r)
        <3>1. /\ HasMark(r) /\ files' = files \ {r} /\ written' = written /\ r \in files
              /\ \A q \in Replays : HasMark(q)' => HasMark(q)
            BY <1>2, <2>2 DEF ScanReplay, Expired, Archived, HasMark, TypeOKArchive
        <3>2. files' \subseteq Replays /\ (files \cap Ranked) \ {r} \subseteq files' /\ r \notin Manual
            BY <3>1 DEF Outdone, TypeOKArchive
        <3>3. Removed' = Removed \cup {r}
            BY <3>1 DEF Removed, TypeOKArchive
        <3>4. ASSUME NEW q \in Ranked, HasMark(q)' \/ q \in Removed'
              PROVE  Cardinality(Faster(q)') >= MaxRuns
            <4>1. Cardinality(Faster(q)) >= MaxRuns
                BY <3>1, <3>3, <3>4, KindsApart DEF Outdone
            <4> QED BY <3>1, <3>2, <4>1, StillFaster
        <3>5. ASSUME NEW q \in Removed' \cap Manual
              PROVE  Cardinality(Newer(q)') >= MaxManual
            <4>1. Cardinality(Newer(q)) >= MaxManual /\ files \cap Manual \subseteq files'
                BY <3>1, <3>2, <3>3, <3>5 DEF Outdone
            <4> QED BY <3>2, <3>5, <4>1, NewerStay
        <3> QED BY <3>1, <3>4, <3>5 DEF Outdone
    <2> QED BY <2>1, <2>2
<1>3. CASE Start
    <2>1. UNCHANGED <<files, written>> /\ \A q \in Replays : HasMark(q)' => HasMark(q)
        BY <1>3 DEF Start, BeginScan, HasMark
    <2> QED BY <2>1, OutdoneRests DEF Removed
<1>4. CASE WakeUp \/ Tick \/ SetClockBack
    <2>1. UNCHANGED <<files, written, archivedIndex, savedIndex>>
        BY <1>4 DEF WakeUp, Tick, SetClockBack
    <2> QED BY <2>1, OutdoneRests DEF Removed, HasMark
<1>5. CASE EndScan
    BY <1>5, OutdoneByScan
<1>6. CASE SaveArchiveIndex
    <2>1. UNCHANGED <<files, written>> /\ \A q \in Replays : HasMark(q)' => HasMark(q)
        BY <1>6 DEF SaveArchiveIndex, HasMark
    <2> QED BY <2>1, OutdoneRests DEF Removed
<1>7. CASE Crash
    <2>1. UNCHANGED <<files, written>> /\ \A q \in Replays : HasMark(q)' => HasMark(q)
        BY <1>7 DEF Crash, Forget, NoIndex, HasMark
    <2> QED BY <2>1, OutdoneRests DEF Removed
<1> QED BY <1>1, <1>2, <1>3, <1>4, <1>5, <1>6, <1>7 DEF NextArchive

LEMMA ArchiveInit == InitArchive => ArchiveInv
<1> SUFFICES ASSUME InitArchive PROVE ArchiveInv
    OBVIOUS
<1> USE ReplayAssumption DEF InitArchive
<1>1. NoIndex \in [Replays -> Nat \cup {NotArchived}] /\ \A r \in Replays : NoIndex[r] = NotArchived
    BY DEF NoIndex
<1>2. TypeOKArchive
    BY <1>1 DEF TypeOKArchive
<1>3. ScanFits /\ MarksArePast
    BY <1>1 DEF ScanFits, ListedAreThere, MarksArePast
<1>4. Outdone
    BY <1>1, KindsApart DEF Outdone, HasMark, Removed
<1> QED BY <1>2, <1>3, <1>4 DEF ArchiveInv

LEMMA ArchiveStep == ArchiveInv /\ [NextArchive]_archiveVars => ArchiveInv'
<1>1. ASSUME ArchiveInv, NextArchive
      PROVE  ArchiveInv'
    <2>1. TypeOKArchive' /\ ScanFits' /\ MarksArePast'
        BY <1>1, ArchiveTypedStep, MarksStep DEF ArchiveInv
    <2>2. DistinctTimes' <=> DistinctTimes
        BY DEF DistinctTimes, Distinct, Ranked
    <2>3. DistinctTimes => Outdone'
        BY <1>1, <2>1, OutdoneStep DEF ArchiveInv
    <2> QED BY <2>1, <2>2, <2>3 DEF ArchiveInv
<1>2. ASSUME ArchiveInv, UNCHANGED archiveVars
      PROVE  ArchiveInv'
    BY <1>2 DEF archiveVars, directoryVars, scanVars, indexVars, ArchiveInv, TypeOKArchive, ScanFits,
        ListedAreThere, MarksArePast, Outdone, HasMark, Removed, Faster, Newer, DistinctTimes, Distinct
<1> QED BY <1>1, <1>2

LEMMA ArchiveInvHolds == SpecArchive => []ArchiveInv
BY ArchiveInit, ArchiveStep, PTL DEF SpecArchive

\* Every variable of the watcher has its type.
THEOREM ArchiveTyped == SpecArchive => []TypeOKArchive
<1>1. ArchiveInv => TypeOKArchive
    BY DEF ArchiveInv
<1> QED BY <1>1, ArchiveInvHolds, PTL

\* What the commands list and look up between two scans is on the disk.
THEOREM ListIsTrue == SpecArchive => []ListedAreThere
<1>1. ArchiveInv => ListedAreThere
    BY DEF ArchiveInv, ScanFits
<1> QED BY <1>1, ArchiveInvHolds, PTL

\* A run goes only while as many faster ones stay as the option says, a manual
\* replay while as many newer ones stay, for any replays and options.
THEOREM BestStay == SpecArchive => []BestAreKept
<1>1. ArchiveInv => BestAreKept
    BY DEF ArchiveInv, BestAreKept, Outdone, MaxRuns, MaxManual
<1> QED BY <1>1, ArchiveInvHolds, PTL

\* A mark is as old as the code reckons, if the clock was not set back.
LEMMA AgeOfMark ==
    ASSUME ArchiveInv, ~setBack, NEW r \in Replays, Archived(r)
    PROVE  Age(r) = scanTime - archivedIndex[r]
<1> DEFINE age == scanTime - archivedIndex[r]
<1>1. age \in 0 .. Word - 1 /\ Word \in Nat
    BY ReplayAssumption DEF ArchiveInv, MarksArePast, TypeOKArchive, Archived
<1> HIDE DEF age
<1>2. age % Word = age
    BY <1>1
<1> QED BY <1>2 DEF Age, age

\* What the retention applies to stays for all of it after the scan that first
\* gave it up.
THEOREM RetentionStays == SpecArchive => KeptForRetention
<1>1. ASSUME ArchiveInv, [NextArchive]_archiveVars, NEW r \in (files \ files') \ Manual, ~setBack
      PROVE  firstMarked[r] # NotArchived /\ now - firstMarked[r] >= Retention
    <2>1. r \in Replays
        BY <1>1 DEF ArchiveInv, TypeOKArchive
    <2>2. ~EndScan
        BY <1>1 DEF EndScan
    <2>3. ScanReplay(r) /\ Expired(r)
        BY <1>1, <2>2 DEF NextArchive, WriteReplay, ScanReplay, Start, BeginScan, WakeUp, SaveArchiveIndex,
            Crash, Forget, Tick, SetClockBack, archiveVars, directoryVars
    <2>4. Archived(r) /\ scanTime - archivedIndex[r] >= Retention
        BY <1>1, <2>1, <2>3, AgeOfMark DEF Expired
    <2> QED BY <1>1, <2>1, <2>4, ReplayAssumption DEF Archived, ArchiveInv, MarksArePast, TypeOKArchive
<1>2. ASSUME ArchiveInv, [NextArchive]_archiveVars
      PROVE  [\A r \in (files \ files') \ Manual :
                  setBack \/ (firstMarked[r] # NotArchived /\ now - firstMarked[r] >= Retention)]_archiveVars
    BY <1>1, <1>2
<1> QED BY <1>2, ArchiveInvHolds, PTL DEF SpecArchive, KeptForRetention

(***************************************************************************)
(* ReplayLoad.  The safety properties of the loads follow from one         *)
(* inductive invariant: where the replay of a load is, is told by where    *)
(* its thread is.                                                          *)
(***************************************************************************)
\* Every state but Idle is about the load the callbacks belong to.
CallbackSet == loadState # "Idle" => callback \in Loads

\* The status holds a replay only from StoreReplay until the main thread takes
\* it, and the playback only the replay of a thread that has ended.
ReplayIsPlaced ==
    /\ \A i \in Loads : thread[i] = "publishing" => completedReplay = i
    /\ completedReplay # NoLoad =>
          IF loadState = "Completed"
          THEN thread[completedReplay] = "done"
          ELSE thread[completedReplay] = "publishing"
    /\ currentReplay # NoLoad => thread[currentReplay] = "done"

LoadInv ==
    /\ TypeOKLoads
    /\ CallbackSet
    /\ LoadingHasOneThread
    /\ ReplayIsTheOneAsked
    /\ ReplayIsPlaced
    /\ ReplaysAreOwnedOnce

\* A load is not the number that stands for none.
LEMMA LoadsType == NoLoad \notin Loads
BY DEF Loads, NoLoad

\* The invariant holds before anything is asked for.
LEMMA LoadInit == InitLoads => LoadInv
<1> SUFFICES ASSUME InitLoads PROVE LoadInv
    OBVIOUS
<1>1. TypeOKLoads
    BY DEF InitLoads, TypeOKLoads, LoadingState, Messages
<1>2. CallbackSet /\ LoadingHasOneThread /\ ReplayIsTheOneAsked /\ ReplayIsPlaced
    BY DEF InitLoads, CallbackSet, LoadingHasOneThread, ReplayIsTheOneAsked, ReplayIsPlaced, Before
<1>3. ReplaysAreOwnedOnce
    BY DEF InitLoads, ReplaysAreOwnedOnce, Holders
<1> QED
    BY <1>1, <1>2, <1>3 DEF LoadInv

\* Every step of the commands, the threads and the frames preserves it.
LEMMA LoadStep == LoadInv /\ [NextLoads]_loadVars => LoadInv'
<1> SUFFICES ASSUME LoadInv, [NextLoads]_loadVars PROVE LoadInv'
    OBVIOUS
<1> USE LoadsType
<1> USE DEF LoadInv, TypeOKLoads, CallbackSet, LoadingHasOneThread, ReplayIsTheOneAsked,
            ReplayIsPlaced, ReplaysAreOwnedOnce, Holders, LoadingState, Messages,
            Before, After, statusVars, playbackVars, historyVars
<1>1. ASSUME NEW i \in Loads, LoadReplay(i) PROVE LoadInv'
  <2> USE <1>1 DEF LoadReplay, PrepareAsyncLoad, FreeReplayData
  <2>1. TypeOKLoads' /\ CallbackSet' /\ ReplayIsTheOneAsked'
      OBVIOUS
  <2>2. LoadingHasOneThread'
      OBVIOUS
  <2>3. ReplayIsPlaced'
      OBVIOUS
  <2>4. Holders = {} /\ Holders' = {}
      OBVIOUS
  <2>5. ReplaysAreOwnedOnce'
    <3>1. live = {completedReplay, currentReplay} \ {NoLoad}
        BY <2>4
    <3>2. completedReplay' = NoLoad /\ currentReplay' = currentReplay
        OBVIOUS
    <3>3. live' = {currentReplay} \ {NoLoad}
        BY ONLY <3>1, LoadInv, <1>1 DEF LoadReplay, PrepareAsyncLoad, FreeReplayData,
           LoadInv, ReplaysAreOwnedOnce
    <3> HIDE DEF Holders
    <3> QED
        BY ONLY <2>4, <3>2, <3>3 DEF ReplaysAreOwnedOnce
  <2> QED
      BY <2>1, <2>2, <2>3, <2>5
<1>2. ASSUME NEW i \in Loads, LoadReplayWithProgress(i) PROVE LoadInv'
  <2> USE <1>2 DEF LoadReplayWithProgress, ThreadStep
  <2>1. TypeOKLoads' /\ CallbackSet' /\ ReplayIsTheOneAsked'
      OBVIOUS
  <2>2. LoadingHasOneThread'
      OBVIOUS
  <2>3. ReplayIsPlaced'
      OBVIOUS
  <2>4. i # completedReplay /\ i # currentReplay
      OBVIOUS
  <2>5. /\ thread \in [Loads -> {"none"} \cup Before \cup After] /\ thread[i] = "loading"
        /\ \/ thread' = [thread EXCEPT ![i] = "loaded"] /\ live' = live \cup {i}
           \/ thread' = [thread EXCEPT ![i] = "invalid"] /\ live' = live
      OBVIOUS
  <2>6. UNCHANGED <<completedReplay, currentReplay>>
      OBVIOUS
  <2>7. ReplaysAreOwnedOnce'
    <3>1. CASE thread' = [thread EXCEPT ![i] = "loaded"] /\ live' = live \cup {i}
      <4>1. Holders' = Holders \cup {i}
          BY ONLY <1>2, <2>5, <3>1 DEF Holders
      <4> QED
          BY ONLY LoadInv, <1>2, <2>4, <2>6, <3>1, <4>1 DEF LoadInv, ReplaysAreOwnedOnce
    <3>2. CASE thread' = [thread EXCEPT ![i] = "invalid"] /\ live' = live
      <4>1. Holders' = Holders
          BY ONLY <1>2, <2>5, <3>2 DEF Holders
      <4> QED
          BY ONLY LoadInv, <2>6, <3>2, <4>1 DEF LoadInv, ReplaysAreOwnedOnce
    <3> QED
        BY ONLY <2>5, <3>1, <3>2
  <2> QED
      BY ONLY <2>1, <2>2, <2>3, <2>7 DEF LoadInv
<1>3. ASSUME NEW i \in Loads, CheckCancel(i) PROVE LoadInv'
  <2> USE <1>3 DEF CheckCancel, ThreadStep, FreeReplayData
  <2>1. TypeOKLoads' /\ CallbackSet' /\ ReplayIsTheOneAsked'
      OBVIOUS
  <2>2. LoadingHasOneThread'
      OBVIOUS
  <2>3. ReplayIsPlaced'
      OBVIOUS
  <2>4. i # completedReplay /\ i # currentReplay
      OBVIOUS
  <2>5. /\ thread \in [Loads -> {"none"} \cup Before \cup After]
        /\ \/ thread' = [thread EXCEPT ![i] = "cancelling"] /\ live' = live \ {i}
           \/ /\ live' = live
              /\ \/ thread[i] = "loaded" /\ thread' = [thread EXCEPT ![i] = "storing"]
                 \/ thread[i] = "invalid" /\ thread' = [thread EXCEPT ![i] = "failing"]
      OBVIOUS
  <2>6. UNCHANGED <<completedReplay, currentReplay>>
      OBVIOUS
  <2>7. ReplaysAreOwnedOnce'
    <3>1. CASE thread' = [thread EXCEPT ![i] = "cancelling"] /\ live' = live \ {i}
      <4>1. Holders' = Holders \ {i}
          BY ONLY <1>3, <2>5, <3>1 DEF Holders
      <4> QED
          BY ONLY LoadInv, <1>3, <2>4, <2>6, <3>1, <4>1 DEF LoadInv, ReplaysAreOwnedOnce
    <3>2. CASE /\ live' = live
               /\ \/ thread[i] = "loaded" /\ thread' = [thread EXCEPT ![i] = "storing"]
                  \/ thread[i] = "invalid" /\ thread' = [thread EXCEPT ![i] = "failing"]
      <4>1. Holders' = Holders
          BY ONLY <1>3, <2>5, <3>2 DEF Holders
      <4> QED
          BY ONLY LoadInv, <2>6, <3>2, <4>1 DEF LoadInv, ReplaysAreOwnedOnce
    <3> QED
        BY ONLY <2>5, <3>1, <3>2
  <2> QED
      BY ONLY <2>1, <2>2, <2>3, <2>7 DEF LoadInv
<1>4. ASSUME NEW i \in Loads, StoreFailed(i) PROVE LoadInv'
  <2> USE <1>4 DEF StoreFailed, ThreadStep
  <2>1. TypeOKLoads' /\ CallbackSet' /\ ReplayIsTheOneAsked'
      OBVIOUS
  <2>2. LoadingHasOneThread' /\ ReplayIsPlaced'
      OBVIOUS
  <2>3. Holders' = Holders /\ UNCHANGED <<live, completedReplay, currentReplay>>
      OBVIOUS
  <2> QED
      BY ONLY LoadInv, <2>1, <2>2, <2>3 DEF LoadInv, ReplaysAreOwnedOnce
<1>5. ASSUME NEW i \in Loads, WriteError(i) PROVE LoadInv'
  <2> USE <1>5 DEF WriteError, ThreadStep
  <2>1. TypeOKLoads' /\ CallbackSet' /\ ReplayIsTheOneAsked'
      OBVIOUS
  <2>2. LoadingHasOneThread' /\ ReplayIsPlaced'
      OBVIOUS
  <2>3. Holders' = Holders /\ UNCHANGED <<live, completedReplay, currentReplay>>
      OBVIOUS
  <2> QED
      BY ONLY LoadInv, <2>1, <2>2, <2>3 DEF LoadInv, ReplaysAreOwnedOnce
<1>6. ASSUME NEW i \in Loads, StoreReplay(i) PROVE LoadInv'
  <2> USE <1>6 DEF StoreReplay, ThreadStep
  <2>1. TypeOKLoads' /\ CallbackSet' /\ ReplayIsTheOneAsked'
      OBVIOUS
  <2>2. LoadingHasOneThread'
      OBVIOUS
  <2>3. completedReplay = NoLoad /\ i # currentReplay
      OBVIOUS
  <2>4. ReplayIsPlaced'
      BY <2>3
  <2>5. /\ thread \in [Loads -> {"none"} \cup Before \cup After] /\ thread[i] = "storing"
        /\ thread' = [thread EXCEPT ![i] = "publishing"]
      OBVIOUS
  <2>6. completedReplay' = i /\ UNCHANGED <<live, currentReplay>>
      OBVIOUS
  <2>7. Holders' = Holders \ {i} /\ i \in Holders
      BY ONLY <1>6, <2>5 DEF Holders
  <2>8. ReplaysAreOwnedOnce'
    <3>1. /\ live = Holders \cup ({completedReplay, currentReplay} \ {NoLoad})
          /\ currentReplay \notin Holders
        BY ONLY LoadInv DEF LoadInv, ReplaysAreOwnedOnce
    <3>2. i # NoLoad
        BY ONLY <1>6, LoadsType
    <3>3. live' = Holders' \cup ({i, currentReplay} \ {NoLoad})
        BY ONLY <2>3, <2>6, <2>7, <3>1, <3>2
    <3>4. {i, currentReplay} \cap Holders' = {}
        BY ONLY <2>7, <3>1
    <3> QED
        BY ONLY <2>3, <2>6, <3>3, <3>4 DEF ReplaysAreOwnedOnce
  <2> QED
      BY ONLY <2>1, <2>2, <2>4, <2>8 DEF LoadInv
<1>7. ASSUME NEW i \in Loads, StoreCompleted(i) PROVE LoadInv'
  <2> USE <1>7 DEF StoreCompleted, ThreadStep
  <2>1. TypeOKLoads' /\ CallbackSet' /\ ReplayIsTheOneAsked'
      OBVIOUS
  <2>2. LoadingHasOneThread' /\ ReplayIsPlaced'
      OBVIOUS
  <2>3. Holders' = Holders /\ UNCHANGED <<live, completedReplay, currentReplay>>
      OBVIOUS
  <2> QED
      BY ONLY LoadInv, <2>1, <2>2, <2>3 DEF LoadInv, ReplaysAreOwnedOnce
<1>8. CASE CancelReplayLoad
  <2>1. TypeOKLoads' /\ CallbackSet'
      BY <1>8 DEF CancelReplayLoad
  <2>2. UNCHANGED <<thread, loadState, callback, live, completedReplay, currentReplay>>
      BY <1>8 DEF CancelReplayLoad
  <2> QED
      BY ONLY LoadInv, <2>1, <2>2 DEF LoadInv, LoadingHasOneThread, ReplayIsTheOneAsked,
         ReplayIsPlaced, ReplaysAreOwnedOnce, Holders
<1>9. CASE ProcessAsyncLoadCompletion
  <2>1. ASSUME NEW playerIsHere \in BOOLEAN, ProcessCompleted(playerIsHere) PROVE LoadInv'
    <3> USE <2>1 DEF ProcessCompleted, FreeReplayData, Starts
    <3>1. TypeOKLoads' /\ CallbackSet' /\ ReplayIsTheOneAsked' /\ LoadingHasOneThread' /\ ReplayIsPlaced'
        OBVIOUS
    <3>2. Holders' = Holders
        OBVIOUS
    <3>3. ReplaysAreOwnedOnce'
        BY <3>2
    <3> QED
        BY <3>1, <3>3
  <2>2. CASE ProcessFailed
    <3>1. TypeOKLoads' /\ CallbackSet' /\ LoadingHasOneThread' /\ ReplayIsTheOneAsked' /\ ReplayIsPlaced'
        BY <2>2 DEF ProcessFailed
    <3>2. UNCHANGED <<thread, live, completedReplay, currentReplay>>
        BY <2>2 DEF ProcessFailed
    <3> QED
        BY ONLY LoadInv, <3>1, <3>2 DEF LoadInv, ReplaysAreOwnedOnce, Holders
  <2> QED
      BY <1>9, <2>1, <2>2 DEF ProcessAsyncLoadCompletion
<1>10. CASE EndPlayback
  <2>1. TypeOKLoads' /\ CallbackSet'
      BY <1>10 DEF EndPlayback
  <2>2. UNCHANGED <<thread, loadState, callback, live, completedReplay, currentReplay>>
      BY <1>10 DEF EndPlayback
  <2> QED
      BY ONLY LoadInv, <2>1, <2>2 DEF LoadInv, LoadingHasOneThread, ReplayIsTheOneAsked,
         ReplayIsPlaced, ReplaysAreOwnedOnce, Holders
<1>11. CASE OnRoundStart
  <2>1. TypeOKLoads' /\ CallbackSet'
      BY <1>11 DEF OnRoundStart
  <2>2. UNCHANGED <<thread, loadState, callback, live, completedReplay, currentReplay>>
      BY <1>11 DEF OnRoundStart
  <2> QED
      BY ONLY LoadInv, <2>1, <2>2 DEF LoadInv, LoadingHasOneThread, ReplayIsTheOneAsked,
         ReplayIsPlaced, ReplaysAreOwnedOnce, Holders
<1>12. CASE ChangeMap
  <2>1. TypeOKLoads' /\ CallbackSet'
      BY <1>12 DEF ChangeMap
  <2>2. UNCHANGED <<thread, loadState, callback, live, completedReplay, currentReplay>>
      BY <1>12 DEF ChangeMap
  <2> QED
      BY ONLY LoadInv, <2>1, <2>2 DEF LoadInv, LoadingHasOneThread, ReplayIsTheOneAsked,
         ReplayIsPlaced, ReplaysAreOwnedOnce, Holders
<1>13. CASE UNCHANGED loadVars
  <2>1. TypeOKLoads' /\ CallbackSet'
      BY <1>13 DEF loadVars
  <2>2. UNCHANGED <<thread, loadState, callback, live, completedReplay, currentReplay>>
      BY <1>13 DEF loadVars
  <2> QED
      BY ONLY LoadInv, <2>1, <2>2 DEF LoadInv, LoadingHasOneThread, ReplayIsTheOneAsked,
         ReplayIsPlaced, ReplaysAreOwnedOnce, Holders
<1> QED
    BY <1>1, <1>2, <1>3, <1>4, <1>5, <1>6, <1>7, <1>8, <1>9, <1>10, <1>11, <1>12, <1>13
       DEF NextLoads, Thread

\* The invariant, for any number of loads.
LEMMA LoadInvariant == SpecLoads => []LoadInv
BY LoadInit, LoadStep, PTL DEF SpecLoads

\* Every variable keeps its type, the ghost variables of the loads included.
THEOREM LoadsTyped == SpecLoads => []TypeOKLoads
BY LoadInvariant, PTL DEF LoadInv

\* Loads never overlap: while the state is Loading there is one thread that has
\* yet to leave it, that of the load the callbacks belong to.
THEOREM LoadsDoNotOverlap == SpecLoads => []LoadingHasOneThread
BY LoadInvariant, PTL DEF LoadInv

\* The replay a success callback finds is the one its load asked for.
THEOREM RepliesMatchRequests == SpecLoads => []ReplayIsTheOneAsked
BY LoadInvariant, PTL DEF LoadInv

\* No replay is leaked, freed twice or used after it was freed.
THEOREM MemoryIsOwnedOnce == SpecLoads => []ReplaysAreOwnedOnce
BY LoadInvariant, PTL DEF LoadInv

\* The bot only replays runs of the current map.
THEOREM PlaybackStaysOnMap == SpecLoads => []PlaybackIsOfThisMap
<1>1. InitLoads => PlaybackIsOfThisMap
    BY DEF InitLoads, PlaybackIsOfThisMap
<1>2. LoadInv /\ PlaybackIsOfThisMap /\ [NextLoads]_loadVars => PlaybackIsOfThisMap'
  <2> SUFFICES ASSUME LoadInv, PlaybackIsOfThisMap, [NextLoads]_loadVars PROVE PlaybackIsOfThisMap'
      OBVIOUS
  <2> USE DEF PlaybackIsOfThisMap
  <2>1. ASSUME NEW playerIsHere \in BOOLEAN, ProcessCompleted(playerIsHere)
        PROVE PlaybackIsOfThisMap'
      BY <2>1, LoadsType DEF ProcessCompleted, Starts, LoadInv, CallbackSet, ReplayIsTheOneAsked
  <2>2. ASSUME \/ \E i \in Loads : LoadReplay(i) \/ Thread(i)
               \/ CancelReplayLoad \/ ProcessFailed
        PROVE UNCHANGED <<currentReplay, playingReplay, bot, map, replayMap>>
      BY <2>2 DEF LoadReplay, Thread, LoadReplayWithProgress, CheckCancel, StoreFailed,
                  WriteError, StoreReplay, StoreCompleted, CancelReplayLoad, ProcessFailed,
                  playbackVars, historyVars
  <2>3. ASSUME EndPlayback \/ OnRoundStart \/ ChangeMap PROVE PlaybackIsOfThisMap'
      BY <2>3 DEF EndPlayback, OnRoundStart, ChangeMap
  <2>4. CASE UNCHANGED loadVars
      BY <2>4 DEF loadVars, playbackVars, historyVars
  <2> QED
      BY <2>1, <2>2, <2>3, <2>4 DEF NextLoads, ProcessAsyncLoadCompletion
<1> QED
    BY <1>1, <1>2, LoadInvariant, PTL DEF SpecLoads


(***************************************************************************)
(* ReplayTape: what is recorded.                                           *)
(***************************************************************************)
\* A tick of the player's, or a blank one.
Anywhere == Places \cup {Nowhere}
AnyArms  == Weapons \cup {"no weapon"}
DataSet == [serverTick : Nat, pre : Anywhere, post : Anywhere, weapon : AnyArms]
TickSet == [serverTick : Nat, pre : Places, post : Places, weapon : Weapons, moves : {0, 1}]
EventTypes == {"start", "end", "stop", "pause", "resume", "mode", "teleport"}
AnyMode == Modes \cup {NoMode}
EventSet == [type : EventTypes, serverTick : Nat, time : Nat, mode : AnyMode]
PartSet == [ticks : Seq(DataSet), counts : Seq({0, 1}), moves : Seq(Nat), events : Seq(EventSet)]
RecorderSet == [memory : PartSet, flushed : PartSet, chunks : Nat, whole : BOOLEAN, lost : SUBSET Nat,
                desiredStopTime : Int]
CircularSet == [ticks : Seq(TickSet), events : Seq(EventSet), earliestMode : AnyMode, knownMode : AnyMode]

LEMMA DataIs ==
    ASSUME NEW t \in TickSet
    PROVE  /\ Data(t) \in DataSet
           /\ Data(t).serverTick = t.serverTick /\ Data(t).weapon = t.weapon
<1>1. t.serverTick \in Nat /\ t.pre \in Anywhere /\ t.post \in Anywhere /\ t.weapon \in AnyArms
    BY DEF TickSet, Anywhere, AnyArms
<1>2. Data(t) \in DataSet
    BY <1>1 DEF Data, DataSet
<1> QED BY <1>2 DEF Data

LEMMA BlankIs ==
    Blank \in DataSet /\ Blank.serverTick = 0 /\ Blank.pre = Nowhere
<1>1. Blank = [serverTick |-> 0, pre |-> Nowhere, post |-> Nowhere, weapon |-> "no weapon"]
    <2>1. Zero = [serverTick |-> -1, pre |-> Nowhere, post |-> Nowhere, weapon |-> "no weapon"]
        BY DEF Zero
    <2>2. Blank = [Zero EXCEPT !.serverTick = 0]
        BY DEF Blank
    <2> HIDE DEF Zero, Blank
    <2> QED BY <2>1, <2>2
<1>2. 0 \in Nat /\ Nowhere \in Anywhere /\ "no weapon" \in AnyArms
    BY DEF Anywhere, AnyArms
<1>3. Blank \in DataSet
    BY <1>1, <1>2 DEF DataSet
<1> QED BY <1>1, <1>3

(***************************************************************************)
(* ReplayTape: the file.  A tick is written as what differs from a guess,  *)
(* and read over the same guess.                                           *)
(***************************************************************************)
\* What the reader may have read.
Decoded  == [serverTick : Int, pre : Anywhere, post : Anywhere, weapon : AnyArms]

LEMMA DecodedHas ==
    /\ DataSet \subseteq Decoded
    /\ Zero \in Decoded
    /\ \A d \in Decoded : /\ d.serverTick \in Int /\ d.serverTick + 1 \in Int
                          /\ d.pre \in Anywhere /\ d.post \in Anywhere /\ d.weapon \in AnyArms
<1>1. Places \subseteq Anywhere /\ Weapons \subseteq AnyArms /\ Nowhere \in Anywhere /\ "no weapon" \in AnyArms
    BY DEF Anywhere, AnyArms
<1>2. Zero \in Decoded
    <2>1. -1 \in Int
        OBVIOUS
    <2>2. [serverTick |-> -1, pre |-> Nowhere, post |-> Nowhere, weapon |-> "no weapon"] \in Decoded
        BY <1>1, <2>1 DEF Decoded
    <2> QED BY <2>2 DEF Zero
<1>3. ASSUME NEW d \in DataSet
      PROVE  d \in Decoded
    <2>1. d = [serverTick |-> d.serverTick, pre |-> d.pre, post |-> d.post, weapon |-> d.weapon]
        BY DEF DataSet
    <2>2. d.serverTick \in Nat /\ d.pre \in Anywhere /\ d.post \in Anywhere /\ d.weapon \in AnyArms
        BY DEF DataSet
    <2>3. d.serverTick \in Int /\ d.pre \in Anywhere /\ d.post \in Anywhere /\ d.weapon \in AnyArms
        <3>1. d.serverTick \in Int
            BY <2>2
        <3>2. d.pre \in Anywhere /\ d.post \in Anywhere /\ d.weapon \in AnyArms
            BY <2>2
        <3> QED BY <3>1, <3>2
    <2>4. [serverTick |-> d.serverTick, pre |-> d.pre, post |-> d.post, weapon |-> d.weapon] \in Decoded
        BY <2>3 DEF Decoded
    <2> QED BY <2>1, <2>4
<1>4. ASSUME NEW d \in Decoded
      PROVE  /\ d.serverTick \in Int /\ d.serverTick + 1 \in Int
             /\ d.pre \in Anywhere /\ d.post \in Anywhere /\ d.weapon \in AnyArms
    <2>1. d.serverTick \in Int
        BY DEF Decoded
    <2>2. d.pre \in Anywhere /\ d.post \in Anywhere /\ d.weapon \in AnyArms
        BY DEF Decoded
    <2> QED BY <2>1, <2>2
<1> QED BY <1>2, <1>3, <1>4

Changed(tick, guess, first) == {f \in Fields : (first /\ f = "weapon") \/ tick[f] # guess[f]}
Written(tick, guess, first) == [f \in Changed(tick, guess, first) |-> tick[f]]

LEMMA DecodeOne ==
    ASSUME NEW tick \in DataSet, NEW last \in Decoded, NEW first \in BOOLEAN
    PROVE  DecodeTick(last, Written(tick, Guess(last, tick), first)) = tick
<1> DEFINE guess == Guess(last, tick)
           w == Written(tick, guess, first)
           Field(f, g) == IF f \in DOMAIN w THEN w[f] ELSE g
<1>1. /\ guess.serverTick = last.serverTick + 1 /\ guess.pre = last.post
      /\ guess.post = tick.pre /\ guess.weapon = last.weapon
    BY DEF Guess
<1> HIDE DEF guess
<1>2. \A f \in Fields : /\ f \in DOMAIN w => w[f] = tick[f]
                        /\ f \notin DOMAIN w => tick[f] = guess[f]
    BY DEF Written, Changed
<1> HIDE DEF w
<1>3. \A f \in Fields : Field(f, guess[f]) = tick[f]
    BY <1>2
<1>4. /\ Field("serverTick", last.serverTick + 1) = tick.serverTick
      /\ Field("pre", last.post) = tick.pre
      /\ Field("post", tick.pre) = tick.post
      /\ Field("weapon", last.weapon) = tick.weapon
    <2>1. {"serverTick", "pre", "post", "weapon"} \subseteq Fields
        BY DEF Fields
    <2> HIDE DEF Field
    <2> QED BY <1>1, <1>3, <2>1
<1>5. DecodeTick(last, w) =
          [serverTick |-> Field("serverTick", last.serverTick + 1), pre |-> Field("pre", last.post),
           post |-> Field("post", Field("pre", last.post)), weapon |-> Field("weapon", last.weapon)]
    BY DEF DecodeTick
<1> HIDE DEF Field
<1>6. DecodeTick(last, w) =
          [serverTick |-> tick.serverTick, pre |-> tick.pre, post |-> tick.post, weapon |-> tick.weapon]
    BY <1>4, <1>5
<1>7. tick = [serverTick |-> tick.serverTick, pre |-> tick.pre, post |-> tick.post, weapon |-> tick.weapon]
    BY DEF DataSet
<1> QED BY <1>6, <1>7 DEF w, guess

\* The reader, of anything the writer may have written.
LEMMA DecodeTyped ==
    ASSUME NEW tick \in DataSet, NEW some, NEW first \in BOOLEAN, NEW last \in Decoded
    PROVE  DecodeTick(last, Written(tick, some, first)) \in Decoded
<1> DEFINE w == Written(tick, some, first)
           Field(f, g) == IF f \in DOMAIN w THEN w[f] ELSE g
<1>1. \A f \in DOMAIN w : f \in Fields /\ w[f] = tick[f]
    BY DEF Written, Changed
<1> HIDE DEF w
<1>2. DecodeTick(last, w) =
          [serverTick |-> Field("serverTick", last.serverTick + 1), pre |-> Field("pre", last.post),
           post |-> Field("post", Field("pre", last.post)), weapon |-> Field("weapon", last.weapon)]
    BY DEF DecodeTick
<1>3. \A f, g : Field(f, g) = g \/ Field(f, g) = tick[f]
    BY <1>1
<1> HIDE DEF Field
<1>4. /\ tick.serverTick \in Int /\ tick.pre \in Anywhere /\ tick.post \in Anywhere /\ tick.weapon \in AnyArms
      /\ last.serverTick + 1 \in Int /\ last.post \in Anywhere /\ last.weapon \in AnyArms
    BY DecodedHas
<1> DEFINE number == Field("serverTick", last.serverTick + 1)
           from == Field("pre", last.post)
           to == Field("post", from)
           arms == Field("weapon", last.weapon)
<1>5. number \in Int /\ from \in Anywhere /\ arms \in AnyArms
    BY <1>3, <1>4
<1>6. to \in Anywhere
    <2> HIDE DEF from
    <2> QED BY <1>3, <1>4, <1>5
<1> HIDE DEF number, from, to, arms
<1>7. [serverTick |-> number, pre |-> from, post |-> to, weapon |-> arms] \in Decoded
    BY <1>5, <1>6 DEF Decoded
<1> QED BY <1>2, <1>7 DEF w, number, from, to, arms

\* What is read is what was written.
LEMMA TicksAreReadBack ==
    ASSUME NEW ticks \in Seq(DataSet)
    PROVE  ReadTickData(WriteTickData(ticks)) = ticks
<1> DEFINE n == Len(ticks)
           Past(i) == IF i = 1 THEN Zero ELSE ticks[i - 1]
           flags == WriteTickData(ticks)
           G(f) == [i \in 0 .. n |-> IF i = 0 THEN Zero ELSE DecodeTick(f[i - 1], flags[i])]
           move == [i \in 1 .. n |-> [d \in Decoded |-> DecodeTick(d, flags[i])]]
           decoded == CHOOSE f : f = G(f)
<1>1. n \in Nat /\ DOMAIN ticks = 1 .. n /\ \A i \in 1 .. n : ticks[i] \in DataSet
    BY ElementOfSeq, LenProperties
<1>2. flags = [i \in DOMAIN ticks |-> Written(ticks[i], Guess(Past(i), ticks[i]), i = 1)]
    BY DEF WriteTickData, Written, Changed
<1> HIDE DEF n, flags
<1>3. /\ DOMAIN flags = 1 .. n
      /\ \A i \in 1 .. n : flags[i] = Written(ticks[i], Guess(Past(i), ticks[i]), i = 1)
    <2> HIDE DEF Past
    <2> QED BY <1>1, <1>2
<1>4. ReadTickData(flags) = [i \in 1 .. n |-> decoded[i]]
    <2>1. Len(flags) = n
        <3>1. flags \in [1 .. n -> {flags[i] : i \in 1 .. n}]
            <4>1. flags = [i \in 1 .. n |-> flags[i]]
                BY <1>2, <1>3
            <4> QED BY <4>1
        <3> QED BY <1>1, <3>1
    <2> QED BY <1>3, <2>1 DEF ReadTickData
<1>5. Zero \in Decoded
    BY DecodedHas
<1>6. DataSet \subseteq Decoded
    BY DecodedHas
<1>7. \A i \in 1 .. n : \A d \in Decoded : DecodeTick(d, flags[i]) \in Decoded
    <2> SUFFICES ASSUME NEW i \in 1 .. n, NEW d \in Decoded PROVE DecodeTick(d, flags[i]) \in Decoded
        OBVIOUS
    <2>1. DecodeTick(d, Written(ticks[i], Guess(Past(i), ticks[i]), i = 1)) \in Decoded
        <3> HIDE DEF Past
        <3> QED BY <1>1, DecodeTyped
    <2> QED BY <1>3, <2>1
<1>8. \E f \in Walks(n, Decoded) : f = G(f)
    <2>1. move \in NextSteps(n, Decoded)
        BY <1>7 DEF NextSteps
    <2>2. \A i \in 1 .. n : \A d \in Decoded : move[i][d] = DecodeTick(d, flags[i])
        OBVIOUS
    <2> HIDE DEF move
    <2>3. PICK f \in Walks(n, Decoded) : \A i \in 0 .. n : f[i] = IF i = 0 THEN Zero ELSE move[i][f[i - 1]]
        BY <1>1, <1>5, <2>1, WalkSteps
    <2>4. \A i \in 1 .. n : move[i][f[i - 1]] = DecodeTick(f[i - 1], flags[i])
        BY <1>1, <2>2, <2>3 DEF Walks
    <2>5. \A i \in 0 .. n : f[i] = IF i = 0 THEN Zero ELSE DecodeTick(f[i - 1], flags[i])
        BY <1>1, <2>3, <2>4
    <2>6. f = [i \in 0 .. n |-> f[i]]
        BY <2>3 DEF Walks
    <2> QED BY <2>3, <2>5, <2>6
<1>9. decoded = G(decoded)
    BY <1>8
<1> HIDE DEF decoded
<1>10. decoded[0] = Zero /\ \A i \in 1 .. n : decoded[i] = DecodeTick(decoded[i - 1], flags[i])
    <2>1. \A i \in 0 .. n : decoded[i] = IF i = 0 THEN Zero ELSE DecodeTick(decoded[i - 1], flags[i])
        BY <1>9
    <2> QED BY <1>1, <2>1
<1> DEFINE good == [i \in 0 .. n |-> {Past(i + 1)}]
<1>11. decoded[0] \in good[0]
    BY <1>1, <1>10
<1>12. \A i \in 1 .. n : decoded[i - 1] \in good[i - 1] => decoded[i] \in good[i]
    <2>1. SUFFICES ASSUME NEW i \in 1 .. n, decoded[i - 1] = Past(i)
                   PROVE  decoded[i] = ticks[i]
        BY <1>1
    <2>2. Past(i) \in Decoded /\ (i = 1) \in BOOLEAN /\ ticks[i] \in DataSet
        BY <1>1, <1>5, <1>6
    <2> HIDE DEF Past
    <2>3. DecodeTick(Past(i), Written(ticks[i], Guess(Past(i), ticks[i]), i = 1)) = ticks[i]
        BY <2>2, DecodeOne
    <2> QED BY <1>3, <1>10, <2>1, <2>3
<1>13. \A i \in 0 .. n : decoded[i] \in good[i]
    <2> HIDE DEF good
    <2> QED BY <1>1, <1>11, <1>12, WalkKeeps
<1>14. \A i \in 1 .. n : decoded[i] = ticks[i]
    BY <1>1, <1>13
<1>15. ticks = [i \in 1 .. n |-> ticks[i]]
    BY <1>1 DEF n
<1>16. ReadTickData(flags) = ticks
    BY <1>4, <1>14, <1>15
<1> QED BY <1>16 DEF flags

(***************************************************************************)
(* ReplayTape: a list of ticks, and what a recorder has of it.             *)
(***************************************************************************)
\* The ticks a subtick move was sent in.
Sent(w) == {i \in 1 .. Len(w) : w[i].moves = 1}

TicksFit(ticks, w)   == Len(ticks) = Len(w) /\ \A i \in 1 .. Len(w) : ticks[i] = Data(w[i])

\* What was put aside, and what is in memory: each tick is that of a place in w,
\* these in order, or blank for one that is lost; the other places are lost.
Placed(put, memory, w, lost, g) ==
    /\ g \in [1 .. Len(put) + Len(memory) -> 1 .. Len(w)]
    /\ \A i, j \in 1 .. Len(put) + Len(memory) : i < j => g[i] < g[j]
    /\ \A i \in 1 .. Len(put) : put[i] = Data(w[g[i]]) \/ (put[i] = Blank /\ w[g[i]].serverTick \in lost)
    /\ \A i \in 1 .. Len(memory) : memory[i] = Data(w[g[Len(put) + i]])
    /\ \A k \in 1 .. Len(w) : (\E i \in 1 .. Len(put) + Len(memory) : g[i] = k) \/ w[k].serverTick \in lost

Fit(put, memory, w, lost) == \E g : Placed(put, memory, w, lost, g)
CountsFit(counts, w) == Len(counts) = Len(w) /\ \A i \in 1 .. Len(w) : counts[i] = w[i].moves
MovesFit(moves, w)   ==
    /\ Len(moves) = CountUpto(Sent(w), Len(w))
    /\ \A i \in Sent(w) : /\ CountUpto(Sent(w), i) \in 1 .. Len(moves)
                          /\ moves[CountUpto(Sent(w), i)] = w[i].serverTick

LEMMA TickHas ==
    ASSUME NEW t \in TickSet
    PROVE  /\ t.serverTick \in Nat /\ t.moves \in {0, 1} /\ t.weapon \in Weapons
           /\ t.pre \in Places
BY DEF TickSet

LEMMA MovesAreFit ==
    ASSUME NEW w \in Seq(TickSet)
    PROVE  Moves(w) \in Seq(Nat) /\ MovesFit(Moves(w), w)
<1> DEFINE sent == Chosen(w, Sent(w))
           moves == Moves(w)
<1>1. DOMAIN w = 1 .. Len(w) /\ Len(w) \in Nat
    BY LenProperties
<1>2. Sent(w) = {i \in DOMAIN w : w[i].moves = 1}
    BY <1>1 DEF Sent
<1>3. moves = [i \in DOMAIN sent |-> sent[i].serverTick]
    BY <1>2 DEF Moves
<1>4. sent \in KeptUpto(TickSet, w, Sent(w), Len(w))
    BY ChosenIs
<1> HIDE DEF sent, moves
<1>5. /\ sent \in Seq(TickSet) /\ Len(sent) = CountUpto(Sent(w), Len(w))
      /\ \A j \in 1 .. Len(w) : j \in Sent(w) =>
            CountUpto(Sent(w), j) \in 1 .. Len(sent) /\ sent[CountUpto(Sent(w), j)] = w[j]
    BY <1>4 DEF KeptUpto
<1>6. Len(sent) \in Nat /\ DOMAIN sent = 1 .. Len(sent) /\ \A i \in 1 .. Len(sent) : sent[i].serverTick \in Nat
    <2>1. \A i \in 1 .. Len(sent) : sent[i] \in TickSet
        BY <1>5, ElementOfSeq
    <2>2. Len(sent) \in Nat /\ DOMAIN sent = 1 .. Len(sent)
        BY <1>5, LenProperties
    <2> QED BY <2>1, <2>2, TickHas
<1>7. moves \in [1 .. Len(sent) -> Nat] /\ \A i \in 1 .. Len(sent) : moves[i] = sent[i].serverTick
    BY <1>3, <1>6
<1>8. moves \in Seq(Nat) /\ Len(moves) = Len(sent)
    BY <1>6, <1>7
<1>9. \A i \in Sent(w) : i \in 1 .. Len(w)
    BY DEF Sent
<1>10. MovesFit(moves, w)
    BY <1>5, <1>7, <1>8, <1>9 DEF MovesFit
<1> QED BY <1>8, <1>10 DEF moves

LEMMA MovesAppend ==
    ASSUME NEW w \in Seq(TickSet), NEW t \in TickSet, NEW m \in Seq(Nat), MovesFit(m, w)
    PROVE  m \o Moves(<<t>>) \in Seq(Nat) /\ MovesFit(m \o Moves(<<t>>), Append(w, t))
<1> DEFINE n == Len(w)
           v == Append(w, t)
           alone == <<t>>
           one == Moves(alone)
           all == m \o one
<1>1. /\ n \in Nat /\ Len(v) = n + 1 /\ v[n + 1] = t /\ \A i \in 1 .. n : v[i] = w[i]
    BY AppendProperties, LenProperties
<1>2. alone \in Seq(TickSet) /\ Len(alone) = 1 /\ alone[1] = t
    OBVIOUS
<1> HIDE DEF alone, n, v
<1>3. one \in Seq(Nat) /\ MovesFit(one, alone)
    BY <1>2, MovesAreFit
<1> HIDE DEF one
<1>4. ASSUME t.moves = 1
      PROVE  Len(one) = 1 /\ one[1] = t.serverTick
    <2>1. Sent(alone) = {1}
        BY <1>2, <1>4 DEF Sent
    <2>2. {1} \cap (1 .. 1) = {1}
        OBVIOUS
    <2>3. CountUpto(Sent(alone), 1) = 1
        BY <2>1, <2>2, FS_Singleton DEF CountUpto
    <2> QED BY <1>2, <1>3, <2>1, <2>3 DEF MovesFit
<1>5. ASSUME t.moves # 1
      PROVE  Len(one) = 0
    <2>1. Sent(alone) \cap (1 .. 1) = {}
        BY <1>2, <1>5 DEF Sent
    <2>2. CountUpto(Sent(alone), 1) = 0
        BY <2>1, FS_EmptySet DEF CountUpto
    <2> QED BY <1>2, <1>3, <2>2 DEF MovesFit
<1>6. /\ \A i \in 1 .. n : i \in Sent(v) <=> i \in Sent(w)
      /\ n + 1 \in Sent(v) <=> t.moves = 1
      /\ Sent(v) \subseteq 1 .. n + 1 /\ Sent(w) \subseteq 1 .. n
    BY <1>1 DEF Sent, n
<1>7. \A i \in 0 .. n : CountUpto(Sent(v), i) = CountUpto(Sent(w), i)
    <2> SUFFICES ASSUME NEW i \in 0 .. n PROVE Sent(v) \cap (1 .. i) = Sent(w) \cap (1 .. i)
        BY DEF CountUpto
    <2>1. 1 .. i \subseteq 1 .. n
        BY <1>1
    <2> QED BY <1>6, <2>1
<1>8. /\ CountUpto(Sent(w), n) \in Nat
      /\ CountUpto(Sent(v), n + 1) = CountUpto(Sent(w), n) + (IF t.moves = 1 THEN 1 ELSE 0)
    <2>1. n \in 0 .. n
        BY <1>1
    <2>2. CountUpto(Sent(v), n) = CountUpto(Sent(w), n)
        BY <1>7, <2>1
    <2>3. /\ CountUpto(Sent(v), n) \in Nat
          /\ n + 1 \in Sent(v) => CountUpto(Sent(v), n + 1) = CountUpto(Sent(v), n) + 1
          /\ n + 1 \notin Sent(v) => CountUpto(Sent(v), n + 1) = CountUpto(Sent(v), n)
        <3>1. n + 1 \in Nat
            BY <1>1
        <3> QED BY <1>1, <3>1, CountNext
    <2> QED BY <1>6, <2>2, <2>3
<1>9. /\ Len(m) = CountUpto(Sent(w), n)
      /\ \A i \in Sent(w) : CountUpto(Sent(w), i) \in 1 .. Len(m) /\ m[CountUpto(Sent(w), i)] = w[i].serverTick
    BY DEF MovesFit, n
<1>10. /\ all \in Seq(Nat) /\ Len(all) = Len(m) + Len(one)
       /\ \A i \in 1 .. Len(m) : all[i] = m[i]
       /\ Len(one) = 1 => all[Len(m) + 1] = one[1]
    <2>1. Len(one) \in Nat /\ Len(m) \in Nat
        BY <1>3, LenProperties
    <2>2. /\ all \in Seq(Nat) /\ Len(all) = Len(m) + Len(one)
          /\ \A i \in 1 .. Len(m) + Len(one) : all[i] = IF i <= Len(m) THEN m[i] ELSE one[i - Len(m)]
        BY <1>3, ConcatProperties
    <2> HIDE DEF all
    <2>3. \A i \in 1 .. Len(m) : all[i] = m[i]
        BY <2>1, <2>2
    <2>4. ASSUME Len(one) = 1 PROVE all[Len(m) + 1] = one[1]
        <3>1. Len(m) + 1 \in 1 .. Len(m) + Len(one) /\ ~(Len(m) + 1 <= Len(m)) /\ (Len(m) + 1) - Len(m) = 1
            BY <2>1, <2>4
        <3> QED BY <2>2, <3>1
    <2> QED BY <2>2, <2>3, <2>4
<1> HIDE DEF all
<1>11. Len(all) = CountUpto(Sent(v), Len(v))
    BY <1>1, <1>4, <1>5, <1>8, <1>9, <1>10
<1>12. ASSUME NEW i \in Sent(v)
       PROVE  CountUpto(Sent(v), i) \in 1 .. Len(all) /\ all[CountUpto(Sent(v), i)] = v[i].serverTick
    <2>1. CASE i = n + 1
        <3>1. t.moves = 1 /\ v[i] = t
            BY <1>1, <1>6, <2>1
        <3>2. CountUpto(Sent(v), i) = Len(m) + 1 /\ Len(m) \in Nat /\ Len(all) = Len(m) + 1
            BY <1>4, <1>8, <1>9, <1>10, <2>1, <3>1
        <3> QED BY <1>4, <1>10, <3>1, <3>2
    <2>2. CASE i # n + 1
        <3>1. i \in 1 .. n
            BY <1>1, <1>6, <2>2
        <3>2. i \in Sent(w) /\ CountUpto(Sent(v), i) = CountUpto(Sent(w), i) /\ v[i] = w[i]
            BY <1>1, <1>6, <1>7, <3>1
        <3>3. CountUpto(Sent(w), i) \in 1 .. Len(m) /\ m[CountUpto(Sent(w), i)] = w[i].serverTick
            BY <1>9, <3>2
        <3>4. Len(m) <= Len(all) /\ Len(m) \in Nat /\ Len(all) \in Nat
            BY <1>3, <1>10, LenProperties
        <3> QED BY <1>10, <3>2, <3>3, <3>4
    <2> QED BY <2>1, <2>2
<1>13. MovesFit(all, v)
    BY <1>11, <1>12 DEF MovesFit
<1> QED BY <1>10, <1>13 DEF all, one, alone, v

LEMMA PlaceNumbered ==
    ASSUME NEW m \in Seq(DataSet), NEW w \in Seq(TickSet), NEW i \in 1 .. Len(m), NEW k \in 1 .. Len(w),
           m[i] = Data(w[k])
    PROVE  w[k].serverTick \in Numbers(m)
<1>1. w[k] \in TickSet /\ i \in DOMAIN m
    BY ElementOfSeq, LenProperties
<1>2. m[i].serverTick = w[k].serverTick
    BY <1>1, DataIs
<1> QED BY <1>1, <1>2 DEF Numbers

LEMMA FitExact ==
    ASSUME NEW m \in Seq(DataSet), NEW w \in Seq(TickSet), TicksFit(m, w), NEW lost
    PROVE  Fit(<<>>, m, w, lost)
<1> DEFINE none == <<>>
           g == [i \in 1 .. Len(none) + Len(m) |-> i]
<1>1. Len(none) = 0
    OBVIOUS
<1>2. Len(w) \in Nat /\ Len(m) = Len(w) /\ \A i \in 1 .. Len(w) : m[i] = Data(w[i])
    BY LenProperties DEF TicksFit
<1> HIDE DEF none
<1>3. g \in [1 .. Len(none) + Len(m) -> 1 .. Len(w)] /\ \A i \in 1 .. Len(m) : g[i] = i /\ Len(none) + i = i
    BY <1>1, <1>2
<1>4. Len(none) + Len(m) = Len(m)
    BY <1>1, <1>2
<1> HIDE DEF g
<1>5. Placed(none, m, w, lost, g)
    BY <1>1, <1>2, <1>3, <1>4 DEF Placed
<1> QED BY <1>5 DEF Fit, none

\* One more tick of the player's, in memory.
LEMMA FitMore ==
    ASSUME NEW put \in Seq(DataSet), NEW m \in Seq(DataSet), NEW w \in Seq(TickSet), NEW t \in TickSet, NEW lost,
           Fit(put, m, w, lost)
    PROVE  Fit(put, Append(m, Data(t)), Append(w, t), lost)
<1> DEFINE more == Append(m, Data(t))
           v == Append(w, t)
           n == Len(put) + Len(m)
           last == Len(w) + 1
<1>1. PICK g : Placed(put, m, w, lost, g)
    BY DEF Fit
<1> DEFINE h == [i \in 1 .. n + 1 |-> IF i = n + 1 THEN last ELSE g[i]]
<1>2. /\ Len(put) \in Nat /\ Len(m) \in Nat /\ Len(w) \in Nat
      /\ Len(more) = Len(m) + 1 /\ more[Len(m) + 1] = Data(t) /\ \A i \in 1 .. Len(m) : more[i] = m[i]
      /\ Len(v) = last /\ v[last] = t /\ \A i \in 1 .. Len(w) : v[i] = w[i]
    BY DataIs, AppendProperties, LenProperties
<1> HIDE DEF more, v
<1>3. n \in Nat /\ Len(put) + Len(more) = n + 1
    BY <1>2
<1>4. /\ \A i \in 1 .. n : g[i] \in 1 .. Len(w)
      /\ \A i, j \in 1 .. n : i < j => g[i] < g[j]
    BY <1>1 DEF Placed
<1> HIDE DEF n, last
<1>5. /\ h[n + 1] = last /\ \A i \in 1 .. n : h[i] = g[i]
      /\ \A i \in 1 .. n + 1 : i \in 1 .. n \/ i = n + 1
    <2>1. n + 1 \in 1 .. n + 1 /\ \A i \in 1 .. n : i \in 1 .. n + 1 /\ i # n + 1
        BY <1>3
    <2>2. \A i \in 1 .. n + 1 : h[i] = IF i = n + 1 THEN last ELSE g[i]
        OBVIOUS
    <2> HIDE DEF h
    <2>3. \A i \in 1 .. n + 1 : i \in 1 .. n \/ i = n + 1
        BY <1>3
    <2> QED BY <2>1, <2>2, <2>3
<1>6. h \in [1 .. n + 1 -> 1 .. Len(v)]
    <2>1. last \in 1 .. Len(v) /\ \A i \in 1 .. n : g[i] \in 1 .. Len(v)
        BY <1>2, <1>4 DEF last
    <2>2. \A i \in 1 .. n + 1 : h[i] \in 1 .. Len(v)
        BY <1>5, <2>1
    <2> QED BY <2>2
<1> USE DEF last
<1> HIDE DEF h
<1>7. ASSUME NEW i \in 1 .. n + 1, NEW j \in 1 .. n + 1, i < j PROVE h[i] < h[j]
    <2>1. i \in 1 .. n
        BY <1>3, <1>7
    <2>2. h[i] = g[i] /\ h[i] \in 1 .. Len(w)
        BY <1>4, <1>5, <2>1
    <2>3. CASE j = n + 1
        BY <1>2, <1>5, <2>2, <2>3
    <2>4. CASE j \in 1 .. n
        BY <1>4, <1>5, <1>7, <2>1, <2>4
    <2> QED BY <1>5, <2>3, <2>4
<1>8. ASSUME NEW i \in 1 .. Len(put)
      PROVE  put[i] = Data(v[h[i]]) \/ (put[i] = Blank /\ v[h[i]].serverTick \in lost)
    <2>1. i \in 1 .. n
        BY <1>2 DEF n
    <2>2. v[h[i]] = w[g[i]]
        BY <1>2, <1>4, <1>5, <2>1
    <2> QED BY <1>1, <2>2 DEF Placed
<1>9. ASSUME NEW i \in 1 .. Len(more) PROVE more[i] = Data(v[h[Len(put) + i]])
    <2>1. CASE i = Len(m) + 1
        <3>1. Len(put) + i = n + 1
            BY <1>2, <2>1 DEF n
        <3> QED BY <1>2, <1>5, <2>1, <3>1
    <2>2. CASE i # Len(m) + 1
        <3>1. i \in 1 .. Len(m)
            BY <1>2, <2>2
        <3>2. Len(put) + i \in 1 .. n
            BY <1>2, <3>1 DEF n
        <3>3. v[h[Len(put) + i]] = w[g[Len(put) + i]]
            BY <1>2, <1>4, <1>5, <3>2
        <3>4. m[i] = Data(w[g[Len(put) + i]])
            BY <1>1, <3>1 DEF Placed
        <3> QED BY <1>2, <3>1, <3>3, <3>4
    <2> QED BY <2>1, <2>2
<1>10. ASSUME NEW k \in 1 .. Len(v) PROVE (\E i \in 1 .. n + 1 : h[i] = k) \/ v[k].serverTick \in lost
    <2>1. CASE k = last
        <3>1. n + 1 \in 1 .. n + 1
            BY <1>3
        <3> QED BY <1>5, <2>1, <3>1
    <2>2. CASE k # last
        <3>1. k \in 1 .. Len(w) /\ v[k] = w[k]
            BY <1>2, <2>2
        <3>2. (\E i \in 1 .. n : g[i] = k) \/ w[k].serverTick \in lost
            BY <1>1, <3>1 DEF Placed, n
        <3>3. \A i \in 1 .. n : i \in 1 .. n + 1 /\ h[i] = g[i]
            BY <1>3, <1>5
        <3> QED BY <3>1, <3>2, <3>3
    <2> QED BY <2>1, <2>2
<1>11. Placed(put, more, v, lost, h)
    BY <1>3, <1>6, <1>7, <1>8, <1>9, <1>10 DEF Placed
<1> QED BY <1>11 DEF Fit, more, v

\* A chunk whose ticks are read back.
LEMMA FitPut ==
    ASSUME NEW put \in Seq(DataSet), NEW m \in Seq(DataSet), NEW w \in Seq(TickSet), NEW lost,
           Fit(put, m, w, lost)
    PROVE  Fit(put \o m, <<>>, w, lost)
<1> DEFINE all == put \o m
           none == <<>>
           n == Len(put) + Len(m)
<1>1. PICK g : Placed(put, m, w, lost, g)
    BY DEF Fit
<1>2. /\ Len(put) \in Nat /\ Len(m) \in Nat /\ Len(none) = 0 /\ Len(all) = n
      /\ \A i \in 1 .. n : all[i] = IF i <= Len(put) THEN put[i] ELSE m[i - Len(put)]
    BY ConcatProperties, LenProperties
<1> HIDE DEF all, none
<1>3. n \in Nat /\ Len(all) + Len(none) = n
    BY <1>2
<1>4. ASSUME NEW i \in 1 .. n
      PROVE  all[i] = Data(w[g[i]]) \/ (all[i] = Blank /\ w[g[i]].serverTick \in lost)
    <2>1. CASE i <= Len(put)
        <3>1. i \in 1 .. Len(put) /\ all[i] = put[i]
            BY <1>2, <2>1
        <3> QED BY <1>1, <3>1 DEF Placed
    <2>2. CASE ~(i <= Len(put))
        <3>1. i - Len(put) \in 1 .. Len(m) /\ Len(put) + (i - Len(put)) = i /\ all[i] = m[i - Len(put)]
            BY <1>2, <2>2
        <3>2. m[i - Len(put)] = Data(w[g[Len(put) + (i - Len(put))]])
            BY <1>1, <3>1 DEF Placed
        <3> QED BY <3>1, <3>2
    <2> QED BY <2>1, <2>2
<1>5. /\ g \in [1 .. n -> 1 .. Len(w)] /\ \A i, j \in 1 .. n : i < j => g[i] < g[j]
      /\ \A k \in 1 .. Len(w) : (\E i \in 1 .. n : g[i] = k) \/ w[k].serverTick \in lost
    BY <1>1 DEF Placed
<1>6. \A i \in 1 .. Len(none) : FALSE
    BY <1>2
<1> HIDE DEF n
<1>7. Placed(all, none, w, lost, g)
    BY <1>2, <1>3, <1>4, <1>5, <1>6 DEF Placed
<1> QED BY <1>7 DEF Fit, all, none

\* One whose ticks are blank.
LEMMA FitBlank ==
    ASSUME NEW put \in Seq(DataSet), NEW m \in Seq(DataSet), NEW w \in Seq(TickSet), NEW lost,
           Fit(put, m, w, lost),
           NEW blanks \in Seq(DataSet), Len(blanks) = Len(m), \A i \in 1 .. Len(m) : blanks[i] = Blank
    PROVE  Fit(put \o blanks, <<>>, w, lost \cup Numbers(m))
<1> DEFINE all == put \o blanks
           none == <<>>
           n == Len(put) + Len(m)
           gone == lost \cup Numbers(m)
<1>1. PICK g : Placed(put, m, w, lost, g)
    BY DEF Fit
<1>2. /\ Len(put) \in Nat /\ Len(m) \in Nat /\ Len(none) = 0 /\ Len(all) = n
      /\ \A i \in 1 .. n : all[i] = IF i <= Len(put) THEN put[i] ELSE blanks[i - Len(put)]
    <2>1. /\ Len(all) = Len(put) + Len(blanks)
          /\ \A i \in 1 .. Len(put) + Len(blanks) : all[i] = IF i <= Len(put) THEN put[i] ELSE blanks[i - Len(put)]
        BY ConcatProperties
    <2> HIDE DEF all
    <2> QED BY <2>1, LenProperties
<1> HIDE DEF all, none
<1>3. n \in Nat /\ Len(all) + Len(none) = n
    BY <1>2
<1>4. ASSUME NEW i \in 1 .. n
      PROVE  all[i] = Data(w[g[i]]) \/ (all[i] = Blank /\ w[g[i]].serverTick \in gone)
    <2>1. CASE i <= Len(put)
        <3>1. i \in 1 .. Len(put) /\ all[i] = put[i]
            BY <1>2, <2>1
        <3> QED BY <1>1, <3>1 DEF Placed
    <2>2. CASE ~(i <= Len(put))
        <3> DEFINE k == i - Len(put)
        <3>1. k \in 1 .. Len(m) /\ Len(put) + k = i /\ all[i] = blanks[k]
            BY <1>2, <2>2
        <3> HIDE DEF k
        <3>2. m[k] = Data(w[g[i]]) /\ g[i] \in 1 .. Len(w)
            BY <1>1, <3>1 DEF Placed
        <3>3. w[g[i]].serverTick \in Numbers(m)
            BY <3>1, <3>2, PlaceNumbered
        <3> QED BY <3>1, <3>3
    <2> QED BY <2>1, <2>2
<1>5. /\ g \in [1 .. n -> 1 .. Len(w)] /\ \A i, j \in 1 .. n : i < j => g[i] < g[j]
      /\ \A k \in 1 .. Len(w) : (\E i \in 1 .. n : g[i] = k) \/ w[k].serverTick \in gone
    BY <1>1 DEF Placed
<1>6. \A i \in 1 .. Len(none) : FALSE
    BY <1>2
<1> HIDE DEF n, gone
<1>7. Placed(all, none, w, gone, g)
    BY <1>2, <1>3, <1>4, <1>5, <1>6 DEF Placed
<1> QED BY <1>7 DEF Fit, all, none, gone

\* One that is not there.
LEMMA FitGone ==
    ASSUME NEW put \in Seq(DataSet), NEW m \in Seq(DataSet), NEW w \in Seq(TickSet), NEW lost,
           Fit(put, m, w, lost)
    PROVE  Fit(put, <<>>, w, lost \cup Numbers(m))
<1> DEFINE none == <<>>
           n == Len(put) + Len(m)
           gone == lost \cup Numbers(m)
<1>1. PICK g : Placed(put, m, w, lost, g)
    BY DEF Fit
<1> DEFINE h == [i \in 1 .. Len(put) |-> g[i]]
<1>2. Len(put) \in Nat /\ Len(m) \in Nat /\ Len(none) = 0
    BY LenProperties
<1> HIDE DEF none
<1>3. n \in Nat /\ Len(put) + Len(none) = Len(put) /\ \A i \in 1 .. Len(put) : i \in 1 .. n
    BY <1>2
<1>4. /\ \A i \in 1 .. n : g[i] \in 1 .. Len(w)
      /\ \A i, j \in 1 .. n : i < j => g[i] < g[j]
      /\ \A i \in 1 .. Len(put) : put[i] = Data(w[g[i]]) \/ (put[i] = Blank /\ w[g[i]].serverTick \in lost)
    BY <1>1 DEF Placed
<1>5. h \in [1 .. Len(put) -> 1 .. Len(w)] /\ \A i \in 1 .. Len(put) : h[i] = g[i]
    BY <1>3, <1>4
<1> HIDE DEF h
<1>6. ASSUME NEW k \in 1 .. Len(w) PROVE (\E i \in 1 .. Len(put) : h[i] = k) \/ w[k].serverTick \in gone
    <2>1. CASE w[k].serverTick \in lost
        BY <2>1
    <2>2. CASE w[k].serverTick \notin lost
        <3>1. PICK i \in 1 .. n : g[i] = k
            BY <1>1, <2>2 DEF Placed
        <3>2. CASE i \in 1 .. Len(put)
            BY <1>5, <3>1, <3>2
        <3>3. CASE i \notin 1 .. Len(put)
            <4> DEFINE j == i - Len(put)
            <4>1. j \in 1 .. Len(m) /\ Len(put) + j = i
                BY <1>2, <3>3
            <4> HIDE DEF j
            <4>2. m[j] = Data(w[k])
                BY <1>1, <3>1, <4>1 DEF Placed
            <4>3. w[k].serverTick \in Numbers(m)
                BY <4>1, <4>2, PlaceNumbered
            <4> QED BY <4>3
        <3> QED BY <3>2, <3>3
    <2> QED BY <2>1, <2>2
<1>7. \A i \in 1 .. Len(none) : FALSE
    BY <1>2
<1>8. \A i, j \in 1 .. Len(put) : i < j => h[i] < h[j]
    BY <1>3, <1>4, <1>5
<1>9. \A i \in 1 .. Len(put) : put[i] = Data(w[h[i]]) \/ (put[i] = Blank /\ w[h[i]].serverTick \in gone)
    BY <1>4, <1>5
<1> HIDE DEF n, gone
<1>10. Placed(put, none, w, gone, h)
    BY <1>3, <1>5, <1>6, <1>7, <1>8, <1>9 DEF Placed
<1> QED BY <1>10 DEF Fit, none, gone

LEMMA PartHas ==
    ASSUME NEW p \in PartSet
    PROVE  /\ p = [ticks |-> p.ticks, counts |-> p.counts, moves |-> p.moves, events |-> p.events]
           /\ p.ticks \in Seq(DataSet) /\ p.counts \in Seq({0, 1})
           /\ p.moves \in Seq(Nat) /\ p.events \in Seq(EventSet)
BY DEF PartSet

LEMMA PartMakes ==
    ASSUME NEW ticks \in Seq(DataSet), NEW counts \in Seq({0, 1}), NEW moves \in Seq(Nat), NEW events \in Seq(EventSet)
    PROVE  [ticks |-> ticks, counts |-> counts, moves |-> moves, events |-> events] \in PartSet
BY DEF PartSet

LEMMA NoPart ==
    /\ Part \in PartSet
    /\ Part.ticks = <<>> /\ Part.counts = <<>> /\ Part.moves = <<>> /\ Part.events = <<>>
<1>1. <<>> \in Seq(DataSet) /\ <<>> \in Seq({0, 1}) /\ <<>> \in Seq(Nat) /\ <<>> \in Seq(EventSet)
    BY EmptySeq
<1>2. Part \in PartSet
    BY <1>1, PartMakes DEF Part
<1> QED BY <1>2 DEF Part

LEMMA RecorderHas ==
    ASSUME NEW r \in RecorderSet
    PROVE  /\ r = [memory |-> r.memory, flushed |-> r.flushed, chunks |-> r.chunks, whole |-> r.whole,
                   lost |-> r.lost, desiredStopTime |-> r.desiredStopTime]
           /\ r.memory \in PartSet /\ r.flushed \in PartSet /\ r.chunks \in Nat /\ r.whole \in BOOLEAN
           /\ r.lost \in SUBSET Nat /\ r.desiredStopTime \in Int
BY DEF RecorderSet

LEMMA RecorderMakes ==
    ASSUME NEW memory \in PartSet, NEW flushed \in PartSet, NEW chunks \in Nat, NEW whole \in BOOLEAN,
           NEW lost \in SUBSET Nat, NEW stop \in Int
    PROVE  [memory |-> memory, flushed |-> flushed, chunks |-> chunks, whole |-> whole, lost |-> lost,
            desiredStopTime |-> stop] \in RecorderSet
BY DEF RecorderSet

\* A recorder whose memory is another.
WithMemory(r, p) == [memory |-> p, flushed |-> r.flushed, chunks |-> r.chunks, whole |-> r.whole, lost |-> r.lost,
                     desiredStopTime |-> r.desiredStopTime]

LEMMA WithMemoryIs ==
    ASSUME NEW r \in RecorderSet, NEW p \in PartSet
    PROVE  /\ WithMemory(r, p) \in RecorderSet /\ WithMemory(r, p).memory = p
           /\ WithMemory(r, p).flushed = r.flushed /\ WithMemory(r, p).chunks = r.chunks
           /\ WithMemory(r, p).lost = r.lost
           /\ WithMemory(r, p).desiredStopTime = r.desiredStopTime
<1>1. WithMemory(r, p) \in RecorderSet
    BY RecorderHas, RecorderMakes DEF WithMemory
<1> QED BY <1>1 DEF WithMemory

\* What a recorder holds: the ticks of w but those that are lost, and the moves
\* as long as no chunk was put aside.
Holds(r, w) ==
    /\ Fit(r.flushed.ticks, r.memory.ticks, w, r.lost)
    /\ Len(r.memory.ticks) <= Len(r.memory.counts)
    /\ r.chunks = 0 => /\ r.flushed = Part /\ r.lost = {} /\ TicksFit(r.memory.ticks, w)
                       /\ CountsFit(r.memory.counts, w) /\ MovesFit(r.memory.moves, w)

LEMMA PushEventsKeeps ==
    ASSUME NEW r \in RecorderSet, NEW events \in Seq(EventSet)
    PROVE  /\ PushEvents(r, events) \in RecorderSet
           /\ \A w : Holds(r, w) => Holds(PushEvents(r, events), w)
<1> DEFINE more == r.memory.events \o events
           p == [ticks |-> r.memory.ticks, counts |-> r.memory.counts, moves |-> r.memory.moves, events |-> more]
           after == WithMemory(r, p)
<1>1. r.memory \in PartSet
    BY RecorderHas
<1>2. more \in Seq(EventSet) /\ PushEvents(r, events) = [r EXCEPT !.memory = [r.memory EXCEPT !.events = more]]
    BY <1>1, PartHas, ConcatProperties DEF PushEvents
<1> HIDE DEF more
<1>3. p \in PartSet
    BY <1>1, <1>2, PartHas, PartMakes
<1>4. PushEvents(r, events) = after
    <2>1. r = [memory |-> r.memory, flushed |-> r.flushed, chunks |-> r.chunks, whole |-> r.whole, lost |-> r.lost,
               desiredStopTime |-> r.desiredStopTime]
        BY RecorderHas
    <2>2. r.memory = [ticks |-> r.memory.ticks, counts |-> r.memory.counts, moves |-> r.memory.moves,
                      events |-> r.memory.events]
        BY <1>1, PartHas
    <2>3. [r.memory EXCEPT !.events = more] = p
        BY <2>2
    <2> HIDE DEF p
    <2>4. PushEvents(r, events) = [r EXCEPT !.memory = p]
        BY <1>2, <2>3
    <2> QED BY <2>1, <2>4 DEF WithMemory
<1>5. p.ticks = r.memory.ticks /\ p.counts = r.memory.counts /\ p.moves = r.memory.moves
    OBVIOUS
<1> HIDE DEF p
<1>6. /\ after \in RecorderSet /\ after.memory = p /\ after.flushed = r.flushed /\ after.chunks = r.chunks
      /\ after.lost = r.lost
    BY <1>3, WithMemoryIs
<1> HIDE DEF after
<1>7. ASSUME NEW w, Holds(r, w) PROVE Holds(after, w)
    BY <1>5, <1>6, <1>7 DEF Holds
<1> QED BY <1>4, <1>6, <1>7

LEMMA PushEventKeeps ==
    ASSUME NEW r \in RecorderSet, NEW e \in EventSet
    PROVE  /\ PushEvent(r, e) \in RecorderSet
           /\ \A w : Holds(r, w) => Holds(PushEvent(r, e), w)
<1> DEFINE one == <<e>>
<1>1. one \in Seq(EventSet)
    OBVIOUS
<1>2. PushEvent(r, e) = PushEvents(r, one)
    <2>1. r.memory.events \in Seq(EventSet)
        BY RecorderHas, PartHas
    <2>2. Append(r.memory.events, e) = r.memory.events \o one
        BY <2>1, AppendIsConcat
    <2>3. PushEvent(r, e) = [r EXCEPT !.memory.events = Append(r.memory.events, e)]
        BY DEF PushEvent
    <2>4. PushEvents(r, one) = [r EXCEPT !.memory.events = r.memory.events \o one]
        BY DEF PushEvents
    <2> HIDE DEF one
    <2> QED BY <2>2, <2>3, <2>4
<1> HIDE DEF one
<1> QED BY <1>1, <1>2, PushEventsKeeps

\* The end of a run sets when its replay is complete, and nothing else.
LEMMA StopTimeKeeps ==
    ASSUME NEW r \in RecorderSet, NEW stop \in Int
    PROVE  /\ [r EXCEPT !.desiredStopTime = stop] \in RecorderSet
           /\ \A w : Holds(r, w) => Holds([r EXCEPT !.desiredStopTime = stop], w)
<1> DEFINE after == [memory |-> r.memory, flushed |-> r.flushed, chunks |-> r.chunks, whole |-> r.whole, lost |-> r.lost,
                     desiredStopTime |-> stop]
<1>1. [r EXCEPT !.desiredStopTime = stop] = after
    BY RecorderHas
<1>2. after \in RecorderSet
    BY RecorderHas, RecorderMakes
<1>3. after.memory = r.memory /\ after.flushed = r.flushed /\ after.chunks = r.chunks /\ after.lost = r.lost
    OBVIOUS
<1> HIDE DEF after
<1>4. ASSUME NEW w, Holds(r, w) PROVE Holds(after, w)
    BY <1>3, <1>4 DEF Holds
<1> QED BY <1>1, <1>2, <1>4

(***************************************************************************)
(* ReplayTape: one more tick.                                              *)
(***************************************************************************)
Pushed(r, t) == [r EXCEPT !.memory.ticks = Append(@, Data(t))]
Noted(r, t)  == [r EXCEPT !.memory.counts = Append(@, t.moves), !.memory.moves = @ \o Moves(<<t>>)]

LEMMA PushedIs ==
    ASSUME NEW r \in RecorderSet, NEW t \in TickSet
    PROVE  /\ Pushed(r, t) \in RecorderSet
           /\ Pushed(r, t).flushed = r.flushed /\ Pushed(r, t).chunks = r.chunks /\ Pushed(r, t).lost = r.lost
           /\ Pushed(r, t).memory.ticks = Append(r.memory.ticks, Data(t))
           /\ Pushed(r, t).memory.counts = r.memory.counts /\ Pushed(r, t).memory.moves = r.memory.moves
<1> DEFINE more == Append(r.memory.ticks, Data(t))
           p == [ticks |-> more, counts |-> r.memory.counts, moves |-> r.memory.moves, events |-> r.memory.events]
           after == WithMemory(r, p)
<1>1. r.memory \in PartSet
    BY RecorderHas
<1>2. more \in Seq(DataSet)
    BY <1>1, PartHas, DataIs, AppendProperties
<1>3. Pushed(r, t) = [r EXCEPT !.memory = [r.memory EXCEPT !.ticks = more]]
    BY DEF Pushed
<1> HIDE DEF more
<1>4. p \in PartSet
    BY <1>1, <1>2, PartHas, PartMakes
<1>5. [r.memory EXCEPT !.ticks = more] = p
    BY <1>1, PartHas
<1>6. p.ticks = more /\ p.counts = r.memory.counts /\ p.moves = r.memory.moves
    OBVIOUS
<1> HIDE DEF p
<1>7. Pushed(r, t) = after
    <2>1. r = [memory |-> r.memory, flushed |-> r.flushed, chunks |-> r.chunks, whole |-> r.whole, lost |-> r.lost,
               desiredStopTime |-> r.desiredStopTime]
        BY RecorderHas
    <2>2. Pushed(r, t) = [r EXCEPT !.memory = p]
        BY <1>3, <1>5
    <2> QED BY <2>1, <2>2 DEF WithMemory
<1>8. /\ after \in RecorderSet /\ after.memory = p /\ after.flushed = r.flushed /\ after.chunks = r.chunks
      /\ after.lost = r.lost
    BY <1>4, WithMemoryIs
<1> HIDE DEF after
<1> QED BY <1>6, <1>7, <1>8 DEF more

LEMMA NotedIs ==
    ASSUME NEW r \in RecorderSet, NEW t \in TickSet
    PROVE  /\ Noted(r, t) \in RecorderSet
           /\ Noted(r, t).flushed = r.flushed /\ Noted(r, t).chunks = r.chunks /\ Noted(r, t).lost = r.lost
           /\ Noted(r, t).memory.ticks = r.memory.ticks
           /\ Noted(r, t).memory.counts = Append(r.memory.counts, t.moves)
           /\ Noted(r, t).memory.moves = r.memory.moves \o Moves(<<t>>)
<1> DEFINE counts == Append(r.memory.counts, t.moves)
           alone == <<t>>
           moves == r.memory.moves \o Moves(alone)
           p == [ticks |-> r.memory.ticks, counts |-> counts, moves |-> moves, events |-> r.memory.events]
           after == WithMemory(r, p)
<1>1. r.memory \in PartSet
    BY RecorderHas
<1>2. counts \in Seq({0, 1})
    BY <1>1, PartHas, TickHas, AppendProperties
<1>3. moves \in Seq(Nat)
    <2>1. alone \in Seq(TickSet)
        OBVIOUS
    <2> HIDE DEF alone
    <2> QED BY <1>1, <2>1, PartHas, MovesAreFit, ConcatProperties
<1>4. Noted(r, t) = [r EXCEPT !.memory = [r.memory EXCEPT !.counts = counts, !.moves = moves]]
    BY RecorderHas DEF Noted
<1> HIDE DEF counts, moves
<1>5. p \in PartSet
    BY <1>1, <1>2, <1>3, PartHas, PartMakes
<1>6. [r.memory EXCEPT !.counts = counts, !.moves = moves] = p
    <2>1. r.memory = [ticks |-> r.memory.ticks, counts |-> r.memory.counts, moves |-> r.memory.moves,
                      events |-> r.memory.events]
        BY <1>1, PartHas
    <2> DEFINE q == [r.memory EXCEPT !.counts = counts]
    <2>2. [r.memory EXCEPT !.counts = counts, !.moves = moves] = [q EXCEPT !.moves = moves]
        OBVIOUS
    <2>3. q = [ticks |-> r.memory.ticks, counts |-> counts, moves |-> r.memory.moves, events |-> r.memory.events]
        BY <2>1
    <2> HIDE DEF q
    <2>4. [q EXCEPT !.moves = moves] = p
        BY <2>3
    <2> HIDE DEF p
    <2> QED BY <2>2, <2>4
<1>7. p.ticks = r.memory.ticks /\ p.counts = counts /\ p.moves = moves
    OBVIOUS
<1> HIDE DEF p
<1>8. Noted(r, t) = after
    <2>1. r = [memory |-> r.memory, flushed |-> r.flushed, chunks |-> r.chunks, whole |-> r.whole, lost |-> r.lost,
               desiredStopTime |-> r.desiredStopTime]
        BY RecorderHas
    <2>2. Noted(r, t) = [r EXCEPT !.memory = p]
        BY <1>4, <1>6
    <2> QED BY <2>1, <2>2 DEF WithMemory
<1>9. /\ after \in RecorderSet /\ after.memory = p /\ after.flushed = r.flushed /\ after.chunks = r.chunks
      /\ after.lost = r.lost
    BY <1>5, WithMemoryIs
<1> HIDE DEF after
<1> QED BY <1>7, <1>8, <1>9 DEF counts, moves, alone

LEMMA JoinedIs ==
    ASSUME NEW p \in PartSet, NEW q \in PartSet
    PROVE  /\ Joined(p, q) \in PartSet /\ Joined(p, q).ticks = p.ticks \o q.ticks
           /\ Joined(p, q).counts = p.counts \o q.counts /\ Joined(p, q).moves = p.moves \o q.moves
           /\ Joined(p, q).events = p.events \o q.events
<1>1. p.ticks \o q.ticks \in Seq(DataSet) /\ p.counts \o q.counts \in Seq({0, 1})
    BY PartHas, ConcatProperties
<1>2. p.moves \o q.moves \in Seq(Nat) /\ p.events \o q.events \in Seq(EventSet)
    BY PartHas, ConcatProperties
<1>3. Joined(p, q) \in PartSet
    BY <1>1, <1>2, PartMakes DEF Joined
<1> QED BY <1>3 DEF Joined

\* A chunk as it is read back: its ticks, blank ones, or none.
LEMMA LoadedIs ==
    ASSUME NEW p \in PartSet, NEW read \in -1 .. 4
    PROVE  /\ LoadedChunk(p, read) \in PartSet
           /\ read >= 1 => LoadedChunk(p, read).ticks = p.ticks
           /\ read = 0 => /\ Len(LoadedChunk(p, read).ticks) = Len(p.ticks)
                          /\ \A i \in 1 .. Len(p.ticks) : LoadedChunk(p, read).ticks[i] = Blank
           /\ read = -1 => LoadedChunk(p, read).ticks = <<>>
<1> DEFINE Grown(k, list, zero) == [i \in 1 .. (IF read = k - 1 THEN Len(list) ELSE 0) |-> zero]
           Section(k, list, zero) == IF read >= k THEN list ELSE Grown(k, list, zero)
           e == Event("start", 0, 0, NoMode)
           after == [ticks |-> Section(1, p.ticks, Blank), counts |-> Section(2, p.counts, 0),
                     moves |-> Section(3, p.moves, 0), events |-> Section(4, p.events, e)]
<1>1. LoadedChunk(p, read) = after
    BY DEF LoadedChunk
<1>2. ASSUME NEW X, NEW list \in Seq(X), NEW zero \in X, NEW k \in 1 .. 4
      PROVE  Section(k, list, zero) \in Seq(X)
    <2> DEFINE n == IF read = k - 1 THEN Len(list) ELSE 0
               grown == [i \in 1 .. n |-> zero]
    <2>1. Len(list) \in Nat /\ n \in Nat
        BY LenProperties
    <2>2. grown \in [1 .. n -> X]
        OBVIOUS
    <2>3. Section(k, list, zero) = IF read >= k THEN list ELSE grown
        OBVIOUS
    <2> HIDE DEF grown, Section
    <2>4. grown \in Seq(X)
        BY <2>1, <2>2
    <2> QED BY <2>3, <2>4
<1>3. /\ p.ticks \in Seq(DataSet) /\ p.counts \in Seq({0, 1}) /\ p.moves \in Seq(Nat) /\ p.events \in Seq(EventSet)
      /\ Blank \in DataSet /\ 0 \in {0, 1} /\ 0 \in Nat
    BY PartHas, BlankIs
<1>4. e \in EventSet
    <2>1. "start" \in EventTypes /\ NoMode \in AnyMode
        BY DEF EventTypes, AnyMode
    <2> QED BY <2>1 DEF Event, EventSet
<1> HIDE DEF e
<1>5. /\ read >= 1 => Section(1, p.ticks, Blank) = p.ticks
      /\ read = 0 => Section(1, p.ticks, Blank) = [i \in 1 .. Len(p.ticks) |-> Blank]
      /\ read = -1 => Section(1, p.ticks, Blank) = [i \in 1 .. 0 |-> Blank]
    OBVIOUS
<1> HIDE DEF Section
<1>6. /\ Section(1, p.ticks, Blank) \in Seq(DataSet)
      /\ read = 0 => /\ Len(Section(1, p.ticks, Blank)) = Len(p.ticks)
                     /\ \A i \in 1 .. Len(p.ticks) : Section(1, p.ticks, Blank)[i] = Blank
      /\ read = -1 => Section(1, p.ticks, Blank) = <<>>
    <2> HIDE DEF e, after
    <2>1. 1 \in 1 .. 4 /\ p.ticks \in Seq(DataSet) /\ Blank \in DataSet /\ Len(p.ticks) \in Nat
        BY <1>3, LenProperties
    <2>2. Section(1, p.ticks, Blank) \in Seq(DataSet)
        BY <1>2, <2>1, Zenon
    <2> DEFINE section == Section(1, p.ticks, Blank)
               n == Len(p.ticks)
               zeroes == [i \in 1 .. n |-> Blank]
    <2>3. n \in Nat /\ (read = 0 => section = zeroes)
        BY <1>5, <2>1
    <2>4. DOMAIN zeroes = 1 .. n /\ \A i \in 1 .. n : zeroes[i] = Blank
        OBVIOUS
    <2>5. read = -1 => DOMAIN section = 1 .. 0
        BY <1>5
    <2>6. section \in Seq(DataSet)
        BY <2>2
    <2> HIDE DEF section, n, zeroes
    <2>7. read = 0 => Len(section) = n /\ \A i \in 1 .. n : section[i] = Blank
        BY <2>3, <2>4, <2>6, LenProperties
    <2>8. read = -1 => section = <<>>
        BY <2>5, <2>6, EmptySeq, LenProperties
    <2> QED BY <2>6, <2>7, <2>8 DEF section, n
<1>7. /\ Section(2, p.counts, 0) \in Seq({0, 1}) /\ Section(3, p.moves, 0) \in Seq(Nat)
      /\ Section(4, p.events, e) \in Seq(EventSet)
    <2>1. Section(2, p.counts, 0) \in Seq({0, 1})
        BY <1>2, <1>3
    <2>2. Section(3, p.moves, 0) \in Seq(Nat)
        <3>1. 3 \in 1 .. 4 /\ p.moves \in Seq(Nat) /\ 0 \in Nat
            BY <1>3
        <3> HIDE DEF e, after
        <3> QED BY <1>2, <3>1, Zenon
    <2>3. Section(4, p.events, e) \in Seq(EventSet)
        BY <1>2, <1>3, <1>4
    <2> QED BY <2>1, <2>2, <2>3
<1>8. after \in PartSet
    BY <1>6, <1>7, PartMakes
<1>9. after.ticks = Section(1, p.ticks, Blank)
    OBVIOUS
<1> HIDE DEF after
<1> QED BY <1>1, <1>5, <1>6, <1>8, <1>9

LEMMA PartOfList ==
    ASSUME NEW X, NEW s \in Seq(X), NEW m \in Nat, NEW n \in 0 .. Len(s), 0 < m
    PROVE  SubSeq(s, m, n) \in Seq(X)
<1>1. Len(s) \in Nat
    BY LenProperties
<1>2. \A i \in m .. n : i \in 1 .. Len(s)
    BY <1>1
<1>3. \A i \in m .. n : s[i] \in X
    BY <1>2, ElementOfSeq
<1> QED BY <1>1, <1>3, SubSeqProperties

LEMMA FlushIs ==
    ASSUME NEW r \in RecorderSet, NEW beyond \in {0, 1}, NEW read \in -1 .. 4,
           Len(r.memory.ticks) <= Len(r.memory.counts) + 1
    PROVE  /\ FlushChunk(r, beyond, read) \in RecorderSet /\ FlushChunk(r, beyond, read).memory = Part
           /\ FlushChunk(r, beyond, read).chunks = r.chunks + 1
           /\ \A w \in Seq(TickSet) : Fit(r.flushed.ticks, r.memory.ticks, w, r.lost)
                 => Fit(FlushChunk(r, beyond, read).flushed.ticks, <<>>, w, FlushChunk(r, beyond, read).lost)
<1> DEFINE ticks == r.memory.ticks
           counts == SubSeq(Append(r.memory.counts, beyond), 1, Len(ticks))
           q == [ticks |-> ticks, counts |-> counts, moves |-> r.memory.moves, events |-> r.memory.events]
           loaded == LoadedChunk(q, read)
           flushed == Joined(r.flushed, loaded)
           whole == r.whole /\ loaded = q
           lost == IF read >= 1 THEN r.lost ELSE r.lost \cup Numbers(ticks)
           after == [memory |-> Part, flushed |-> flushed, chunks |-> r.chunks + 1, whole |-> whole, lost |-> lost,
                     desiredStopTime |-> r.desiredStopTime]
<1>1. /\ r.memory \in PartSet /\ r.flushed \in PartSet /\ r.chunks + 1 \in Nat /\ r.desiredStopTime \in Int
      /\ r.lost \in SUBSET Nat
    BY RecorderHas
<1>2. counts \in Seq({0, 1})
    <2> DEFINE more == Append(r.memory.counts, beyond)
    <2>1. more \in Seq({0, 1}) /\ Len(more) = Len(r.memory.counts) + 1
        BY <1>1, PartHas, AppendProperties
    <2>2. Len(ticks) \in Nat /\ Len(r.memory.counts) \in Nat
        BY <1>1, PartHas, LenProperties
    <2>3. Len(ticks) \in 0 .. Len(more) /\ 1 \in Nat /\ 0 < 1
        BY <2>1, <2>2
    <2>4. SubSeq(more, 1, Len(ticks)) \in Seq({0, 1})
        <3> HIDE DEF more
        <3> QED BY <2>1, <2>3, PartOfList
    <2> QED BY <2>4
<1> HIDE DEF counts
<1>3. q \in PartSet
    BY <1>1, <1>2, PartHas, PartMakes
<1>4. [r.memory EXCEPT !.counts = counts] = q
    <2>1. r.memory = [ticks |-> r.memory.ticks, counts |-> r.memory.counts, moves |-> r.memory.moves,
                      events |-> r.memory.events]
        BY <1>1, PartHas
    <2> QED BY <2>1
<1>5. q.ticks = ticks
    OBVIOUS
<1>6. FlushChunk(r, beyond, read) = after
    <2>1. r = [memory |-> r.memory, flushed |-> r.flushed, chunks |-> r.chunks, whole |-> r.whole, lost |-> r.lost,
               desiredStopTime |-> r.desiredStopTime]
        BY RecorderHas
    <2>2. [r.memory EXCEPT !.counts = SubSeq(Append(@, beyond), 1, Len(ticks))] = [r.memory EXCEPT !.counts = counts]
        BY DEF counts
    <2> DEFINE r1 == [r EXCEPT !.flushed = flushed]
               r2 == [r1 EXCEPT !.chunks = r.chunks + 1]
               r3 == [r2 EXCEPT !.whole = whole]
               r4 == [r3 EXCEPT !.lost = lost]
    <2>3. FlushChunk(r, beyond, read) =
              [r EXCEPT !.flushed = flushed, !.chunks = r.chunks + 1, !.whole = whole, !.lost = lost, !.memory = Part]
        BY <1>4, <2>2 DEF FlushChunk
    <2> HIDE DEF flushed, whole, lost
    <2>4. FlushChunk(r, beyond, read) = [r4 EXCEPT !.memory = Part]
        BY <2>3
    <2>5. r1 = [memory |-> r.memory, flushed |-> flushed, chunks |-> r.chunks, whole |-> r.whole, lost |-> r.lost,
                desiredStopTime |-> r.desiredStopTime]
        BY <2>1
    <2> HIDE DEF r1
    <2>6. r2 = [memory |-> r.memory, flushed |-> flushed, chunks |-> r.chunks + 1, whole |-> r.whole, lost |-> r.lost,
                desiredStopTime |-> r.desiredStopTime]
        BY <2>5
    <2> HIDE DEF r2
    <2>7. r3 = [memory |-> r.memory, flushed |-> flushed, chunks |-> r.chunks + 1, whole |-> whole, lost |-> r.lost,
                desiredStopTime |-> r.desiredStopTime]
        BY <2>6
    <2> HIDE DEF r3
    <2>8. r4 = [memory |-> r.memory, flushed |-> flushed, chunks |-> r.chunks + 1, whole |-> whole, lost |-> lost,
                desiredStopTime |-> r.desiredStopTime]
        BY <2>7
    <2> HIDE DEF r4
    <2> QED BY <2>4, <2>8
<1>7. ticks \in Seq(DataSet) /\ r.flushed.ticks \in Seq(DataSet) /\ Numbers(ticks) \in SUBSET Nat
    <2>1. ticks \in Seq(DataSet) /\ r.flushed.ticks \in Seq(DataSet)
        BY <1>1, PartHas
    <2>2. \A i \in DOMAIN ticks : ticks[i] \in DataSet
        BY <2>1, ElementOfSeq, LenProperties
    <2>3. \A i \in DOMAIN ticks : ticks[i].serverTick \in Nat
        BY <2>2 DEF DataSet
    <2> HIDE DEF ticks
    <2> QED BY <2>1, <2>3 DEF Numbers, ticks
<1> HIDE DEF q
<1>8. /\ loaded \in PartSet
      /\ read >= 1 => loaded.ticks = ticks
      /\ read = 0 => /\ Len(loaded.ticks) = Len(ticks)
                     /\ \A i \in 1 .. Len(ticks) : loaded.ticks[i] = Blank
      /\ read = -1 => loaded.ticks = <<>>
    BY <1>3, <1>5, LoadedIs
<1> HIDE DEF loaded
<1>9. flushed \in PartSet /\ flushed.ticks = r.flushed.ticks \o loaded.ticks
    BY <1>1, <1>8, JoinedIs
<1>10. lost \in SUBSET Nat /\ whole \in BOOLEAN
    <2>1. lost \in SUBSET Nat
        BY <1>1, <1>7
    <2>2. whole \in BOOLEAN
        OBVIOUS
    <2> QED BY <2>1, <2>2
<1> HIDE DEF flushed, whole
<1>11. ASSUME NEW w \in Seq(TickSet), Fit(r.flushed.ticks, ticks, w, r.lost)
       PROVE  Fit(flushed.ticks, <<>>, w, lost)
    <2> DEFINE put == r.flushed.ticks
               back == loaded.ticks
    <2>1. put \in Seq(DataSet) /\ back \in Seq(DataSet) /\ flushed.ticks = put \o back
        BY <1>7, <1>8, <1>9, PartHas
    <2>2. Fit(put, ticks, w, r.lost)
        BY <1>11
    <2>3. CASE read >= 1
        <3>1. Fit(put \o ticks, <<>>, w, r.lost)
            <4> HIDE DEF put, ticks
            <4> QED BY <1>7, <2>1, <2>2, FitPut
        <3> QED BY <1>8, <2>1, <2>3, <3>1
    <2>4. CASE read = 0
        <3>1. Fit(put \o back, <<>>, w, r.lost \cup Numbers(ticks))
            <4>1. Len(back) = Len(ticks) /\ \A i \in 1 .. Len(ticks) : back[i] = Blank
                BY <1>8, <2>4
            <4> HIDE DEF put, ticks, back
            <4> QED BY <1>7, <2>1, <2>2, <4>1, FitBlank
        <3> QED BY <2>1, <2>4, <3>1
    <2>5. CASE read = -1
        <3>1. Fit(put, <<>>, w, r.lost \cup Numbers(ticks))
            <4> HIDE DEF put, ticks
            <4> QED BY <1>7, <2>1, <2>2, FitGone
        <3>2. put \o back = put
            <4>1. put \o <<>> = put
                <5> HIDE DEF put
                <5> QED BY <2>1, ConcatEmptySeq
            <4> QED BY <1>8, <2>5, <4>1
        <3> QED BY <2>1, <2>5, <3>1, <3>2
    <2> QED BY <2>3, <2>4, <2>5
<1> HIDE DEF lost
<1>12. after \in RecorderSet
    BY <1>1, <1>9, <1>10, NoPart, RecorderMakes
<1>13. after.memory = Part /\ after.flushed = flushed /\ after.chunks = r.chunks + 1 /\ after.lost = lost
    OBVIOUS
<1> HIDE DEF after
<1> QED BY <1>6, <1>11, <1>12, <1>13

\* The ticks a recorder holds, with one more; a chunk takes the tick with it.
LEMMA PushTickKeeps ==
    ASSUME NEW r \in RecorderSet, NEW t \in TickSet, NEW beyond \in {0, 1}, NEW read \in -1 .. 4,
           NEW w \in Seq(TickSet), Holds(r, w)
    PROVE  PushTick(r, t, beyond, read) \in RecorderSet /\ Holds(PushTick(r, t, beyond, read), Append(w, t))
<1> DEFINE v == Append(w, t)
           pushed == Pushed(r, t)
           full == Len(pushed.memory.ticks) >= FlushTicks
           put == IF full THEN FlushChunk(pushed, beyond, read) ELSE pushed
           after == Noted(put, t)
<1>1. PushTick(r, t, beyond, read) = after
    BY DEF PushTick, Pushed, Noted
<1>2. /\ pushed \in RecorderSet /\ pushed.flushed = r.flushed /\ pushed.chunks = r.chunks /\ pushed.lost = r.lost
      /\ pushed.memory.ticks = Append(r.memory.ticks, Data(t))
      /\ pushed.memory.counts = r.memory.counts /\ pushed.memory.moves = r.memory.moves
    BY PushedIs
<1> HIDE DEF pushed
<1>0. Len(r.memory.ticks) \in Nat /\ Len(r.memory.counts) \in Nat /\ Len(r.memory.ticks) <= Len(r.memory.counts)
      /\ Len(pushed.memory.ticks) = Len(r.memory.ticks) + 1
    <2>1. r.memory.ticks \in Seq(DataSet) /\ r.memory.counts \in Seq({0, 1}) /\ Data(t) \in DataSet
        BY RecorderHas, PartHas, DataIs
    <2> QED BY <1>2, <2>1, AppendProperties, LenProperties DEF Holds
<1>3. /\ FlushChunk(pushed, beyond, read) \in RecorderSet /\ FlushChunk(pushed, beyond, read).memory = Part
      /\ FlushChunk(pushed, beyond, read).chunks = pushed.chunks + 1
      /\ \A u \in Seq(TickSet) : Fit(pushed.flushed.ticks, pushed.memory.ticks, u, pushed.lost)
             => Fit(FlushChunk(pushed, beyond, read).flushed.ticks, <<>>, u, FlushChunk(pushed, beyond, read).lost)
    <2>1. Len(pushed.memory.ticks) <= Len(pushed.memory.counts) + 1
        BY <1>0, <1>2
    <2> QED BY <1>2, <2>1, FlushIs
<1> HIDE DEF full
<1>4. put \in RecorderSet
    BY <1>2, <1>3
<1>5. /\ r.chunks \in Nat /\ r.flushed.ticks \in Seq(DataSet) /\ r.memory.ticks \in Seq(DataSet)
      /\ r.memory.counts \in Seq({0, 1}) /\ r.memory.moves \in Seq(Nat)
    BY RecorderHas, PartHas
<1>6. v \in Seq(TickSet) /\ Fit(put.flushed.ticks, put.memory.ticks, v, put.lost)
    <2>1. v \in Seq(TickSet)
        BY AppendProperties
    <2>2. Fit(pushed.flushed.ticks, pushed.memory.ticks, v, pushed.lost)
        <3> DEFINE s == r.flushed.ticks
                   m == r.memory.ticks
        <3>1. s \in Seq(DataSet) /\ m \in Seq(DataSet) /\ Fit(s, m, w, r.lost)
            BY <1>5 DEF Holds
        <3> HIDE DEF s, m
        <3>2. Fit(s, Append(m, Data(t)), v, r.lost)
            BY <3>1, FitMore
        <3> QED BY <1>2, <3>2 DEF s, m
    <2>3. CASE full
        <3>1. put = FlushChunk(pushed, beyond, read)
            BY <2>3
        <3>2. put.memory.ticks = <<>>
            BY <1>3, <3>1, NoPart
        <3> HIDE DEF put, v
        <3> QED BY <1>3, <2>1, <2>2, <3>1, <3>2
    <2>4. CASE ~full
        <3>1. put = pushed
            BY <2>4
        <3> HIDE DEF put, v
        <3> QED BY <2>1, <2>2, <3>1
    <2> QED BY <2>1, <2>3, <2>4
<1>7. put.chunks = 0 => put = pushed /\ r.chunks = 0
    <2>1. CASE full
        <3>1. put.chunks = r.chunks + 1
            BY <1>2, <1>3, <2>1
        <3> QED BY <1>5, <3>1
    <2>2. CASE ~full
        BY <1>2, <2>2
    <2> QED BY <2>1, <2>2
<1>put. Len(put.memory.ticks) \in Nat /\ Len(put.memory.counts) \in Nat
      /\ Len(put.memory.ticks) <= Len(put.memory.counts) + 1 /\ put.memory.counts \in Seq({0, 1})
    <2>1. CASE full
        <3>1. put.memory.ticks = <<>> /\ put.memory.counts = <<>>
            BY <1>3, <2>1, NoPart
        <3> HIDE DEF put
        <3> QED BY <3>1, EmptySeq
    <2>2. CASE ~full
        <3>1. put = pushed
            BY <2>2
        <3> DEFINE ticks == pushed.memory.ticks
                   counts == pushed.memory.counts
        <3> HIDE DEF put
        <3>2. put.memory.ticks = ticks /\ put.memory.counts = counts
            BY <3>1
        <3>3. counts = r.memory.counts /\ counts \in Seq({0, 1}) /\ Len(ticks) = Len(r.memory.ticks) + 1
            BY <1>0, <1>2, <1>5
        <3> HIDE DEF ticks, counts
        <3>4. Len(ticks) \in Nat /\ Len(counts) \in Nat /\ Len(ticks) <= Len(counts) + 1
            BY <1>0, <3>3
        <3> QED BY <3>2, <3>3, <3>4
    <2> QED BY <2>1, <2>2
<1> HIDE DEF put
<1>8. /\ after \in RecorderSet /\ after.flushed = put.flushed /\ after.chunks = put.chunks /\ after.lost = put.lost
      /\ after.memory.ticks = put.memory.ticks
      /\ after.memory.counts = Append(put.memory.counts, t.moves)
      /\ after.memory.moves = put.memory.moves \o Moves(<<t>>)
    BY <1>4, NotedIs
<1> HIDE DEF after
<1>9. Len(w) \in Nat /\ Len(v) = Len(w) + 1 /\ v[Len(w) + 1] = t /\ \A i \in 1 .. Len(w) : v[i] = w[i]
    BY AppendProperties, LenProperties
<1>10. Fit(after.flushed.ticks, after.memory.ticks, v, after.lost)
    BY <1>6, <1>8
<1>11. ASSUME after.chunks = 0
       PROVE  /\ after.flushed = Part /\ after.lost = {} /\ TicksFit(after.memory.ticks, v)
              /\ CountsFit(after.memory.counts, v) /\ MovesFit(after.memory.moves, v)
    <2>1. put = pushed /\ r.chunks = 0
        BY <1>7, <1>8, <1>11
    <2>2. /\ r.flushed = Part /\ r.lost = {} /\ TicksFit(r.memory.ticks, w)
          /\ CountsFit(r.memory.counts, w) /\ MovesFit(r.memory.moves, w)
        BY <2>1 DEF Holds
    <2>3. after.memory.counts = Append(r.memory.counts, t.moves) /\ after.memory.moves = r.memory.moves \o Moves(<<t>>)
        BY <1>2, <1>8, <2>1
    <2>4. MovesFit(after.memory.moves, v)
        BY <1>5, <2>2, <2>3, MovesAppend
    <2>5. CountsFit(after.memory.counts, v)
        <3> DEFINE old == r.memory.counts
                   new == after.memory.counts
        <3>1. Len(old) = Len(w) /\ \A i \in 1 .. Len(w) : old[i] = w[i].moves
            BY <2>2 DEF CountsFit
        <3>2. Len(new) = Len(old) + 1 /\ new[Len(old) + 1] = t.moves /\ \A i \in 1 .. Len(old) : new[i] = old[i]
            BY <1>5, <2>3, TickHas, AppendProperties
        <3> HIDE DEF old, new, v
        <3>3. \A i \in 1 .. Len(w) : new[i] = v[i].moves
            BY <1>9, <3>1, <3>2
        <3>4. new[Len(w) + 1] = v[Len(w) + 1].moves
            BY <1>9, <3>1, <3>2
        <3>5. Len(new) = Len(v) /\ \A i \in 1 .. Len(v) : new[i] = v[i].moves
            BY <1>9, <3>1, <3>2, <3>3, <3>4
        <3> QED BY <3>5 DEF CountsFit, new
    <2>6. after.flushed = Part /\ after.lost = {}
        BY <1>2, <1>8, <2>1, <2>2
    <2>7. TicksFit(after.memory.ticks, v)
        <3> DEFINE old == r.memory.ticks
                   new == after.memory.ticks
        <3>1. Len(old) = Len(w) /\ \A i \in 1 .. Len(w) : old[i] = Data(w[i])
            BY <2>2 DEF TicksFit
        <3>2. new = Append(old, Data(t)) /\ old \in Seq(DataSet)
            BY <1>2, <1>5, <1>8, <2>1
        <3> HIDE DEF old, new, v
        <3>3. Len(new) = Len(old) + 1 /\ new[Len(old) + 1] = Data(t) /\ \A i \in 1 .. Len(old) : new[i] = old[i]
            BY <3>2, DataIs, AppendProperties
        <3>4. \A i \in 1 .. Len(w) : new[i] = Data(v[i])
            BY <1>9, <3>1, <3>3
        <3>5. new[Len(w) + 1] = Data(v[Len(w) + 1])
            BY <1>9, <3>1, <3>3
        <3>6. Len(new) = Len(v) /\ \A i \in 1 .. Len(v) : new[i] = Data(v[i])
            BY <1>9, <3>1, <3>3, <3>4, <3>5
        <3> QED BY <3>6 DEF TicksFit, new
    <2> QED BY <2>4, <2>5, <2>6, <2>7
<1>12. Len(after.memory.ticks) <= Len(after.memory.counts)
    <2>1. t.moves \in {0, 1}
        BY TickHas
    <2>2. Len(Append(put.memory.counts, t.moves)) = Len(put.memory.counts) + 1
        BY <1>put, <2>1, AppendProperties
    <2> QED BY <1>8, <1>put, <2>2
<1>13. Holds(after, v)
    BY <1>10, <1>11, <1>12 DEF Holds
<1> QED BY <1>1, <1>8, <1>13 DEF v

(***************************************************************************)
(* ReplayTape: what is copied, and what is trimmed.                        *)
(***************************************************************************)
LEMMA DueIs ==
    ASSUME NEW events \in Seq(EventSet), NEW tick
    PROVE  Due(events, tick) \in 0 .. Len(events)
<1> DEFINE later == {i \in DOMAIN events : events[i].serverTick > tick}
<1>1. Len(events) \in Nat /\ DOMAIN events = 1 .. Len(events)
    BY LenProperties
<1>2. Due(events, tick) = IF later = {} THEN Len(events)
                          ELSE (CHOOSE i \in later : \A j \in later : i <= j) - 1
    BY DEF Due
<1>3. later \in SUBSET Nat /\ later \subseteq 1 .. Len(events)
    BY <1>1
<1> HIDE DEF later
<1>4. ASSUME later # {}
      PROVE  (CHOOSE i \in later : \A j \in later : i <= j) \in later
    <2>1. \E i \in later : \A j \in later : i <= j
        BY <1>3, <1>4, LeastOf
    <2> QED BY <2>1
<1>5. CASE later = {}
    BY <1>1, <1>2, <1>5
<1>6. CASE later # {}
    <2> DEFINE k == CHOOSE i \in later : \A j \in later : i <= j
    <2>1. k \in 1 .. Len(events)
        BY <1>3, <1>4, <1>6
    <2>2. Due(events, tick) = k - 1
        BY <1>2, <1>6
    <2> HIDE DEF k
    <2> QED BY <1>1, <2>1, <2>2
<1> QED BY <1>5, <1>6

LEMMA ModesInTyped ==
    ASSUME NEW events \in Seq(EventSet)
    PROVE  /\ ModesIn(events) \in Seq(EventSet)
           /\ ModesIn(events) # <<>> => Last(ModesIn(events)).mode \in AnyMode
<1> DEFINE modes == ModesIn(events)
<1>1. modes \in Seq(EventSet)
    BY ChosenElements DEF ModesIn
<1> HIDE DEF modes
<1>2. ASSUME modes # <<>> PROVE Last(modes).mode \in AnyMode
    <2>1. Len(modes) \in Nat \ {0}
        BY <1>1, <1>2, EmptySeq
    <2>2. Len(modes) \in 1 .. Len(modes)
        BY <2>1
    <2>3. modes[Len(modes)] \in EventSet
        BY <1>1, <2>2, ElementOfSeq
    <2> QED BY <2>3 DEF Last, EventSet
<1> QED BY <1>1, <1>2 DEF modes

LEMMA EventTyped ==
    ASSUME NEW type \in EventTypes, NEW tick \in Nat, NEW time \in Nat, NEW to \in AnyMode
    PROVE  Event(type, tick, time, to) \in EventSet
BY DEF Event, EventSet

LEMMA CircularHas ==
    ASSUME NEW c \in CircularSet
    PROVE  /\ c.ticks \in Seq(TickSet) /\ c.events \in Seq(EventSet)
           /\ c.earliestMode \in AnyMode /\ c.knownMode \in AnyMode
           /\ c = [ticks |-> c.ticks, events |-> c.events, earliestMode |-> c.earliestMode, knownMode |-> c.knownMode]
BY DEF CircularSet

LEMMA CircularMakes ==
    ASSUME NEW ticks \in Seq(TickSet), NEW events \in Seq(EventSet), NEW earliest \in AnyMode, NEW known \in AnyMode
    PROVE  [ticks |-> ticks, events |-> events, earliestMode |-> earliest, knownMode |-> known] \in CircularSet
BY DEF CircularSet

LEMMA LastOfIs ==
    ASSUME NEW X, NEW s \in Seq(X), NEW n \in Nat
    PROVE  /\ LastOf(s, n) \in Seq(X)
           /\ \E k \in 0 .. Len(s) : /\ Len(LastOf(s, n)) = Len(s) - k
                                     /\ \A i \in 1 .. Len(LastOf(s, n)) : LastOf(s, n)[i] = s[k + i]
<1> DEFINE m == IF Len(s) > n THEN Len(s) - n + 1 ELSE 1
           last == SubSeq(s, m, Len(s))
<1>1. Len(s) \in Nat
    BY LenProperties
<1>2. m \in 1 .. Len(s) + 1
    BY <1>1
<1>3. LastOf(s, n) = last
    BY DEF LastOf
<1> HIDE DEF m
<1>4. \A i \in m .. Len(s) : s[i] \in X
    <2>1. \A i \in m .. Len(s) : i \in 1 .. Len(s)
        BY <1>1, <1>2
    <2> QED BY <2>1, ElementOfSeq
<1>5. /\ last \in Seq(X)
      /\ Len(last) = IF m <= Len(s) THEN Len(s) - m + 1 ELSE 0
      /\ \A i \in 1 .. Len(s) - m + 1 : last[i] = s[m + i - 1]
    BY <1>1, <1>2, <1>4, SubSeqProperties
<1> HIDE DEF last
<1>6. Len(last) = Len(s) - (m - 1) /\ m - 1 \in 0 .. Len(s)
    BY <1>1, <1>2, <1>5
<1>7. \A i \in 1 .. Len(last) : last[i] = s[(m - 1) + i]
    <2> SUFFICES ASSUME NEW i \in 1 .. Len(last) PROVE last[i] = s[(m - 1) + i]
        OBVIOUS
    <2>1. i \in 1 .. Len(s) - m + 1 /\ m + i - 1 = (m - 1) + i
        BY <1>1, <1>2, <1>6
    <2> QED BY <1>5, <2>1
<1> QED BY <1>3, <1>5, <1>6, <1>7

\* A new recorder holds the last ticks of the circular buffer.
LEMMA RecorderHolds ==
    ASSUME circular \in CircularSet, NEW n \in Nat
    PROVE  Recorder(n) \in RecorderSet /\ Holds(Recorder(n), LastOf(circular.ticks, n))
<1> DEFINE last == LastOf(circular.ticks, n)
           c == Copied(n)
           r == Recorder(n)
<1>1. last \in Seq(TickSet)
    BY CircularHas, LastOfIs
<1>2. Len(last) \in Nat /\ DOMAIN last = 1 .. Len(last) /\ \A i \in 1 .. Len(last) : last[i] \in TickSet
    BY <1>1, LenProperties, ElementOfSeq
<1>3. c \in PartSet /\ TicksFit(c.ticks, last) /\ CountsFit(c.counts, last) /\ MovesFit(c.moves, last)
    <2>1. CASE last = <<>>
        <3>1. c = Part
            BY <2>1 DEF Copied
        <3>2. Len(last) = 0
            BY <2>1
        <3>3. TicksFit(<<>>, last) /\ CountsFit(<<>>, last)
            BY <3>2 DEF TicksFit, CountsFit
        <3>4. MovesFit(<<>>, last)
            <4>1. Sent(last) = {}
                BY <3>2 DEF Sent
            <4>2. {} \cap (1 .. Len(last)) = {}
                OBVIOUS
            <4>3. CountUpto(Sent(last), Len(last)) = 0
                BY <4>1, <4>2, FS_EmptySet DEF CountUpto
            <4> QED BY <4>1, <4>3 DEF MovesFit
        <3> HIDE DEF last, c
        <3> QED BY <3>1, <3>3, <3>4, NoPart
    <2>2. CASE last # <<>>
        <3> DEFINE earliest == last[1].serverTick
                   due == Due(circular.events, earliest - 1)
                   base == BaseMode(circular.events, earliest)
                   since == SubSeq(circular.events, due + 1, Len(circular.events))
                   ticks == [i \in DOMAIN last |-> Data(last[i])]
                   events == base \o since
        <3>1. c = [ticks |-> ticks, counts |-> Counts(last), moves |-> Moves(last), events |-> events]
            BY <2>2 DEF Copied
        <3>2. events \in Seq(EventSet)
            <4>1. circular.events \in Seq(EventSet) /\ circular.earliestMode \in AnyMode
                BY CircularHas
            <4>2. Len(circular.events) \in Nat /\ due \in 0 .. Len(circular.events)
                BY <4>1, DueIs, LenProperties
            <4> DEFINE before == SubSeq(circular.events, 1, due)
                       modes == ModesIn(before)
                       to == IF modes = <<>> THEN circular.earliestMode ELSE Last(modes).mode
            <4>3. base = <<Event("mode", 0, 0, to)>>
                BY DEF BaseMode
            <4> HIDE DEF earliest, due
            <4>4. before \in Seq(EventSet)
                BY <4>1, <4>2, PartOfList
            <4> HIDE DEF before
            <4>5. to \in AnyMode
                BY <4>1, <4>4, ModesInTyped
            <4> HIDE DEF to
            <4>6. Event("mode", 0, 0, to) \in EventSet
                <5>1. "mode" \in EventTypes /\ 0 \in Nat
                    BY DEF EventTypes
                <5> QED BY <4>5, <5>1, EventTyped
            <4>7. base \in Seq(EventSet)
                <5> HIDE DEF base
                <5> QED BY <4>3, <4>6
            <4>8. since \in Seq(EventSet)
                <5>1. due + 1 \in Nat /\ 0 < due + 1 /\ Len(circular.events) \in 0 .. Len(circular.events)
                    BY <4>2
                <5> QED BY <4>1, <5>1, PartOfList
            <4> HIDE DEF base, since
            <4> QED BY <4>7, <4>8, ConcatProperties
        <3>3. ticks \in Seq(DataSet) /\ Len(ticks) = Len(last) /\ \A i \in 1 .. Len(last) : ticks[i] = Data(last[i])
            <4>1. \A i \in 1 .. Len(last) : Data(last[i]) \in DataSet
                BY <1>2, DataIs
            <4>2. ticks \in [1 .. Len(last) -> DataSet] /\ \A i \in 1 .. Len(last) : ticks[i] = Data(last[i])
                BY <1>2, <4>1
            <4> HIDE DEF ticks, last
            <4> QED BY <1>2, <4>2
        <3>4. /\ Counts(last) \in Seq({0, 1}) /\ Len(Counts(last)) = Len(last)
              /\ \A i \in 1 .. Len(last) : Counts(last)[i] = last[i].moves
            <4>1. \A i \in 1 .. Len(last) : last[i].moves \in {0, 1}
                BY <1>2, TickHas
            <4> DEFINE counts == Counts(last)
            <4> HIDE DEF last
            <4>2. counts \in [1 .. Len(last) -> {0, 1}] /\ \A i \in 1 .. Len(last) : counts[i] = last[i].moves
                BY <1>2, <4>1 DEF Counts
            <4> HIDE DEF counts
            <4>3. counts \in Seq({0, 1}) /\ Len(counts) = Len(last)
                BY <1>2, <4>2
            <4> QED BY <4>2, <4>3 DEF counts
        <3> HIDE DEF c, ticks, events, last
        <3>5. Moves(last) \in Seq(Nat) /\ MovesFit(Moves(last), last)
            BY <1>1, MovesAreFit
        <3>6. c \in PartSet
            BY <3>1, <3>2, <3>3, <3>4, <3>5, PartMakes
        <3>7. c.ticks = ticks /\ c.counts = Counts(last) /\ c.moves = Moves(last)
            BY <3>1
        <3> QED BY <3>3, <3>4, <3>5, <3>6, <3>7 DEF TicksFit, CountsFit
    <2> QED BY <2>1, <2>2
<1>4. r = [memory |-> c, flushed |-> Part, chunks |-> 0, whole |-> TRUE, lost |-> {}, desiredStopTime |-> NotEnded]
    BY DEF Recorder
<1> HIDE DEF c, last, r
<1>5. r \in RecorderSet
    <2>1. NotEnded \in Int /\ 0 \in Nat /\ {} \in SUBSET Nat /\ TRUE \in BOOLEAN
        BY DEF NotEnded
    <2> QED BY <1>3, <1>4, <2>1, NoPart, RecorderMakes
<1>6. r.memory = c /\ r.flushed = Part /\ r.chunks = 0 /\ r.lost = {}
    BY <1>4
<1>7. Fit(Part.ticks, c.ticks, last, {})
    <2>1. c.ticks \in Seq(DataSet)
        BY <1>3, PartHas
    <2>2. Fit(<<>>, c.ticks, last, {})
        BY <1>1, <1>3, <2>1, FitExact DEF last
    <2> QED BY <2>2, NoPart
<1>8. Len(c.ticks) <= Len(c.counts)
    <2>1. c.counts \in Seq({0, 1})
        BY <1>3, PartHas
    <2> QED BY <1>2, <1>3, <2>1, LenProperties DEF TicksFit, CountsFit, last
<1>9. Holds(r, last)
    BY <1>3, <1>6, <1>7, <1>8 DEF Holds
<1> QED BY <1>5, <1>9 DEF r, last

\* Old events go; the ticks stay.
LEMMA TrimmedIs ==
    ASSUME NEW c \in CircularSet, NEW tick
    PROVE  Trimmed(c, tick) \in CircularSet /\ Trimmed(c, tick).ticks = c.ticks
<1> DEFINE old == Chosen(c.events, {i \in DOMAIN c.events : c.events[i].serverTick + CircularTicks < tick})
           modes == ModesIn(old)
           events == SubSeq(c.events, Len(old) + 1, Len(c.events))
           earliest == IF modes = <<>> THEN c.earliestMode ELSE Last(modes).mode
           after == [ticks |-> c.ticks, events |-> events, earliestMode |-> earliest, knownMode |-> c.knownMode]
<1>1. c.events \in Seq(EventSet) /\ c.earliestMode \in AnyMode /\ c.knownMode \in AnyMode /\ c.ticks \in Seq(TickSet)
    BY CircularHas
<1>2. Trimmed(c, tick) = [c EXCEPT !.events = events, !.earliestMode = earliest]
    BY DEF Trimmed
<1>3. old \in Seq(EventSet)
    BY <1>1, ChosenElements
<1> HIDE DEF old
<1>4. earliest \in AnyMode
    BY <1>1, <1>3, ModesInTyped
<1>5. events \in Seq(EventSet)
    <2>1. Len(old) + 1 \in Nat /\ 0 < Len(old) + 1 /\ Len(c.events) \in 0 .. Len(c.events)
        BY <1>1, <1>3, LenProperties
    <2> QED BY <1>1, <2>1, PartOfList
<1> HIDE DEF events, earliest
<1>6. Trimmed(c, tick) = after
    <2>1. c = [ticks |-> c.ticks, events |-> c.events, earliestMode |-> c.earliestMode, knownMode |-> c.knownMode]
        BY CircularHas
    <2> QED BY <1>2, <2>1
<1>7. after \in CircularSet
    BY <1>1, <1>4, <1>5, CircularMakes
<1>8. after.ticks = c.ticks
    OBVIOUS
<1> HIDE DEF after
<1> QED BY <1>6, <1>7, <1>8

(***************************************************************************)
(* ReplayTape: what is saved is what the recorder held.                    *)
(***************************************************************************)
TapeHolds(film, w) ==
    /\ film.ticks \in Seq(DataSet)
    /\ Fit(film.ticks, <<>>, w, film.lost)
    /\ film.chunks = 0 =>
          /\ film.lost = {} /\ TicksFit(film.ticks, w)
          /\ \A i \in 1 .. Len(w) : /\ w[i].weapon \in film.weapons
                                    /\ film.subticks[i] = IF w[i].moves = 1 THEN w[i].serverTick ELSE 0

LEMMA SavedIsHeld ==
    ASSUME NEW r \in RecorderSet, NEW w \in Seq(TickSet), Holds(r, w)
    PROVE  TapeHolds(LoadReplayFromMemory(WriteToMemory(r)), w)
<1> DEFINE all == Joined(r.flushed, r.memory)
           file == WriteToMemory(r)
           film == LoadReplayFromMemory(file)
<1>1. r.memory \in PartSet /\ r.flushed \in PartSet
    BY RecorderHas
<1>2. /\ all \in PartSet /\ all.ticks = r.flushed.ticks \o r.memory.ticks
      /\ all.counts = r.flushed.counts \o r.memory.counts /\ all.moves = r.flushed.moves \o r.memory.moves
    BY <1>1, JoinedIs
<1>3. file = [ticks |-> WriteTickData(all.ticks), subticks |-> UnpackSubtickData(all.counts, all.moves),
              events |-> all.events, weapons |-> WeaponsOf(r), chunks |-> r.chunks, whole |-> r.whole,
              lost |-> r.lost]
    BY DEF WriteToMemory
<1> HIDE DEF all
<1>4. film = [file EXCEPT !.ticks = ReadTickData(file.ticks)]
    BY DEF LoadReplayFromMemory
<1> HIDE DEF file, film
<1>5. /\ film.ticks = ReadTickData(WriteTickData(all.ticks)) /\ film.chunks = r.chunks /\ film.lost = r.lost
      /\ film.subticks = UnpackSubtickData(all.counts, all.moves) /\ film.weapons = WeaponsOf(r)
    BY <1>3, <1>4
<1>6. film.ticks = all.ticks /\ film.ticks \in Seq(DataSet)
    <2>1. all.ticks \in Seq(DataSet)
        BY <1>2, PartHas
    <2>2. film.ticks = all.ticks
        BY <1>5, <2>1, TicksAreReadBack
    <2> QED BY <2>1, <2>2
<1>7. Fit(film.ticks, <<>>, w, film.lost)
    <2> DEFINE put == r.flushed.ticks
               m == r.memory.ticks
    <2>1. put \in Seq(DataSet) /\ m \in Seq(DataSet) /\ Fit(put, m, w, r.lost)
        BY <1>1, PartHas DEF Holds
    <2>2. film.ticks = put \o m
        BY <1>2, <1>6
    <2> HIDE DEF put, m
    <2>3. Fit(put \o m, <<>>, w, r.lost)
        BY <2>1, FitPut
    <2> QED BY <1>5, <2>2, <2>3
<1>8. ASSUME film.chunks = 0
      PROVE  /\ film.lost = {} /\ TicksFit(film.ticks, w)
             /\ r.flushed = Part /\ CountsFit(r.memory.counts, w) /\ MovesFit(r.memory.moves, w)
             /\ all.ticks = r.memory.ticks /\ all.counts = r.memory.counts /\ all.moves = r.memory.moves
    <2>1. /\ r.flushed = Part /\ r.lost = {} /\ TicksFit(r.memory.ticks, w)
          /\ CountsFit(r.memory.counts, w) /\ MovesFit(r.memory.moves, w)
        BY <1>5, <1>8 DEF Holds
    <2>2. all.ticks = r.memory.ticks /\ all.counts = r.memory.counts /\ all.moves = r.memory.moves
        <3>1. r.memory.ticks \in Seq(DataSet) /\ r.memory.counts \in Seq({0, 1}) /\ r.memory.moves \in Seq(Nat)
            BY <1>1, PartHas
        <3>2. /\ <<>> \o r.memory.ticks = r.memory.ticks /\ <<>> \o r.memory.counts = r.memory.counts
              /\ <<>> \o r.memory.moves = r.memory.moves
            BY <3>1, ConcatEmptySeq
        <3> QED BY <1>2, <2>1, <3>2, NoPart
    <2> QED BY <1>5, <1>6, <2>1, <2>2
<1>9. ASSUME film.chunks = 0, NEW i \in 1 .. Len(w)
      PROVE  /\ w[i].weapon \in film.weapons
             /\ film.subticks[i] = IF w[i].moves = 1 THEN w[i].serverTick ELSE 0
    <2>1. r.flushed = Part /\ CountsFit(r.memory.counts, w) /\ MovesFit(r.memory.moves, w)
        BY <1>8, <1>9
    <2>2. all.ticks = r.memory.ticks /\ all.counts = r.memory.counts /\ all.moves = r.memory.moves
        BY <1>8, <1>9
    <2> DEFINE counts == r.memory.counts
               moves == r.memory.moves
    <2>3. counts \in Seq({0, 1}) /\ DOMAIN counts = 1 .. Len(w) /\ \A j \in 1 .. Len(w) : counts[j] = w[j].moves
        <3>1. r.memory.counts \in Seq({0, 1})
            BY <1>1, PartHas
        <3>2. DOMAIN r.memory.counts = 1 .. Len(r.memory.counts)
            BY <3>1, LenProperties
        <3> QED BY <2>1, <3>1, <3>2 DEF CountsFit
    <2>4. w[i].weapon \in film.weapons
        <3>1. film.ticks[i] = Data(w[i]) /\ Len(film.ticks) = Len(w)
            BY <1>8, <1>9 DEF TicksFit
        <3>2. w[i] \in TickSet
            BY ElementOfSeq
        <3>3. r.memory.ticks[i].weapon = w[i].weapon
            BY <1>6, <2>2, <3>1, <3>2, DataIs
        <3>4. i \in DOMAIN r.memory.ticks
            <4>1. r.memory.ticks \in Seq(DataSet)
                BY <1>1, PartHas
            <4>2. DOMAIN r.memory.ticks = 1 .. Len(r.memory.ticks)
                BY <4>1, LenProperties
            <4> QED BY <1>6, <2>2, <3>1, <4>2
        <3> QED BY <1>5, <3>3, <3>4 DEF WeaponsOf
    <2>5. film.subticks[i] = IF w[i].moves = 1 THEN w[i].serverTick ELSE 0
        <3> DEFINE offset == Cardinality({j \in 1 .. i : counts[j] = 1})
        <3> HIDE DEF counts, moves
        <3>1. Len(w) \in Nat /\ i \in DOMAIN counts
            BY <2>3, LenProperties
        <3>2. UnpackSubtickData(counts, moves)[i] = IF counts[i] = 1 /\ offset <= Len(moves) THEN moves[offset] ELSE 0
            BY <3>1 DEF UnpackSubtickData
        <3>3. {j \in 1 .. i : counts[j] = 1} = Sent(w) \cap (1 .. i)
            BY <2>3, <3>1 DEF Sent
        <3>4. offset = CountUpto(Sent(w), i)
            BY <3>3 DEF CountUpto
        <3> HIDE DEF offset
        <3>5. counts[i] = w[i].moves
            BY <2>3
        <3>6. film.subticks[i] = IF w[i].moves = 1 /\ offset <= Len(moves) THEN moves[offset] ELSE 0
            BY <1>5, <2>2, <3>2, <3>5 DEF counts, moves
        <3>7. ASSUME w[i].moves = 1 PROVE offset <= Len(moves) /\ moves[offset] = w[i].serverTick
            <4>1. i \in Sent(w)
                BY <3>7 DEF Sent
            <4>2. CountUpto(Sent(w), i) \in 1 .. Len(moves) /\ moves[CountUpto(Sent(w), i)] = w[i].serverTick
                BY <2>1, <4>1 DEF MovesFit, moves
            <4> QED BY <3>4, <4>2
        <3> QED BY <3>6, <3>7
    <2> QED BY <2>4, <2>5
<1>10. TapeHolds(film, w)
    BY <1>6, <1>7, <1>8, <1>9 DEF TapeHolds
<1> QED BY <1>10 DEF film, file

(***************************************************************************)
(* ReplayTape: the invariant.  The circular buffer and every recorder hold *)
(* the last ticks the player was alive in, however many; the replay that   *)
(* was saved holds ticks that followed each other.                         *)
(***************************************************************************)
TimerSet == [running : BOOLEAN, paused : BOOLEAN, time : Nat]
SeenSet  == [tick : TickSet, timer : TimerSet, mode : Modes]

TicksOf(w, s, k) == \A i \in 1 .. Len(w) : w[i] = s[k + i].tick
LastTicks(w, s) == \E k \in 0 .. Len(s) : Len(w) = Len(s) - k /\ TicksOf(w, s, k)
SomeTicks(w, s) == \E k \in 0 .. Len(s) : k + Len(w) <= Len(s) /\ TicksOf(w, s, k)

HoldsLast(r, s) == \E w \in Seq(TickSet) : LastTicks(w, s) /\ Holds(r, w)
KeptBy(s) == {r \in RecorderSet : HoldsLast(r, s)}

Increasing(s, n) ==
    /\ \A i \in 1 .. Len(s) : s[i].tick.serverTick <= n
    /\ \A i, j \in 1 .. Len(s) : i < j => s[i].tick.serverTick < s[j].tick.serverTick

TapeTypes ==
    /\ tickcount \in Nat /\ currentTick \in Nat
    /\ timer \in TimerSet /\ mode \in Modes /\ weapon \in Weapons /\ place \in Places
    /\ circular \in CircularSet /\ seen \in Seq(SeenSet)

TapeInv ==
    /\ TapeTypes
    /\ Increasing(seen, tickcount)
    /\ LastTicks(circular.ticks, seen)
    /\ runRecorders \in Seq(KeptBy(seen))
    /\ \E w \in Seq(TickSet) : SomeTicks(w, seen) /\ TapeHolds(tape, w)

LEMMA LastIsSome ==
    ASSUME NEW w \in Seq(TickSet), NEW s \in Seq(SeenSet), LastTicks(w, s)
    PROVE  SomeTicks(w, s)
<1>1. PICK k \in 0 .. Len(s) : Len(w) = Len(s) - k /\ TicksOf(w, s, k)
    BY DEF LastTicks
<1>2. Len(s) \in Nat
    BY LenProperties
<1>3. k + Len(w) <= Len(s)
    BY <1>1, <1>2
<1> QED BY <1>1, <1>3 DEF SomeTicks

\* Nothing is the last of any ticks.
LEMMA NoTicks ==
    ASSUME NEW s \in Seq(SeenSet)
    PROVE  LastTicks(<<>>, s) /\ SomeTicks(<<>>, s)
<1> DEFINE none == <<>>
<1>1. Len(none) = 0 /\ none \in Seq(TickSet)
    BY EmptySeq
<1>2. Len(s) \in 0 .. Len(s) /\ Len(s) \in Nat
    BY LenProperties
<1> HIDE DEF none
<1>3. TicksOf(none, s, Len(s)) /\ Len(none) = Len(s) - Len(s)
    BY <1>1, <1>2 DEF TicksOf
<1>4. LastTicks(none, s)
    BY <1>2, <1>3 DEF LastTicks
<1>5. SomeTicks(none, s)
    BY <1>1, <1>4, LastIsSome
<1> QED BY <1>4, <1>5 DEF none

LEMMA SeenNext ==
    ASSUME NEW s \in Seq(SeenSet), NEW x \in SeenSet
    PROVE  /\ Len(s) \in Nat /\ Append(s, x) \in Seq(SeenSet) /\ Len(Append(s, x)) = Len(s) + 1
           /\ \A i \in 1 .. Len(s) : Append(s, x)[i] = s[i]
           /\ Append(s, x)[Len(s) + 1] = x
BY AppendProperties, LenProperties

LEMMA SomeStays ==
    ASSUME NEW w \in Seq(TickSet), NEW s \in Seq(SeenSet), NEW x \in SeenSet, SomeTicks(w, s)
    PROVE  SomeTicks(w, Append(s, x))
<1> DEFINE new == Append(s, x)
<1>1. /\ Len(s) \in Nat /\ Len(new) = Len(s) + 1 /\ \A i \in 1 .. Len(s) : new[i] = s[i]
    BY SeenNext
<1>2. PICK k \in 0 .. Len(s) : k + Len(w) <= Len(s) /\ TicksOf(w, s, k)
    BY DEF SomeTicks
<1>3. Len(w) \in Nat
    BY LenProperties
<1> HIDE DEF new
<1>4. k \in 0 .. Len(new) /\ k + Len(w) <= Len(new)
    BY <1>1, <1>2, <1>3
<1>5. ASSUME NEW i \in 1 .. Len(w) PROVE w[i] = new[k + i].tick
    <2>1. k + i \in 1 .. Len(s)
        BY <1>1, <1>2, <1>3
    <2> QED BY <1>1, <1>2, <2>1 DEF TicksOf
<1> QED BY <1>4, <1>5 DEF SomeTicks, TicksOf, new

LEMMA LastNext ==
    ASSUME NEW w \in Seq(TickSet), NEW s \in Seq(SeenSet), NEW x \in SeenSet, LastTicks(w, s),
           NEW t \in TickSet, x.tick = t
    PROVE  LastTicks(Append(w, t), Append(s, x))
<1> DEFINE new == Append(s, x)
           v == Append(w, t)
<1>1. /\ Len(s) \in Nat /\ Len(new) = Len(s) + 1 /\ new[Len(s) + 1] = x /\ \A i \in 1 .. Len(s) : new[i] = s[i]
    BY SeenNext
<1>2. PICK k \in 0 .. Len(s) : Len(w) = Len(s) - k /\ TicksOf(w, s, k)
    BY DEF LastTicks
<1>3. Len(w) \in Nat /\ Len(v) = Len(w) + 1 /\ v[Len(w) + 1] = t /\ \A i \in 1 .. Len(w) : v[i] = w[i]
    BY AppendProperties, LenProperties
<1> HIDE DEF new, v
<1>4. k \in 0 .. Len(new) /\ Len(v) = Len(new) - k
    BY <1>1, <1>2, <1>3
<1>5. ASSUME NEW i \in 1 .. Len(v) PROVE v[i] = new[k + i].tick
    <2>1. CASE i = Len(w) + 1
        <3>1. k + i = Len(s) + 1
            BY <1>1, <1>2, <1>3, <2>1
        <3> QED BY <1>1, <1>3, <2>1, <3>1
    <2>2. CASE i # Len(w) + 1
        <3>1. i \in 1 .. Len(w)
            BY <1>3, <2>2
        <3>2. k + i \in 1 .. Len(s)
            BY <1>1, <1>2, <1>3, <3>1
        <3> QED BY <1>1, <1>2, <1>3, <3>1, <3>2 DEF TicksOf
    <2> QED BY <2>1, <2>2
<1> QED BY <1>4, <1>5 DEF LastTicks, TicksOf, new, v

\* The last of the last ticks.
LEMMA LastOfLast ==
    ASSUME NEW w \in Seq(TickSet), NEW s \in Seq(SeenSet), LastTicks(w, s), NEW n \in Nat
    PROVE  LastOf(w, n) \in Seq(TickSet) /\ LastTicks(LastOf(w, n), s)
<1> DEFINE v == LastOf(w, n)
<1>1. PICK k \in 0 .. Len(s) : Len(w) = Len(s) - k /\ TicksOf(w, s, k)
    BY DEF LastTicks
<1>2. v \in Seq(TickSet)
    BY LastOfIs
<1>3. PICK m \in 0 .. Len(w) : Len(v) = Len(w) - m /\ \A i \in 1 .. Len(v) : v[i] = w[m + i]
    BY LastOfIs
<1> HIDE DEF v
<1>4. Len(s) \in Nat /\ Len(w) \in Nat /\ Len(v) \in Nat
    BY <1>2, LenProperties
<1>5. k + m \in 0 .. Len(s) /\ Len(v) = Len(s) - (k + m)
    BY <1>1, <1>3, <1>4
<1>6. ASSUME NEW i \in 1 .. Len(v) PROVE v[i] = s[(k + m) + i].tick
    <2>1. m + i \in 1 .. Len(w) /\ k + (m + i) = (k + m) + i
        BY <1>1, <1>3, <1>4
    <2> QED BY <1>1, <1>3, <2>1 DEF TicksOf
<1>7. LastTicks(v, s)
    BY <1>5, <1>6 DEF LastTicks, TicksOf
<1> QED BY <1>2, <1>7 DEF v

\* What the invariant is for.
LEMMA TapeIsKept ==
    ASSUME TapeInv
    PROVE  TicksAreKept
<1> DEFINE Number(i) == tape.ticks[i].serverTick
           kept == {i \in 1 .. TickCount : tape.ticks[i] # Blank}
           number(j) == seen[j].tick.serverTick
<1>1. PICK w \in Seq(TickSet) : SomeTicks(w, seen) /\ TapeHolds(tape, w)
    BY DEF TapeInv
<1>2. PICK k \in 0 .. Len(seen) : k + Len(w) <= Len(seen) /\ TicksOf(w, seen, k)
    BY <1>1 DEF SomeTicks
<1>3. PICK g : Placed(tape.ticks, <<>>, w, tape.lost, g)
    BY <1>1 DEF TapeHolds, Fit
<1>4. /\ Len(w) \in Nat /\ \A i \in 1 .. Len(w) : w[i] \in TickSet
      /\ Len(seen) \in Nat /\ DOMAIN seen = 1 .. Len(seen) /\ \A i \in 1 .. Len(seen) : seen[i] \in SeenSet
    <2>1. seen \in Seq(SeenSet)
        BY DEF TapeInv, TapeTypes
    <2> QED BY <2>1, LenProperties, ElementOfSeq
<1>5. \A j \in 1 .. Len(seen) : number(j) \in Nat
    <2>1. \A i \in 1 .. Len(seen) : seen[i].tick \in TickSet
        BY <1>4 DEF SeenSet
    <2> QED BY <2>1, TickHas
<1>6. \A m, j \in 1 .. Len(seen) : m < j => number(m) < number(j)
    BY DEF TapeInv, Increasing
<1>7. TickCount \in Nat /\ DOMAIN tape.ticks = 1 .. TickCount /\ Len(tape.ticks) = TickCount
    <2>1. tape.ticks \in Seq(DataSet)
        BY <1>1 DEF TapeHolds
    <2> QED BY <2>1, LenProperties DEF TickCount
<1>8. /\ \A i \in 1 .. TickCount : g[i] \in 1 .. Len(w)
      /\ \A i, j \in 1 .. TickCount : i < j => g[i] < g[j]
      /\ \A i \in 1 .. TickCount : tape.ticks[i] = Data(w[g[i]])
                                  \/ (tape.ticks[i] = Blank /\ w[g[i]].serverTick \in tape.lost)
      /\ \A m \in 1 .. Len(w) : (\E i \in 1 .. TickCount : g[i] = m) \/ w[m].serverTick \in tape.lost
    <2> DEFINE none == <<>>
    <2>1. Len(none) = 0
        OBVIOUS
    <2> HIDE DEF none
    <2>2. Placed(tape.ticks, none, w, tape.lost, g)
        BY <1>3 DEF none
    <2>3. Len(tape.ticks) + Len(none) = TickCount
        BY <1>7, <2>1
    <2> QED BY <1>7, <2>2, <2>3 DEF Placed
\* The place of a tick in what was seen.
<1> DEFINE at(i) == k + g[i]
<1>9. \A m \in 1 .. Len(w) : k + m \in 1 .. Len(seen) /\ w[m] = seen[k + m].tick /\ w[m].serverTick = number(k + m)
    <2> SUFFICES ASSUME NEW m \in 1 .. Len(w)
                 PROVE  k + m \in 1 .. Len(seen) /\ w[m] = seen[k + m].tick
        OBVIOUS
    <2>1. k + m \in 1 .. Len(seen)
        BY <1>2, <1>4
    <2> QED BY <1>2, <2>1 DEF TicksOf
<1>10. \A i \in kept : /\ i \in 1 .. TickCount /\ g[i] \in 1 .. Len(w) /\ tape.ticks[i] = Data(w[g[i]])
                        /\ at(i) \in 1 .. Len(seen) /\ w[g[i]] = seen[at(i)].tick /\ Number(i) = number(at(i))
    <2> SUFFICES ASSUME NEW i \in 1 .. TickCount, tape.ticks[i] # Blank
                 PROVE  /\ g[i] \in 1 .. Len(w) /\ tape.ticks[i] = Data(w[g[i]])
                        /\ at(i) \in 1 .. Len(seen) /\ w[g[i]] = seen[at(i)].tick /\ Number(i) = number(at(i))
        OBVIOUS
    <2>1. g[i] \in 1 .. Len(w) /\ tape.ticks[i] = Data(w[g[i]])
        BY <1>8
    <2>2. at(i) \in 1 .. Len(seen) /\ w[g[i]] = seen[at(i)].tick /\ w[g[i]].serverTick = number(at(i))
        BY <1>9, <2>1
    <2>3. Number(i) = w[g[i]].serverTick
        BY <1>4, <2>1, DataIs
    <2> QED BY <2>1, <2>2, <2>3
<1>11. kept # 1 .. TickCount => tape.lost # {}
    <2> SUFFICES ASSUME NEW i \in 1 .. TickCount, tape.ticks[i] = Blank
                 PROVE  tape.lost # {}
        OBVIOUS
    <2>1. g[i] \in 1 .. Len(w)
        BY <1>8
    <2>2. CASE tape.ticks[i] = Data(w[g[i]])
        <3>1. w[g[i]].pre \in Places /\ Data(w[g[i]]).pre = w[g[i]].pre
            BY <1>4, <2>1, TickHas DEF Data
        <3>2. Nowhere \notin Places
            BY TapeAssumption DEF TapeAssumption
        <3> QED BY <2>2, <3>1, <3>2, BlankIs
    <2>3. CASE w[g[i]].serverTick \in tape.lost
        BY <2>3
    <2> QED BY <1>8, <2>2, <2>3
<1> HIDE DEF number
<1>12. ASSUME NEW i \in kept, NEW j \in kept, i < j
       PROVE  Number(i) < Number(j)
    <2>1. g[i] < g[j] /\ g[i] \in Nat /\ g[j] \in Nat
        BY <1>8, <1>10, <1>12
    <2>2. at(i) < at(j)
        BY <2>1
    <2> HIDE DEF kept, at, Number
    <2> QED BY <1>6, <1>10, <2>2
<1>13. ASSUME NEW i \in kept, NEW j \in kept, NEW m \in DOMAIN seen, number(m) \in Number(i) .. Number(j)
       PROVE  number(m) \in Numbers(tape.ticks) \cup tape.lost
    <2>1. m \in 1 .. Len(seen)
        BY <1>4
    <2>2. at(i) <= m /\ m <= at(j)
        <3>1. at(i) \in 1 .. Len(seen) /\ at(j) \in 1 .. Len(seen) /\ Number(i) = number(at(i)) /\ Number(j) = number(at(j))
            BY <1>10
        <3> HIDE DEF kept, at, Number
        <3>2. number(at(i)) <= number(m) /\ number(m) <= number(at(j))
            BY <1>5, <1>13, <2>1, <3>1
        <3>3. ~(m < at(i))
            BY <1>5, <1>6, <2>1, <3>1, <3>2
        <3>4. ~(at(j) < m)
            BY <1>5, <1>6, <2>1, <3>1, <3>2
        <3> QED BY <2>1, <3>1, <3>3, <3>4
    <2> DEFINE p == m - k
    <2>3. p \in 1 .. Len(w) /\ k + p = m
        <3>1. g[i] \in 1 .. Len(w) /\ g[j] \in 1 .. Len(w)
            BY <1>10
        <3> QED BY <1>4, <2>1, <2>2, <3>1
    <2> HIDE DEF p
    <2>4. w[p].serverTick = number(m)
        BY <1>9, <2>3
    <2>5. CASE w[p].serverTick \in tape.lost
        BY <2>4, <2>5
    <2>6. CASE w[p].serverTick \notin tape.lost
        <3>1. PICK q \in 1 .. TickCount : g[q] = p
            BY <1>8, <2>3, <2>6
        <3>2. tape.ticks[q] = Data(w[p])
            BY <1>8, <2>6, <3>1
        <3>3. tape.ticks[q].serverTick = number(m)
            BY <1>4, <2>3, <2>4, <3>2, DataIs
        <3> QED BY <1>7, <3>3 DEF Numbers
    <2> QED BY <2>5, <2>6
<1>14. ASSUME NEW i \in kept
       PROVE  \E j \in DOMAIN seen : LET t == seen[j].tick IN
                 /\ Data(t) = tape.ticks[i]
                 /\ tape.chunks = 0 => /\ t.weapon \in tape.weapons
                                       /\ tape.subticks[i] = IF t.moves = 1 THEN t.serverTick ELSE 0
    <2>1. i \in 1 .. TickCount /\ at(i) \in DOMAIN seen /\ w[g[i]] = seen[at(i)].tick /\ Data(w[g[i]]) = tape.ticks[i]
        BY <1>4, <1>10
    <2>2. CASE tape.chunks # 0
        BY <2>1, <2>2
    <2>3. CASE tape.chunks = 0
        <3>1. /\ TickCount = Len(w) /\ \A j \in 1 .. Len(w) : tape.ticks[j] = Data(w[j])
              /\ \A j \in 1 .. Len(w) : /\ w[j].weapon \in tape.weapons
                                         /\ tape.subticks[j] = IF w[j].moves = 1 THEN w[j].serverTick ELSE 0
            BY <1>1, <1>7, <2>3 DEF TapeHolds, TicksFit
        <3>2. i \in 1 .. Len(w)
            BY <2>1, <3>1
        <3>3. k + i \in DOMAIN seen /\ w[i] = seen[k + i].tick
            BY <1>4, <1>9, <3>2
        <3> QED BY <3>1, <3>2, <3>3
    <2> QED BY <2>2, <2>3
<1> QED BY <1>11, <1>12, <1>13, <1>14 DEF TicksAreKept, number

(***************************************************************************)
(* ReplayTape: every step keeps the invariant.                             *)
(***************************************************************************)
LEMMA KeptIs ==
    ASSUME NEW s, NEW r \in KeptBy(s)
    PROVE  r \in RecorderSet /\ \E w \in Seq(TickSet) : LastTicks(w, s) /\ Holds(r, w)
BY DEF KeptBy, HoldsLast

LEMMA KeptMakes ==
    ASSUME NEW s, NEW r \in RecorderSet, NEW w \in Seq(TickSet), LastTicks(w, s), Holds(r, w)
    PROVE  r \in KeptBy(s)
BY DEF KeptBy, HoldsLast

LEMMA KeptChanges ==
    ASSUME NEW s, NEW r \in KeptBy(s)
    PROVE  /\ \A e \in EventSet : PushEvent(r, e) \in KeptBy(s)
           /\ \A events \in Seq(EventSet) : PushEvents(r, events) \in KeptBy(s)
           /\ \A stop \in Int : [r EXCEPT !.desiredStopTime = stop] \in KeptBy(s)
<1>1. PICK w \in Seq(TickSet) : r \in RecorderSet /\ LastTicks(w, s) /\ Holds(r, w)
    BY KeptIs
<1>2. ASSUME NEW e \in EventSet PROVE PushEvent(r, e) \in KeptBy(s)
    BY <1>1, PushEventKeeps, KeptMakes
<1>3. ASSUME NEW events \in Seq(EventSet) PROVE PushEvents(r, events) \in KeptBy(s)
    BY <1>1, PushEventsKeeps, KeptMakes
<1>4. ASSUME NEW stop \in Int PROVE [r EXCEPT !.desiredStopTime = stop] \in KeptBy(s)
    <2> DEFINE after == [r EXCEPT !.desiredStopTime = stop]
    <2>1. after \in RecorderSet /\ Holds(after, w)
        BY <1>1, StopTimeKeeps
    <2> HIDE DEF after
    <2>2. after \in KeptBy(s)
        BY <1>1, <2>1, KeptMakes
    <2> QED BY <2>2 DEF after
<1> QED BY <1>2, <1>3, <1>4

\* A change of every element of a list.
LEMMA MapTyped ==
    ASSUME NEW X, NEW Y, NEW list \in Seq(X), NEW images, images = [i \in DOMAIN list |-> images[i]],
           \A i \in 1 .. Len(list) : images[i] \in Y
    PROVE  images \in Seq(Y)
<1>1. DOMAIN list = 1 .. Len(list) /\ Len(list) \in Nat
    BY LenProperties
<1>2. images \in [1 .. Len(list) -> Y]
    BY <1>1
<1> QED BY <1>1, <1>2

LEMMA EachPushed ==
    ASSUME NEW s, NEW list \in Seq(KeptBy(s)), NEW e \in EventSet
    PROVE  Each(list, LAMBDA r : PushEvent(r, e)) \in Seq(KeptBy(s))
<1> DEFINE images == [i \in DOMAIN list |-> PushEvent(list[i], e)]
<1>1. DOMAIN list = 1 .. Len(list) /\ \A i \in 1 .. Len(list) : list[i] \in KeptBy(s)
    BY LenProperties, ElementOfSeq
<1>2. \A i \in 1 .. Len(list) : images[i] \in KeptBy(s)
    BY <1>1, KeptChanges
<1>3. images = [i \in DOMAIN list |-> images[i]]
    OBVIOUS
<1>4. images \in Seq(KeptBy(s))
    <2> HIDE DEF images
    <2> QED BY <1>2, <1>3, MapTyped
<1> QED BY <1>4 DEF Each

LEMMA ChosenKept ==
    ASSUME NEW s, NEW list \in Seq(KeptBy(s)), NEW tick
    PROVE  Ended(list) \in Seq(KeptBy(s)) /\ Passed(list, tick) \in Seq(KeptBy(s))
<1>1. Ended(list) \in Seq(KeptBy(s))
    BY ChosenElements DEF Ended
<1>2. Passed(list, tick) \in Seq(KeptBy(s))
    BY ChosenElements DEF Passed
<1> QED BY <1>1, <1>2

LEMMA TimerHas ==
    ASSUME NEW t \in TimerSet
    PROVE  /\ t = [running |-> t.running, paused |-> t.paused, time |-> t.time]
           /\ t.running \in BOOLEAN /\ t.paused \in BOOLEAN /\ t.time \in Nat
BY DEF TimerSet

LEMMA TimerMakes ==
    ASSUME NEW running \in BOOLEAN, NEW paused \in BOOLEAN, NEW time \in Nat
    PROVE  [running |-> running, paused |-> paused, time |-> time] \in TimerSet
BY DEF TimerSet

LEMMA TimerChanges ==
    ASSUME NEW t \in TimerSet, NEW on \in BOOLEAN, NEW time \in Nat
    PROVE  /\ [t EXCEPT !.running = on] \in TimerSet /\ [t EXCEPT !.paused = on] \in TimerSet
           /\ [t EXCEPT !.running = on, !.time = time] \in TimerSet /\ [t EXCEPT !.time = time] \in TimerSet
<1>1. [t EXCEPT !.running = on] = [running |-> on, paused |-> t.paused, time |-> t.time]
    BY TimerHas
<1>2. [t EXCEPT !.paused = on] = [running |-> t.running, paused |-> on, time |-> t.time]
    BY TimerHas
<1>3. [t EXCEPT !.running = on, !.time = time] = [running |-> on, paused |-> t.paused, time |-> time]
    <2> DEFINE u == [t EXCEPT !.running = on]
    <2>1. [t EXCEPT !.running = on, !.time = time] = [u EXCEPT !.time = time]
        OBVIOUS
    <2>2. u = [running |-> on, paused |-> t.paused, time |-> t.time]
        BY TimerHas
    <2> HIDE DEF u
    <2>3. [u EXCEPT !.time = time] = [running |-> on, paused |-> t.paused, time |-> time]
        BY <2>2
    <2> QED BY <2>1, <2>3
<1>4. [t EXCEPT !.time = time] = [running |-> t.running, paused |-> t.paused, time |-> time]
    BY TimerHas
<1> QED BY <1>1, <1>2, <1>3, <1>4, TimerHas, TimerMakes

LEMMA MoreEvents ==
    ASSUME NEW c \in CircularSet, NEW e \in EventSet
    PROVE  /\ [c EXCEPT !.events = Append(@, e)] \in CircularSet
           /\ [c EXCEPT !.events = Append(@, e)].ticks = c.ticks
<1> DEFINE events == Append(c.events, e)
           after == [ticks |-> c.ticks, events |-> events, earliestMode |-> c.earliestMode, knownMode |-> c.knownMode]
<1>1. events \in Seq(EventSet)
    BY CircularHas, AppendProperties
<1>2. [c EXCEPT !.events = Append(@, e)] = [c EXCEPT !.events = events]
    OBVIOUS
<1> HIDE DEF events
<1>3. [c EXCEPT !.events = events] = after
    BY CircularHas
<1>4. after \in CircularSet
    BY <1>1, CircularHas, CircularMakes
<1>5. after.ticks = c.ticks
    OBVIOUS
<1> HIDE DEF after
<1> QED BY <1>2, <1>3, <1>4, <1>5

LEMMA InsertKeeps ==
    ASSUME TapeInv, NEW e \in EventSet, Insert(e)
    PROVE  circular' \in CircularSet /\ circular'.ticks = circular.ticks /\ runRecorders' \in Seq(KeptBy(seen))
<1>1. circular \in CircularSet /\ runRecorders \in Seq(KeptBy(seen))
    BY DEF TapeInv, TapeTypes
<1>2. circular' = [circular EXCEPT !.events = Append(@, e)] /\ runRecorders' = Each(runRecorders, LAMBDA r : PushEvent(r, e))
    BY DEF Insert
<1>3. circular' \in CircularSet /\ circular'.ticks = circular.ticks
    BY <1>1, <1>2, MoreEvents
<1>4. runRecorders' \in Seq(KeptBy(seen))
    BY <1>1, <1>2, EachPushed
<1> QED BY <1>3, <1>4

LEMMA TimerStopKeeps ==
    ASSUME TapeInv, TimerStop
    PROVE  /\ timer' \in TimerSet
           /\ circular' \in CircularSet /\ circular'.ticks = circular.ticks /\ runRecorders' \in Seq(KeptBy(seen))
<1>1. circular \in CircularSet /\ runRecorders \in Seq(KeptBy(seen)) /\ timer \in TimerSet /\ currentTick \in Nat
    BY DEF TapeInv, TapeTypes
<1>2. CASE timer.running
    <2> DEFINE e == Event("stop", currentTick, timer.time, NoMode)
    <2>1. timer' = [timer EXCEPT !.running = FALSE] /\ circular' = [circular EXCEPT !.events = Append(@, e)]
        BY <1>2 DEF TimerStop
    <2>2. runRecorders' = Ended(Each(runRecorders, LAMBDA r : PushEvent(r, e)))
        BY <1>2 DEF TimerStop
    <2>3. e \in EventSet
        <3>1. "stop" \in EventTypes /\ NoMode \in AnyMode /\ timer.time \in Nat
            BY <1>1, TimerHas DEF EventTypes, AnyMode
        <3> QED BY <1>1, <3>1, EventTyped
    <2> HIDE DEF e
    <2>4. Each(runRecorders, LAMBDA r : PushEvent(r, e)) \in Seq(KeptBy(seen))
        BY <1>1, <2>3, EachPushed
    <2>5. runRecorders' \in Seq(KeptBy(seen))
        <3> DEFINE all == Each(runRecorders, LAMBDA r : PushEvent(r, e))
        <3>1. all \in Seq(KeptBy(seen)) /\ runRecorders' = Ended(all)
            BY <2>2, <2>4
        <3> HIDE DEF all
        <3> QED BY <3>1, ChosenKept
    <2>6. timer' \in TimerSet
        <3>1. timer.time \in Nat /\ FALSE \in BOOLEAN
            BY <1>1, TimerHas
        <3> QED BY <1>1, <2>1, <3>1, TimerChanges
    <2> QED BY <1>1, <2>1, <2>3, <2>5, <2>6, MoreEvents
<1>3. CASE ~timer.running
    BY <1>1, <1>3 DEF TimerStop
<1> QED BY <1>2, <1>3

\* A step between two ticks.
LEMMA InputKeeps ==
    ASSUME TapeInv, UNCHANGED <<tickcount, currentTick, tape, seen>>, timer' \in TimerSet, mode' \in Modes,
           weapon' \in Weapons, place' \in Places, circular' \in CircularSet, circular'.ticks = circular.ticks,
           runRecorders' \in Seq(KeptBy(seen))
    PROVE  TapeInv'
<1>1. TapeTypes'
    BY DEF TapeInv, TapeTypes
<1>2. Increasing(seen, tickcount)' /\ LastTicks(circular.ticks, seen)'
    BY DEF TapeInv
<1>3. (runRecorders \in Seq(KeptBy(seen)))'
    OBVIOUS
<1>4. (\E w \in Seq(TickSet) : SomeTicks(w, seen) /\ TapeHolds(tape, w))'
    BY DEF TapeInv
<1> QED BY <1>1, <1>2, <1>3, <1>4 DEF TapeInv

LEMMA TimerEventKeeps ==
    ASSUME TapeInv, NEW type \in EventTypes, InsertTimerEvent(type)
    PROVE  circular' \in CircularSet /\ circular'.ticks = circular.ticks /\ runRecorders' \in Seq(KeptBy(seen))
<1> DEFINE time == IF timer.running THEN timer.time ELSE 0
<1>1. timer \in TimerSet /\ currentTick \in Nat
    BY DEF TapeInv, TapeTypes
<1>2. time \in Nat /\ NoMode \in AnyMode
    BY <1>1, TimerHas DEF AnyMode
<1>3. Insert(Event(type, currentTick, time, NoMode))
    BY DEF InsertTimerEvent
<1> HIDE DEF time
<1>4. Event(type, currentTick, time, NoMode) \in EventSet
    BY <1>1, <1>2, EventTyped
<1> QED BY <1>3, <1>4, InsertKeeps

LEMMA InputStep ==
    ASSUME TapeInv, \/ StopRun \/ Pause \/ Resume \/ JoinSpectators \/ OnPlayerSpawn
                    \/ \E to \in Modes : SwitchToMode(to)
                    \/ \E to \in Places : Teleport(to)
                    \/ \E to \in Weapons : SwitchWeapon(to)
    PROVE  TapeInv'
<1>1. /\ circular \in CircularSet /\ runRecorders \in Seq(KeptBy(seen)) /\ timer \in TimerSet /\ currentTick \in Nat
      /\ mode \in Modes /\ weapon \in Weapons /\ place \in Places
    BY DEF TapeInv, TapeTypes
<1>2. timer.time \in Nat /\ \A on \in BOOLEAN : [timer EXCEPT !.paused = on] \in TimerSet
    BY <1>1, TimerHas, TimerChanges
<1>3. CASE StopRun
    <2>1. /\ UNCHANGED <<tickcount, currentTick, tape, seen, mode, weapon, place>>
          /\ TimerStop
        BY <1>3 DEF StopRun, Input, botVars
    <2> QED BY <1>1, <2>1, TimerStopKeeps, InputKeeps
<1>4. CASE Pause \/ JoinSpectators
    <2>1. /\ UNCHANGED <<tickcount, currentTick, tape, seen, mode, weapon, place>>
          /\ timer' = [timer EXCEPT !.paused = TRUE] /\ InsertTimerEvent("pause")
        BY <1>4 DEF Pause, JoinSpectators, PauseEvent, Input, botVars
    <2>2. timer' \in TimerSet /\ "pause" \in EventTypes
        BY <1>2, <2>1 DEF EventTypes
    <2> QED BY <1>1, <2>1, <2>2, TimerEventKeeps, InputKeeps
<1>5. CASE Resume \/ OnPlayerSpawn
    <2>1. /\ UNCHANGED <<tickcount, currentTick, tape, seen, mode, weapon, place>>
          /\ timer' = [timer EXCEPT !.paused = FALSE] /\ InsertTimerEvent("resume")
        BY <1>5 DEF Resume, OnPlayerSpawn, ResumeEvent, Input, botVars
    <2>2. timer' \in TimerSet /\ "resume" \in EventTypes
        BY <1>2, <2>1 DEF EventTypes
    <2> QED BY <1>1, <2>1, <2>2, TimerEventKeeps, InputKeeps
<1>6. ASSUME NEW to \in Modes, SwitchToMode(to) PROVE TapeInv'
    <2>1. /\ UNCHANGED <<tickcount, currentTick, tape, seen, weapon, place>> /\ mode' = to
          /\ TimerStop
        BY <1>6 DEF SwitchToMode, Input, botVars
    <2> QED BY <1>1, <2>1, TimerStopKeeps, InputKeeps
<1>7. ASSUME NEW to \in Places, Teleport(to) PROVE TapeInv'
    <2>1. /\ UNCHANGED <<tickcount, currentTick, tape, seen, timer, mode, weapon>> /\ place' = to
          /\ Insert(Event("teleport", currentTick, 0, NoMode))
        BY <1>7 DEF Teleport, Input, botVars
    <2>2. Event("teleport", currentTick, 0, NoMode) \in EventSet
        <3>1. "teleport" \in EventTypes /\ NoMode \in AnyMode /\ 0 \in Nat
            BY DEF EventTypes, AnyMode
        <3> QED BY <1>1, <3>1, EventTyped
    <2>3. circular' \in CircularSet /\ circular'.ticks = circular.ticks /\ runRecorders' \in Seq(KeptBy(seen))
        BY <2>1, <2>2, InsertKeeps
    <2> QED BY <1>1, <2>1, <2>3, InputKeeps
<1>8. ASSUME NEW to \in Weapons, SwitchWeapon(to) PROVE TapeInv'
    <2>1. UNCHANGED <<tickcount, currentTick, tape, seen, timer, mode, place, circular, runRecorders>> /\ weapon' = to
        BY <1>8 DEF SwitchWeapon, Input, botVars
    <2> QED BY <1>1, <2>1, InputKeeps
<1> QED BY <1>3, <1>4, <1>5, <1>6, <1>7, <1>8

\* What is saved is what the recorder held.
LEMMA SaveKeeps ==
    ASSUME NEW s \in Seq(SeenSet), NEW r \in KeptBy(s), Save(r)
    PROVE  /\ circular' = EmptyCircular /\ runRecorders' = <<>>
           /\ \E w \in Seq(TickSet) : SomeTicks(w, s) /\ TapeHolds(tape', w)
<1>1. PICK w \in Seq(TickSet) : r \in RecorderSet /\ LastTicks(w, s) /\ Holds(r, w)
    BY KeptIs
<1>2. /\ tape' = LoadReplayFromMemory(WriteToMemory(r))
      /\ circular' = EmptyCircular /\ runRecorders' = <<>>
    BY DEF Save
<1>3. SomeTicks(w, s) /\ TapeHolds(tape', w)
    BY <1>1, <1>2, LastIsSome, SavedIsHeld
<1> QED BY <1>2, <1>3

LEMMA EmptyIs ==
    /\ EmptyCircular \in CircularSet /\ EmptyCircular.ticks = <<>>
    /\ \A s \in Seq(SeenSet) : LastTicks(<<>>, s) /\ <<>> \in Seq(KeptBy(s))
<1>1. <<>> \in Seq(TickSet) /\ <<>> \in Seq(EventSet) /\ NoMode \in AnyMode
    BY EmptySeq DEF AnyMode
<1>2. EmptyCircular \in CircularSet
    BY <1>1, CircularMakes DEF EmptyCircular
<1>3. ASSUME NEW s \in Seq(SeenSet) PROVE LastTicks(<<>>, s) /\ <<>> \in Seq(KeptBy(s))
    BY NoTicks, EmptySeq
<1> QED BY <1>2, <1>3 DEF EmptyCircular

\* A replay is saved between two ticks, or of a player who is not alive.
LEMMA SaveStep ==
    ASSUME TapeInv, NEW r \in KeptBy(seen), Save(r), UNCHANGED <<playerVars, currentTick, seen>>,
           tickcount' \in {tickcount, tickcount + 1}
    PROVE  TapeInv'
<1>1. seen \in Seq(SeenSet) /\ tickcount \in Nat
    BY DEF TapeInv, TapeTypes
<1>2. /\ circular' = EmptyCircular /\ runRecorders' = <<>>
      /\ \E w \in Seq(TickSet) : SomeTicks(w, seen) /\ TapeHolds(tape', w)
    BY <1>1, SaveKeeps
<1>3. TapeTypes'
    BY <1>1, <1>2, EmptyIs DEF TapeInv, TapeTypes, playerVars
<1>4. Increasing(seen, tickcount)'
    <2>1. Increasing(seen, tickcount) /\ \A i \in 1 .. Len(seen) : seen[i].tick.serverTick \in Nat
        <3>1. \A i \in 1 .. Len(seen) : seen[i].tick \in TickSet
            <4>1. \A i \in 1 .. Len(seen) : seen[i] \in SeenSet
                BY <1>1, ElementOfSeq
            <4> QED BY <4>1 DEF SeenSet
        <3> QED BY <3>1, TickHas DEF TapeInv
    <2>2. \A i \in 1 .. Len(seen) : seen[i].tick.serverTick <= tickcount'
        BY <1>1, <2>1 DEF Increasing
    <2>3. \A i, j \in 1 .. Len(seen) : i < j => seen[i].tick.serverTick < seen[j].tick.serverTick
        BY <2>1 DEF Increasing
    <2>4. seen' = seen
        OBVIOUS
    <2>5. Increasing(seen, tickcount')
        BY <2>2, <2>3 DEF Increasing
    <2> QED BY <2>4, <2>5
<1>5. LastTicks(circular.ticks, seen)' /\ (runRecorders \in Seq(KeptBy(seen)))'
    BY <1>1, <1>2, EmptyIs
<1>6. (\E w \in Seq(TickSet) : SomeTicks(w, seen) /\ TapeHolds(tape, w))'
    BY <1>2
<1> QED BY <1>3, <1>4, <1>5, <1>6 DEF TapeInv

LEMMA StaysTheSame ==
    ASSUME TapeInv, UNCHANGED <<tickcount, playerVars, recordingVars, tape, seen>>
    PROVE  TapeInv'
<1>1. /\ circular \in CircularSet /\ runRecorders \in Seq(KeptBy(seen)) /\ timer \in TimerSet
      /\ mode \in Modes /\ weapon \in Weapons /\ place \in Places
    BY DEF TapeInv, TapeTypes
<1>2. UNCHANGED <<tickcount, timer, mode, weapon, place, currentTick, circular, runRecorders, tape, seen>>
    BY DEF playerVars, recordingVars
<1> QED BY <1>1, <1>2, InputKeeps

\* A new recorder of the last n ticks.
LEMMA RecorderKept ==
    ASSUME TapeInv, NEW n \in Nat
    PROVE  Recorder(n) \in KeptBy(seen)
<1>1. circular \in CircularSet /\ seen \in Seq(SeenSet) /\ LastTicks(circular.ticks, seen)
    BY DEF TapeInv, TapeTypes
<1>2. circular.ticks \in Seq(TickSet)
    BY <1>1, CircularHas
<1>3. LastOf(circular.ticks, n) \in Seq(TickSet) /\ LastTicks(LastOf(circular.ticks, n), seen)
    BY <1>1, <1>2, LastOfLast
<1>4. Recorder(n) \in RecorderSet /\ Holds(Recorder(n), LastOf(circular.ticks, n))
    BY <1>1, RecorderHolds
<1> QED BY <1>3, <1>4, KeptMakes

(***************************************************************************)
(* ReplayTape: a tick of a living player.                                  *)
(***************************************************************************)
LEMMA MovedIs ==
    ASSUME TapeInv, NEW tick \in Nat, NEW touch \in Touches
    PROVE  /\ Moved(tick, touch).timer \in TimerSet
           /\ Moved(tick, touch).events \in Seq(EventSet)
           /\ Moved(tick, touch).recorders \in Seq(KeptBy(seen))
<1>1. runRecorders \in Seq(KeptBy(seen)) /\ timer \in TimerSet
    BY DEF TapeInv, TapeTypes
<1>2. timer.time \in Nat /\ timer.time + 1 \in Nat /\ NoMode \in AnyMode /\ {"start", "end"} \subseteq EventTypes
    BY <1>1, TimerHas DEF AnyMode, EventTypes
<1>3. CASE touch = "start"
    <2> DEFINE e == Event("start", tick, 0, NoMode)
               new == Recorder(BreatherTicks)
    <2>1. Moved(tick, touch) = [timer |-> [timer EXCEPT !.running = TRUE, !.time = 0], events |-> <<e>>,
                                recorders |-> Append(runRecorders, new)]
        BY <1>3 DEF Moved, Started
    <2>2. e \in EventSet
        BY <1>2, EventTyped
    <2>3. new \in KeptBy(seen)
        <3>1. BreatherTicks \in Nat
            BY TapeAssumption DEF TapeAssumption
        <3> QED BY <3>1, RecorderKept
    <2>4. [timer EXCEPT !.running = TRUE, !.time = 0] \in TimerSet
        BY <1>1, TimerChanges
    <2> HIDE DEF e, new
    <2>5. Append(runRecorders, new) \in Seq(KeptBy(seen))
        BY <1>1, <2>3, AppendProperties
    <2>6. <<e>> \in Seq(EventSet)
        BY <2>2
    <2> QED BY <2>1, <2>4, <2>5, <2>6
<1>4. CASE touch = "end"
    <2> DEFINE e == Event("end", tick, timer.time + 1, NoMode)
               stop == tick + TailTicks
               list == [i \in DOMAIN runRecorders |->
                           IF runRecorders[i].desiredStopTime = NotEnded
                           THEN [runRecorders[i] EXCEPT !.desiredStopTime = stop] ELSE runRecorders[i]]
               time == timer.time + 1
    <2>1. Moved(tick, touch) = [timer |-> [timer EXCEPT !.running = FALSE, !.time = @ + 1], events |-> <<e>>,
                                recorders |-> list]
        BY <1>4 DEF Moved, Finished, Each
    <2>2. e \in EventSet
        BY <1>2, EventTyped
    <2>3. stop \in Int
        BY TapeAssumption DEF TapeAssumption
    <2>4. [timer EXCEPT !.running = FALSE, !.time = @ + 1] \in TimerSet
        <3>1. [timer EXCEPT !.running = FALSE, !.time = @ + 1] = [timer EXCEPT !.running = FALSE, !.time = time]
            OBVIOUS
        <3>2. time \in Nat
            BY <1>2
        <3> HIDE DEF time
        <3>3. [timer EXCEPT !.running = FALSE, !.time = time] \in TimerSet
            BY <1>1, <3>2, TimerChanges
        <3> QED BY <3>1, <3>3
    <2> HIDE DEF e, stop
    <2>5. list \in Seq(KeptBy(seen))
        <3>1. \A i \in 1 .. Len(runRecorders) : runRecorders[i] \in KeptBy(seen)
            BY <1>1, ElementOfSeq
        <3>2. DOMAIN runRecorders = 1 .. Len(runRecorders)
            BY <1>1, LenProperties
        <3>3. \A i \in 1 .. Len(runRecorders) : list[i] \in KeptBy(seen)
            BY <2>3, <3>1, <3>2, KeptChanges
        <3>4. list = [i \in DOMAIN runRecorders |-> list[i]]
            OBVIOUS
        <3> HIDE DEF list
        <3> QED BY <1>1, <3>3, <3>4, MapTyped
    <2>6. <<e>> \in Seq(EventSet)
        BY <2>2
    <2> HIDE DEF list
    <2> QED BY <2>1, <2>4, <2>5, <2>6
<1>5. CASE touch # "start" /\ touch # "end"
    <2>1. Moved(tick, touch) = [timer |-> timer, events |-> <<>>, recorders |-> runRecorders]
        BY <1>5 DEF Moved
    <2>2. <<>> \in Seq(EventSet)
        BY EmptySeq
    <2> QED BY <1>1, <2>1, <2>2
<1> QED BY <1>3, <1>4, <1>5

LEMMA RecordKeeps ==
    ASSUME TapeInv, NEW tick \in Nat, NEW t \in TickSet, NEW moved, NEW beyond \in {0, 1}, NEW read \in -1 .. 4,
           moved.events \in Seq(EventSet), moved.recorders \in Seq(KeptBy(seen)),
           Record(tick, t, moved, beyond, read), NEW x \in SeenSet, x.tick = t
    PROVE  /\ circular' \in CircularSet /\ LastTicks(circular'.ticks, Append(seen, x))
           /\ runRecorders' \in Seq(KeptBy(Append(seen, x)))
<1> DEFINE more == ModeEvents(tick)
           Grown(r) == PushEvents(PushTick(PushEvents(r, moved.events), t, beyond, read), more)
           list == [i \in DOMAIN moved.recorders |-> Grown(moved.recorders[i])]
           ticks == LastOf(Append(circular.ticks, t), CircularTicks)
           events == circular.events \o (moved.events \o more)
           earliest == IF circular.earliestMode = NoMode THEN mode ELSE circular.earliestMode
           c == [ticks |-> ticks, events |-> events, earliestMode |-> earliest, knownMode |-> mode]
           after == Append(seen, x)
<1>1. runRecorders' = list /\ circular' = Trimmed(c, tick)
    BY DEF Record, Each
<1>2. /\ circular \in CircularSet /\ seen \in Seq(SeenSet) /\ LastTicks(circular.ticks, seen) /\ mode \in Modes
    BY DEF TapeInv, TapeTypes
<1>3. more \in Seq(EventSet)
    <2> DEFINE e == Event("mode", tick, 0, mode)
    <2>1. mode \in AnyMode /\ "mode" \in EventTypes
        BY <1>2 DEF AnyMode, EventTypes
    <2>2. e \in EventSet
        BY <2>1, EventTyped
    <2>3. more = IF circular.knownMode = mode THEN <<>> ELSE <<e>>
        BY DEF ModeEvents
    <2> HIDE DEF e, more
    <2>4. <<e>> \in Seq(EventSet) /\ <<>> \in Seq(EventSet)
        BY <2>2
    <2> QED BY <2>3, <2>4
<1> HIDE DEF more
<1>4. ASSUME NEW r \in KeptBy(seen) PROVE Grown(r) \in KeptBy(after)
    <2>1. PICK w \in Seq(TickSet) : r \in RecorderSet /\ LastTicks(w, seen) /\ Holds(r, w)
        BY KeptIs
    <2> DEFINE first == PushEvents(r, moved.events)
               second == PushTick(first, t, beyond, read)
    <2>2. first \in RecorderSet /\ Holds(first, w)
        BY <2>1, PushEventsKeeps
    <2> HIDE DEF first
    <2>3. second \in RecorderSet /\ Holds(second, Append(w, t))
        BY <2>1, <2>2, PushTickKeeps
    <2> HIDE DEF second
    <2>4. PushEvents(second, more) \in RecorderSet /\ Holds(PushEvents(second, more), Append(w, t))
        BY <1>3, <2>3, PushEventsKeeps
    <2>5. LastTicks(Append(w, t), after) /\ Append(w, t) \in Seq(TickSet)
        BY <1>2, <2>1, LastNext, AppendProperties
    <2>6. PushEvents(second, more) \in KeptBy(after)
        <3> HIDE DEF after
        <3> QED BY <2>4, <2>5, KeptMakes
    <2> QED BY <2>6 DEF second, first
<1>5. list \in Seq(KeptBy(after))
    <2>1. \A i \in 1 .. Len(moved.recorders) : moved.recorders[i] \in KeptBy(seen)
        BY ElementOfSeq
    <2>2. DOMAIN moved.recorders = 1 .. Len(moved.recorders)
        BY LenProperties
    <2> HIDE DEF Grown, after
    <2>3. \A i \in 1 .. Len(moved.recorders) : list[i] \in KeptBy(after)
        BY <1>4, <2>1, <2>2
    <2>4. list = [i \in DOMAIN moved.recorders |-> list[i]]
        OBVIOUS
    <2> HIDE DEF list
    <2> QED BY <2>3, <2>4, MapTyped
<1>6. ticks \in Seq(TickSet) /\ LastTicks(ticks, after)
    <2>1. circular.ticks \in Seq(TickSet)
        BY <1>2, CircularHas
    <2>2. Append(circular.ticks, t) \in Seq(TickSet) /\ LastTicks(Append(circular.ticks, t), after)
        BY <1>2, <2>1, LastNext, AppendProperties
    <2>3. after \in Seq(SeenSet) /\ CircularTicks \in Nat
        BY <1>2, SeenNext, TapeAssumption DEF TapeAssumption
    <2> HIDE DEF after
    <2> QED BY <2>2, <2>3, LastOfLast
<1>7. events \in Seq(EventSet)
    <2>1. moved.events \o more \in Seq(EventSet) /\ circular.events \in Seq(EventSet)
        BY <1>2, <1>3, CircularHas, ConcatProperties
    <2> QED BY <2>1, ConcatProperties
<1>8. earliest \in AnyMode /\ mode \in AnyMode
    BY <1>2, CircularHas DEF AnyMode
<1> HIDE DEF ticks, events, earliest
<1>9. c \in CircularSet
    BY <1>6, <1>7, <1>8, CircularMakes
<1>10. c.ticks = ticks
    OBVIOUS
<1> HIDE DEF c, list, after
<1>11. circular' \in CircularSet /\ circular'.ticks = ticks
    BY <1>1, <1>9, <1>10, TrimmedIs
<1>12. LastTicks(circular'.ticks, after)
    BY <1>6, <1>11
<1> QED BY <1>1, <1>5, <1>11, <1>12 DEF after

LEMMA LivingStep ==
    ASSUME TapeInv, NEW touch \in Touches, NEW to \in Places, NEW moves \in {0, 1}, NEW beyond \in {0, 1},
           NEW read \in -1 .. 4, LivingTick(touch, to, moves, beyond, read)
    PROVE  TapeInv'
<1> DEFINE tick == tickcount + 1
           t == TickData(tick, to, moves)
           moved == Moved(tick, touch)
           passed == Passed(moved.recorders, tick)
           x == [tick |-> t, timer |-> timer', mode |-> mode]
           after == Append(seen, x)
<1>1. /\ tickcount' = tick /\ currentTick' = tick /\ place' = to /\ seen' = after
      /\ UNCHANGED <<mode, weapon>>
      /\ timer' = [moved.timer EXCEPT !.time = IF moved.timer.running /\ ~moved.timer.paused THEN @ + 1 ELSE @]
      /\ \/ passed # <<>> /\ Save(PushEvents(Head(passed), moved.events))
         \/ passed = <<>> /\ Record(tick, t, moved, beyond, read) /\ UNCHANGED <<tape, replay>>
    BY DEF LivingTick, botVars
<1>2. /\ tickcount \in Nat /\ tick \in Nat /\ seen \in Seq(SeenSet) /\ mode \in Modes /\ weapon \in Weapons
      /\ place \in Places
    BY DEF TapeInv, TapeTypes
<1>3. t \in TickSet /\ t.serverTick = tick
    BY <1>2 DEF TickData, TickSet
<1>4. moved.timer \in TimerSet /\ moved.events \in Seq(EventSet) /\ moved.recorders \in Seq(KeptBy(seen))
    BY <1>2, MovedIs
<1> HIDE DEF moved
<1>5. timer' \in TimerSet
    <2> DEFINE time == IF moved.timer.running /\ ~moved.timer.paused THEN moved.timer.time + 1 ELSE moved.timer.time
    <2>1. moved.timer.time \in Nat
        BY <1>4, TimerHas
    <2>2. time \in Nat
        BY <2>1
    <2>3. timer' = [moved.timer EXCEPT !.time = time]
        BY <1>1
    <2> HIDE DEF time
    <2> QED BY <1>4, <2>2, <2>3, TimerChanges
<1> HIDE DEF t
<1>6. x \in SeenSet /\ x.tick = t
    BY <1>2, <1>3, <1>5 DEF SeenSet
<1> HIDE DEF x
<1>7. after \in Seq(SeenSet) /\ Increasing(after, tick)
    <2>1. /\ Len(seen) \in Nat /\ after \in Seq(SeenSet) /\ Len(after) = Len(seen) + 1
          /\ \A i \in 1 .. Len(seen) : after[i] = seen[i]
          /\ after[Len(seen) + 1] = x
        BY <1>2, <1>6, SeenNext
    <2> HIDE DEF after
    <2>2. \A i \in 1 .. Len(seen) : seen[i].tick.serverTick \in Nat /\ seen[i].tick.serverTick <= tickcount
        <3>1. \A i \in 1 .. Len(seen) : seen[i] \in SeenSet
            BY <1>2, ElementOfSeq
        <3>2. \A i \in 1 .. Len(seen) : seen[i].tick \in TickSet
            BY <3>1 DEF SeenSet
        <3>3. \A i \in 1 .. Len(seen) : seen[i].tick.serverTick <= tickcount
            BY DEF TapeInv, Increasing
        <3> QED BY <3>2, <3>3, TickHas
    <2>3. after[Len(seen) + 1].tick.serverTick = tick
        BY <1>3, <1>6, <2>1
    <2>4. \A i \in 1 .. Len(after) : i \in 1 .. Len(seen) \/ i = Len(seen) + 1
        BY <2>1
    <2>5. \A i \in 1 .. Len(after) : after[i].tick.serverTick <= tick
        <3>1. tickcount <= tick /\ tick <= tick /\ \A m \in Nat : m <= tickcount => m <= tick
            BY <1>2
        <3> HIDE DEF tick
        <3>2. \A i \in 1 .. Len(seen) : after[i].tick.serverTick <= tick
            BY <2>1, <2>2, <3>1
        <3> QED BY <2>3, <2>4, <3>1, <3>2
    <2>6. ASSUME NEW i \in 1 .. Len(after), NEW j \in 1 .. Len(after), i < j
          PROVE  after[i].tick.serverTick < after[j].tick.serverTick
        <3>1. i \in 1 .. Len(seen)
            BY <2>1, <2>6
        <3>2. CASE j = Len(seen) + 1
            BY <1>2, <2>1, <2>2, <2>3, <3>1, <3>2
        <3>3. CASE j \in 1 .. Len(seen)
            <4>1. seen[i].tick.serverTick < seen[j].tick.serverTick
                BY <2>6, <3>1, <3>3 DEF TapeInv, Increasing
            <4> QED BY <2>1, <3>1, <3>3, <4>1
        <3> QED BY <2>4, <3>2, <3>3
    <2> QED BY <2>1, <2>5, <2>6 DEF Increasing
<1>8. /\ circular' \in CircularSet /\ LastTicks(circular'.ticks, after) /\ runRecorders' \in Seq(KeptBy(after))
      /\ \E w \in Seq(TickSet) : SomeTicks(w, after) /\ TapeHolds(tape', w)
    <2>1. CASE passed # <<>> /\ Save(PushEvents(Head(passed), moved.events))
        <3> DEFINE r == PushEvents(Head(passed), moved.events)
        <3>1. passed \in Seq(KeptBy(seen))
            BY <1>4, ChosenKept
        <3>2. Head(passed) \in KeptBy(seen)
            <4> HIDE DEF passed
            <4> QED BY <2>1, <3>1, HeadTailProperties
        <3>3. r \in KeptBy(seen) /\ Save(r)
            BY <1>4, <2>1, <3>2, KeptChanges
        <3> HIDE DEF r
        <3>4. /\ circular' = EmptyCircular /\ runRecorders' = <<>>
              /\ \E w \in Seq(TickSet) : SomeTicks(w, seen) /\ TapeHolds(tape', w)
            BY <1>2, <3>3, SaveKeeps
        <3>5. PICK w \in Seq(TickSet) : SomeTicks(w, seen) /\ TapeHolds(tape', w)
            BY <3>4
        <3>6. SomeTicks(w, after)
            BY <1>2, <1>6, <3>5, SomeStays
        <3> HIDE DEF after
        <3> QED BY <1>7, <3>4, <3>5, <3>6, EmptyIs
    <2>2. CASE Record(tick, t, moved, beyond, read) /\ UNCHANGED <<tape, replay>>
        <3>1. PICK w \in Seq(TickSet) : SomeTicks(w, seen) /\ TapeHolds(tape, w)
            BY DEF TapeInv
        <3>2. SomeTicks(w, after)
            BY <1>2, <1>6, <3>1, SomeStays
        <3> HIDE DEF tick
        <3>3. /\ circular' \in CircularSet /\ LastTicks(circular'.ticks, after)
              /\ runRecorders' \in Seq(KeptBy(after))
            BY <1>2, <1>3, <1>4, <1>6, <2>2, RecordKeeps
        <3> QED BY <2>2, <3>1, <3>2, <3>3
    <2> QED BY <1>1, <2>1, <2>2
<1> HIDE DEF after
<1>9. TapeTypes'
    BY <1>1, <1>2, <1>5, <1>7, <1>8 DEF TapeTypes
<1> QED BY <1>1, <1>7, <1>8, <1>9 DEF TapeInv

LEMMA SaveSteps ==
    ASSUME TapeInv, \/ DeadTick \/ OnClientDisconnect \/ \E n \in 1 .. CircularTicks : SaveManual(n)
    PROVE  TapeInv'
<1>1. runRecorders \in Seq(KeptBy(seen)) /\ tickcount \in Nat
    BY DEF TapeInv, TapeTypes
<1>2. CASE DeadTick
    <2> DEFINE passed == Passed(runRecorders, tickcount + 1)
    <2>1. /\ tickcount' = tickcount + 1 /\ UNCHANGED <<playerVars, currentTick, seen>>
          /\ \/ passed # <<>> /\ Save(Head(passed))
             \/ UNCHANGED <<circular, runRecorders, tape>>
        BY <1>2 DEF DeadTick, botVars
    <2>2. CASE passed # <<>> /\ Save(Head(passed))
        <3>1. passed \in Seq(KeptBy(seen))
            BY <1>1, ChosenKept
        <3> HIDE DEF passed
        <3>2. Head(passed) \in KeptBy(seen)
            BY <2>2, <3>1, HeadTailProperties
        <3> QED BY <2>1, <2>2, <3>2, SaveStep
    <2>3. CASE UNCHANGED <<circular, runRecorders, tape>>
        <3>1. UNCHANGED <<currentTick, timer, mode, weapon, place, circular, runRecorders, tape, seen>>
            BY <2>1, <2>3 DEF playerVars
        <3>2. TapeTypes'
            BY <1>1, <2>1, <3>1 DEF TapeInv, TapeTypes
        <3>3. Increasing(seen, tickcount)'
            <4>1. Increasing(seen, tickcount) /\ \A i \in 1 .. Len(seen) : seen[i].tick.serverTick \in Nat
                <5>1. \A i \in 1 .. Len(seen) : seen[i] \in SeenSet
                    BY ElementOfSeq DEF TapeInv, TapeTypes
                <5>2. \A i \in 1 .. Len(seen) : seen[i].tick \in TickSet
                    BY <5>1 DEF SeenSet
                <5> QED BY <5>2, TickHas DEF TapeInv
            <4>2. \A i \in 1 .. Len(seen) : seen[i].tick.serverTick <= tickcount'
                BY <1>1, <2>1, <4>1 DEF Increasing
            <4>3. Increasing(seen, tickcount')
                BY <4>1, <4>2 DEF Increasing
            <4> QED BY <3>1, <4>3
        <3>4. LastTicks(circular.ticks, seen)' /\ (runRecorders \in Seq(KeptBy(seen)))'
            BY <3>1 DEF TapeInv
        <3>5. (\E w \in Seq(TickSet) : SomeTicks(w, seen) /\ TapeHolds(tape, w))'
            BY <3>1 DEF TapeInv
        <3> QED BY <3>2, <3>3, <3>4, <3>5 DEF TapeInv
    <2> QED BY <2>1, <2>2, <2>3
<1>3. CASE OnClientDisconnect
    <2> DEFINE ended == Ended(runRecorders)
    <2>1. ended # <<>> /\ Save(Head(ended)) /\ UNCHANGED <<tickcount, playerVars, currentTick, seen>>
        BY <1>3 DEF OnClientDisconnect
    <2>2. ended \in Seq(KeptBy(seen))
        BY <1>1, ChosenKept
    <2> HIDE DEF ended
    <2>3. Head(ended) \in KeptBy(seen)
        BY <2>1, <2>2, HeadTailProperties
    <2> QED BY <2>1, <2>3, SaveStep
<1>4. ASSUME NEW n \in 1 .. CircularTicks, SaveManual(n) PROVE TapeInv'
    <2>1. Save(Recorder(n)) /\ UNCHANGED <<tickcount, playerVars, currentTick, seen>>
        BY <1>4 DEF SaveManual
    <2>2. n \in Nat
        OBVIOUS
    <2>3. Recorder(n) \in KeptBy(seen)
        BY <2>2, RecorderKept
    <2> QED BY <2>1, <2>3, SaveStep
<1> QED BY <1>2, <1>3, <1>4

LEMMA TapeInitial ==
    ASSUME InitTape
    PROVE  TapeInv
<1>1. seen = <<>> /\ seen \in Seq(SeenSet) /\ Len(seen) = 0
    BY EmptySeq DEF InitTape
<1>2. TapeTypes
    <2>1. Stopped \in TimerSet
        BY TimerMakes DEF Stopped
    <2> QED BY <1>1, <2>1, EmptyIs DEF InitTape, TapeTypes
<1>3. Increasing(seen, tickcount)
    BY <1>1 DEF Increasing
<1>4. LastTicks(circular.ticks, seen) /\ runRecorders \in Seq(KeptBy(seen))
    BY <1>1, EmptyIs DEF InitTape
<1>5. \E w \in Seq(TickSet) : SomeTicks(w, seen) /\ TapeHolds(tape, w)
    <2> DEFINE w == <<>>
    <2>1. SomeTicks(w, seen) /\ w \in Seq(TickSet) /\ Len(w) = 0
        BY <1>1, NoTicks, EmptySeq
    <2>2. tape.ticks = w /\ tape.lost = {} /\ w \in Seq(DataSet)
        BY EmptySeq DEF InitTape, NoTape
    <2>3. TicksFit(w, w)
        BY <2>1 DEF TicksFit
    <2>4. Fit(w, w, w, {})
        BY <2>1, <2>2, <2>3, FitExact
    <2> HIDE DEF w
    <2>5. TapeHolds(tape, w)
        BY <2>1, <2>2, <2>3, <2>4 DEF TapeHolds, w
    <2> QED BY <2>1, <2>5
<1> QED BY <1>2, <1>3, <1>4, <1>5 DEF TapeInv

LEMMA TapeStep ==
    ASSUME TapeInv, [NextTape]_tapeVars
    PROVE  TapeInv'
<1>1. CASE \E touch \in Touches, to \in Places, moves, beyond \in {0, 1}, read \in Reads :
               LivingTick(touch, to, moves, beyond, read)
    <2>1. Reads \subseteq -1 .. 4
        BY TapeAssumption DEF TapeAssumption
    <2> QED BY <1>1, <2>1, LivingStep
<1>2. CASE DeadTick \/ OnClientDisconnect \/ \E n \in 1 .. CircularTicks : SaveManual(n)
    BY <1>2, SaveSteps
<1>3. CASE \/ StopRun \/ Pause \/ Resume \/ JoinSpectators \/ OnPlayerSpawn
           \/ \E to \in Modes : SwitchToMode(to)
           \/ \E to \in Places : Teleport(to)
           \/ \E to \in Weapons : SwitchWeapon(to)
    BY <1>3, InputStep
<1>4. CASE \/ StartReplay \/ PlayFrame \/ ToggleReplayPause
           \/ \E target \in Targets, late \in BOOLEAN : NavigateReplay(target, late)
    <2>1. UNCHANGED <<tickcount, playerVars, recordingVars, tape, seen>>
        BY <1>4 DEF StartReplay, PlayFrame, ToggleReplayPause, NavigateReplay
    <2> QED BY <2>1, StaysTheSame
<1>5. CASE UNCHANGED tapeVars
    <2>1. UNCHANGED <<tickcount, playerVars, recordingVars, tape, seen>>
        BY <1>5 DEF tapeVars, botVars
    <2> QED BY <2>1, StaysTheSame
<1> QED BY <1>1, <1>2, <1>3, <1>4, <1>5 DEF NextTape

\* A loaded replay has, in order, ticks the player lived through, each as it
\* was: through the circular buffers, the recorders, the chunks that are put
\* aside, and the file.  Between two of them none is missing but those of a chunk
\* whose ticks were not read back, in whose place there may be blank ones.  One
\* that was never put aside in part has also the weapon of every tick and each
\* move in its tick.
THEOREM TapeKeepsTicks == SpecTape => []TicksAreKept
<1>1. InitTape => TapeInv
    BY TapeInitial
<1>2. TapeInv /\ [NextTape]_tapeVars => TapeInv'
    BY TapeStep
<1>3. TapeInv => TicksAreKept
    BY TapeIsKept
<1> QED BY <1>1, <1>2, <1>3, PTL DEF SpecTape
=============================================================================
