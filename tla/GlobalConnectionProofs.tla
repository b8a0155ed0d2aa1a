------------------------ MODULE GlobalConnectionProofs ------------------------
(***************************************************************************)
(* Proofs about the connection to the global API: its type invariant, that *)
(* no state of the connection is left to nobody, that the API hears of     *)
(* every player, that answers find their callbacks, and that the map the   *)
(* service tells of is never an older one.  The last two rest on an order: *)
(* what is under way, from the frames of the link over the queue of the    *)
(* main thread to the callbacks it is running, is in the order in which it *)
(* was sent.                                                               *)
(***************************************************************************)
EXTENDS GlobalConnection, SequenceTheorems, TLAPS

(***************************************************************************)
(* The inductive invariants.                                               *)
(***************************************************************************)
Positions(s) == 1 .. Len(s)

\* What the queues may hold, and the states that wait to be stored.
Requested == {"player-join", "want-player-records"}
IsSend(job) == job.run = "SendMessage" /\ job.event \in Requested

JobsAsQueued ==
    /\ \A i \in Positions(queue) : queue[i].run # "SendMessage"
    /\ \A i \in Positions(whenConnectedQueue) : IsSend(whenConnectedQueue[i])
    /\ \A i \in Positions(callbacks) : callbacks[i].run = "SendMessage" => IsSend(callbacks[i])
    /\ storing \in {<<>>, <<"Initialized">>, <<"HandshakeInitiated">>}

TypeInv == TypeOK /\ JobsAsQueued

\* A hello names every player that was skipped, also when it leaves on a later
\* link; nobody is skipped between the hello of a link and its loss.
InHandshake == state \in {"HandshakeInitiated", "HandshakeCompleted"}

HelloNamesAll ==
    /\ outgoing # <<>> /\ outgoing[1].event = "hello" =>
           storing = <<"HandshakeInitiated">> /\ skipped \subseteq outgoing[1].players
    /\ outgoing # <<>> /\ outgoing[1].event = "player-leave" => skipped \cap outgoing[1].players = {}
    /\ open /\ helloSent => skipped \subseteq known /\ (InHandshake \/ storing = <<"HandshakeInitiated">>)
    /\ storing = <<"Initialized">> => ~helloSent
    /\ open \/ helloSent => started

AnswersAHello(job) == job.run = "CompleteHandshake" => job.link <= links /\ (job.link = links => helloSent)

AcksFollowHello ==
    /\ \A i \in Positions(frames) : frames[i].event = "hello" => helloSent
    /\ \A i \in Positions(queue) : AnswersAHello(queue[i])
    /\ \A i \in Positions(callbacks) : AnswersAHello(callbacks[i])
    /\ acked => helloSent

HandshakeInv ==
    /\ ConnectedIsHandled
    /\ GivesUpForGood
    /\ HelloNamesAll
    /\ AcksFollowHello

\* The order of what is under way, by message and by map.
Tells(job)   == job.run \in {"CompleteHandshake", "ExecuteMessageCallback"}
Answers(job) == job.run = "ExecuteMessageCallback"
MapOf(job)   == IF job.run = "CompleteHandshake" THEN job.map ELSE job.message.map

FrameBefore(f, g) == f.id < g.id /\ f.map <= g.map
JobBefore(j, k) ==
    /\ Tells(j) /\ Tells(k) => MapOf(j) <= MapOf(k)
    /\ Answers(j) /\ Answers(k) => j.message.id < k.message.id
JobBeforeFrame(j, f) ==
    /\ Tells(j) => MapOf(j) <= f.map
    /\ Answers(j) => j.message.id < f.id

NextSent == nextMessageID - Len(outgoing)
JobInTime(j) ==
    /\ Tells(j) => mapInfo <= MapOf(j) /\ MapOf(j) <= map
    /\ Answers(j) => j.message.id < NextSent
FrameInTime(f) == mapInfo <= f.map /\ f.map <= map /\ f.id < NextSent

InOrder ==
    /\ \A i, k \in Positions(frames) : i < k => FrameBefore(frames[i], frames[k])
    /\ \A i, k \in Positions(queue) : i < k => JobBefore(queue[i], queue[k])
    /\ \A i, k \in Positions(callbacks) : i < k => JobBefore(callbacks[i], callbacks[k])
    /\ \A i \in Positions(callbacks), k \in Positions(queue) : JobBefore(callbacks[i], queue[k])
    /\ \A i \in Positions(callbacks), k \in Positions(frames) : JobBeforeFrame(callbacks[i], frames[k])
    /\ \A i \in Positions(queue), k \in Positions(frames) : JobBeforeFrame(queue[i], frames[k])

InTime ==
    /\ \A i \in Positions(frames) : FrameInTime(frames[i])
    /\ \A i \in Positions(queue) : JobInTime(queue[i])
    /\ \A i \in Positions(callbacks) : JobInTime(callbacks[i])
    /\ mapInfo <= map
    /\ outgoing # <<>> => outgoing[1].id = nextMessageID - 1 /\ outgoing[1].map = map

\* An answer is awaited from the moment its request is prepared.
Awaited(message) == message.event # "hello" => message \in messageCallbacks
AllAwaited ==
    /\ \A i \in Positions(frames) : Awaited(frames[i])
    /\ \A i \in Positions(queue) : Answers(queue[i]) => Awaited(queue[i].message)
    /\ \A i \in Positions(callbacks) : Answers(callbacks[i]) => Awaited(callbacks[i].message)
    /\ outgoing # <<>> /\ outgoing[1].event # "player-leave" => Awaited(outgoing[1])

OrderInv == InOrder /\ InTime /\ AllAwaited

(***************************************************************************)
(* Lemmas about sequences, jobs and messages.                              *)
(***************************************************************************)
\* Taking the first element off.
LEMMA TakeFirst ==
    ASSUME NEW S, NEW s \in Seq(S), s # <<>>
    PROVE  /\ Len(s) \in Nat /\ Len(s) >= 1 /\ Head(s) = s[1] /\ Head(s) \in S
           /\ Tail(s) \in Seq(S) /\ Len(Tail(s)) = Len(s) - 1
           /\ \A i \in Positions(Tail(s)) : i + 1 \in Positions(s) /\ Tail(s)[i] = s[i + 1]
<1>1. Len(s) \in Nat /\ Len(s) >= 1
    BY EmptySeq, LenProperties
<1>2. Head(s) \in S /\ Tail(s) \in Seq(S) /\ Len(Tail(s)) = Len(s) - 1
    BY HeadTailProperties
<1>3. \A i \in 1 .. Len(Tail(s)) : Tail(s)[i] = s[i + 1]
    BY HeadTailProperties
<1>4. Head(s) = s[1]
    OBVIOUS
<1> QED
    BY <1>1, <1>2, <1>3, <1>4 DEF Positions

\* What is behind the first element is in the rest.
LEMMA LaterIn ==
    ASSUME NEW S, NEW s \in Seq(S), s # <<>>
    PROVE  \A i \in Positions(s) : i = 1 \/ (i - 1 \in Positions(Tail(s)) /\ Tail(s)[i - 1] = s[i])
<1>1. /\ Len(s) \in Nat /\ Len(Tail(s)) = Len(s) - 1
      /\ \A i \in 1 .. Len(Tail(s)) : Tail(s)[i] = s[i + 1]
    BY HeadTailProperties, LenProperties
<1> QED BY <1>1 DEF Positions

\* Putting one at the end.
LEMMA PutLast ==
    ASSUME NEW S, NEW s \in Seq(S), NEW x \in S
    PROVE  /\ Append(s, x) \in Seq(S) /\ Len(s) \in Nat /\ Len(Append(s, x)) = Len(s) + 1
           /\ \A i \in Positions(Append(s, x)) :
                 IF i = Len(s) + 1 THEN Append(s, x)[i] = x
                 ELSE i \in Positions(s) /\ Append(s, x)[i] = s[i]
           /\ \A i \in Positions(s) : i \in Positions(Append(s, x)) /\ Append(s, x)[i] = s[i]
           /\ Len(s) + 1 \in Positions(Append(s, x)) /\ Append(s, x)[Len(s) + 1] = x
<1>1. Append(s, x) \in Seq(S) /\ Len(Append(s, x)) = Len(s) + 1 /\ Len(s) \in Nat
    BY AppendProperties, LenProperties
<1>2. \A i \in 1 .. Len(s) : Append(s, x)[i] = s[i]
    BY AppendProperties
<1>3. Append(s, x)[Len(s) + 1] = x
    BY AppendProperties
<1> QED
    BY <1>1, <1>2, <1>3 DEF Positions

\* Joining two.
LEMMA Joined ==
    ASSUME NEW S, NEW s \in Seq(S), NEW t \in Seq(S)
    PROVE  /\ s \o t \in Seq(S) /\ Len(s) \in Nat /\ Len(t) \in Nat /\ Len(s \o t) = Len(s) + Len(t)
           /\ \A i \in Positions(s \o t) :
                 IF i <= Len(s) THEN i \in Positions(s) /\ (s \o t)[i] = s[i]
                 ELSE i - Len(s) \in Positions(t) /\ (s \o t)[i] = t[i - Len(s)]
           /\ \A i \in Positions(s) : i \in Positions(s \o t) /\ (s \o t)[i] = s[i]
<1>1. s \o t \in Seq(S) /\ Len(s \o t) = Len(s) + Len(t) /\ Len(s) \in Nat /\ Len(t) \in Nat
    BY ConcatProperties, LenProperties
<1>2. \A i \in 1 .. Len(s) + Len(t) : (s \o t)[i] = IF i <= Len(s) THEN s[i] ELSE t[i - Len(s)]
    BY ConcatProperties
<1> QED
    BY <1>1, <1>2 DEF Positions

\* The elements of a sequence.
LEMMA Elements ==
    ASSUME NEW S, NEW s \in Seq(S)
    PROVE  /\ Len(s) \in Nat
           /\ \A i \in Positions(s) : s[i] \in S
           /\ \A x : x \in ToSet(s) <=> \E i \in Positions(s) : s[i] = x
BY LenProperties, ElementOfSeq DEF Positions, ToSet

\* The empty sequence.
LEMMA Empty ==
    ASSUME NEW S, NEW s, s = <<>>
    PROVE  s \in Seq(S) /\ Len(s) = 0 /\ Positions(s) = {}
BY EmptySeq DEF Positions

\* A sequence of one element.
LEMMA Single ==
    ASSUME NEW S, NEW x \in S
    PROVE  <<x>> \in Seq(S) /\ Len(<<x>>) = 1 /\ <<x>>[1] = x /\ Head(<<x>>) = x /\ <<x>> # <<>>
OBVIOUS

\* What a job of each kind consists of.
LEMMA JobFields ==
    ASSUME NEW job \in Jobs
    PROVE  /\ job.run \in {"InitiateHandshake", "CompleteHandshake", "ExecuteMessageCallback", "SendMessage"}
           /\ job.run = "InitiateHandshake" => job = InitiateHandshakeCB
           /\ job.run = "CompleteHandshake" => job.map \in Nat /\ job.link \in Nat
           /\ job.run = "ExecuteMessageCallback" => job.message \in Messages
           /\ job.run = "SendMessage" => job.event \in Events /\ job.players \subseteq Players
BY DEF Jobs, InitiateHandshakeCB

\* What a message consists of.
LEMMA MessageFields ==
    ASSUME NEW m \in Messages
    PROVE  m.event \in Events /\ m.id \in Nat /\ m.players \subseteq Players /\ m.map \in Nat
BY DEF Messages

\* A message that is made is one, with what it was made from.
LEMMA MessageIs ==
    ASSUME NEW event \in Events, NEW id \in Nat, NEW who \in SUBSET Players, NEW about \in Nat
    PROVE  /\ Message(event, id, who, about) \in Messages
           /\ Message(event, id, who, about).event = event /\ Message(event, id, who, about).id = id
           /\ Message(event, id, who, about).players = who /\ Message(event, id, who, about).map = about
BY DEF Message, Messages

\* The callbacks that are queued are jobs, of four kinds.
LEMMA JobsAre ==
    /\ InitiateHandshakeCB \in Jobs /\ InitiateHandshakeCB.run = "InitiateHandshake"
    /\ \A m \in Nat, link \in Nat : LET job == CompleteHandshakeCB(m, link) IN
           job \in Jobs /\ job.run = "CompleteHandshake" /\ job.map = m /\ job.link = link
    /\ \A m \in Messages : LET job == ExecuteCB(m) IN
           job \in Jobs /\ job.run = "ExecuteMessageCallback" /\ job.message = m
    /\ \A event \in Events, who \in SUBSET Players : LET job == SendCB(event, who) IN
           job \in Jobs /\ job.run = "SendMessage" /\ job.event = event /\ job.players = who
BY DEF Jobs, InitiateHandshakeCB, CompleteHandshakeCB, ExecuteCB, SendCB

(***************************************************************************)
(* Types.                                                                  *)
(***************************************************************************)
\* What sending a message leaves.
LEMMA SendTypes ==
    ASSUME TypeInv, NEW event \in Events, NEW who \in SUBSET Players,
           NEW waiting \in SUBSET Messages, SendMessage(event, who, waiting)
    PROVE  /\ outgoing' \in Seq(Messages) /\ Len(outgoing') <= 1
           /\ messageCallbacks' \subseteq Messages /\ nextMessageID' \in Nat
<1> DEFINE m == Message(event, nextMessageID, who, map)
<1>0. nextMessageID \in Nat /\ map \in Nat /\ outgoing \in Seq(Messages) /\ Len(outgoing) <= 1
    BY DEF TypeInv, TypeOK
<1>1. m \in Messages
    BY <1>0, MessageIs
<1>2. <<m>> \in Seq(Messages) /\ Len(<<m>>) = 1
    BY <1>1, Single
<1>3. (outgoing' = outgoing \/ outgoing' = <<m>>) /\ (messageCallbacks' = waiting \/ messageCallbacks' = waiting \cup {m})
    BY DEF SendMessage
<1>4. nextMessageID' = nextMessageID + 1
    BY DEF SendMessage
<1> HIDE DEF m
<1>5. outgoing' \in Seq(Messages) /\ Len(outgoing') <= 1
    <2>1. CASE outgoing' = outgoing
        BY <1>0, <2>1
    <2>2. CASE outgoing' = <<m>>
        BY <1>2, <2>2
    <2> QED BY <1>3, <2>1, <2>2
<1>6. messageCallbacks' \subseteq Messages
    BY <1>1, <1>3
<1> QED
    BY <1>0, <1>4, <1>5, <1>6

\* What sending or queueing leaves.
LEMMA SendOrQueueTypes ==
    ASSUME TypeInv, NEW event \in Requested, NEW who \in SUBSET Players,
           NEW waiting \in SUBSET Messages, SendOrQueue(event, who, waiting)
    PROVE  /\ outgoing' \in Seq(Messages) /\ Len(outgoing') <= 1
           /\ messageCallbacks' \subseteq Messages /\ nextMessageID' \in Nat
           /\ whenConnectedQueue' \in Seq(Jobs)
           /\ \A i \in Positions(whenConnectedQueue') : IsSend(whenConnectedQueue'[i])
<1>1. event \in Events
    BY DEF Requested, Events
<1>2. CASE state = "HandshakeCompleted"
    BY <1>1, <1>2, SendTypes DEF SendOrQueue, TypeInv, TypeOK, JobsAsQueued
<1>3. CASE state = "HandshakeInitiated"
    <2> DEFINE job == SendCB(event, who)
    <2>1. job \in Jobs /\ IsSend(job)
        BY <1>1, JobsAre DEF IsSend
    <2>2. whenConnectedQueue' = Append(whenConnectedQueue, job) /\ UNCHANGED <<nextMessageID, outgoing>>
          /\ messageCallbacks' = waiting
        BY <1>3 DEF SendOrQueue
    <2> HIDE DEF job
    <2>3. whenConnectedQueue \in Seq(Jobs) /\ \A i \in Positions(whenConnectedQueue) : IsSend(whenConnectedQueue[i])
        BY DEF TypeInv, TypeOK, JobsAsQueued
    <2>4. whenConnectedQueue' \in Seq(Jobs) /\ \A i \in Positions(whenConnectedQueue') : IsSend(whenConnectedQueue'[i])
        BY <2>1, <2>2, <2>3, AppendProperties DEF Positions
    <2> QED BY <2>2, <2>3, <2>4 DEF TypeInv, TypeOK
<1>4. CASE state \notin {"HandshakeCompleted", "HandshakeInitiated"}
    BY <1>4 DEF SendOrQueue, TypeInv, TypeOK, JobsAsQueued
<1> QED BY <1>2, <1>3, <1>4

\* The callback that is run next, and those left.
LEMMA RunTypes ==
    ASSUME TypeInv, NEW kind, Run(kind)
    PROVE  /\ outgoing = <<>> /\ storing = <<>>
           /\ Len(callbacks) \in Nat /\ Len(callbacks) >= 1 /\ Head(callbacks) = callbacks[1]
           /\ callbacks[1] \in Jobs /\ callbacks[1].run = kind
           /\ callbacks' \in Seq(Jobs) /\ Len(callbacks') = Len(callbacks) - 1
           /\ \A i \in Positions(callbacks') : i + 1 \in Positions(callbacks) /\ callbacks'[i] = callbacks[i + 1]
           /\ kind = "SendMessage" => callbacks[1].event \in Requested
<1>1. callbacks \in Seq(Jobs) /\ callbacks # <<>> /\ callbacks' = Tail(callbacks)
      /\ outgoing = <<>> /\ storing = <<>>
    BY DEF Run, Ready, TypeInv, TypeOK
<1>2. Head(callbacks).run = kind
    BY DEF Run
<1>3. 1 \in Positions(callbacks)
    BY <1>1, TakeFirst DEF Positions
<1>4. kind = "SendMessage" => callbacks[1].event \in Requested
    BY <1>1, <1>2, <1>3, TakeFirst DEF TypeInv, JobsAsQueued, IsSend
<1> QED BY <1>1, <1>2, <1>4, TakeFirst

\* The types hold at the start.
LEMMA TypeInit == Init => TypeInv
<1> SUFFICES ASSUME Init PROVE TypeInv
    OBVIOUS
<1>1. /\ queue \in Seq(Jobs) /\ Positions(queue) = {}
      /\ whenConnectedQueue \in Seq(Jobs) /\ Positions(whenConnectedQueue) = {}
      /\ callbacks \in Seq(Jobs) /\ Positions(callbacks) = {}
      /\ outgoing \in Seq(Messages) /\ Len(outgoing) <= 1
      /\ storing \in Seq(State) /\ Len(storing) <= 1
      /\ frames \in Seq(Messages)
    BY Empty DEF Init
<1>2. TypeOK
    BY <1>1 DEF Init, TypeOK, State
<1> QED BY <1>1, <1>2 DEF Init, TypeInv, JobsAsQueued

\* Every step keeps the types and what the queues may hold.
LEMMA TypeStep == TypeInv /\ [Next]_vars => TypeInv'
<1> SUFFICES ASSUME TypeInv, [Next]_vars PROVE TypeInv'
    OBVIOUS
<1>1. CASE OnOpen
    <2>1. frames' \in Seq(Messages)
        BY <1>1, Empty DEF OnOpen
    <2>2. /\ open' \in BOOLEAN /\ opened' \in BOOLEAN /\ helloSent' \in BOOLEAN /\ acked' \in BOOLEAN
          /\ links' \in Nat /\ state' \in State /\ known' \subseteq Players
        <3>1. state' = "Connected" /\ known' = {} /\ links' = links + 1 /\ links \in Nat
            BY <1>1 DEF OnOpen, TypeInv, TypeOK
        <3>2. open' \in BOOLEAN /\ opened' \in BOOLEAN /\ helloSent' \in BOOLEAN /\ acked' \in BOOLEAN
            BY <1>1 DEF OnOpen
        <3>3. known' \subseteq Players
            BY <3>1
        <3>4. state' \in State
            BY <3>1 DEF State
        <3> QED BY <3>1, <3>2, <3>3, <3>4
    <2>3. TypeOK'
        BY <1>1, <2>1, <2>2 DEF OnOpen, TypeInv, TypeOK, threadVars, gameVars
    <2>4. JobsAsQueued'
        BY <1>1 DEF OnOpen, TypeInv, JobsAsQueued, threadVars
    <2> QED BY <2>3, <2>4 DEF TypeInv
<1>2. CASE OnOpenQueue
    <2>1. queue' \in Seq(Jobs) /\ \A i \in Positions(queue') : queue'[i].run # "SendMessage"
        <3>1. queue \in Seq(Jobs) /\ \A i \in Positions(queue) : queue[i].run # "SendMessage"
            BY DEF TypeInv, TypeOK, JobsAsQueued
        <3>2. queue' = Append(queue, InitiateHandshakeCB) /\ InitiateHandshakeCB \in Jobs
              /\ InitiateHandshakeCB.run # "SendMessage"
            BY <1>2, JobsAre DEF OnOpenQueue
        <3> QED BY <3>1, <3>2, AppendProperties DEF Positions
    <2> QED BY <1>2, <2>1 DEF OnOpenQueue, TypeInv, TypeOK, JobsAsQueued, serviceVars, threadVars, gameVars, wsVars, apiVars
<1>3. ASSUME NEW kind \in LossKinds, OnClose(kind) \/ OnError(kind)
      PROVE  TypeInv'
    <2>1. frames' \in Seq(Messages)
        BY <1>3, Empty DEF OnClose, OnError, apiVars, TypeInv, TypeOK
    <2> QED BY <1>3, <2>1 DEF OnClose, OnError, Lost, WorthRetrying, State, TypeInv, TypeOK, JobsAsQueued, serviceVars, threadVars, gameVars, wsVars, apiVars
<1>4. CASE OnMessage
    <2>1. frames' \in Seq(Messages) /\ Head(frames) \in Messages /\ Head(frames).map \in Nat
        BY <1>4, TakeFirst, MessageFields DEF OnMessage, TypeInv, TypeOK, JobsAsQueued
    <2>2. PICK job \in Jobs : job.run # "SendMessage" /\ (queue' = queue \/ queue' = Append(queue, job))
        BY <1>4, <2>1, JobsAre DEF OnMessage, TypeInv, TypeOK, JobsAsQueued
    <2>3. queue' \in Seq(Jobs) /\ \A i \in Positions(queue') : queue'[i].run # "SendMessage"
        <3>1. queue \in Seq(Jobs) /\ \A i \in Positions(queue) : queue[i].run # "SendMessage"
            BY DEF TypeInv, TypeOK, JobsAsQueued
        <3> QED BY <2>2, <3>1, AppendProperties DEF Positions
    <2> QED BY <1>4, <2>1, <2>3 DEF OnMessage, TypeInv, TypeOK, JobsAsQueued, serviceVars, threadVars, gameVars, wsVars, apiVars
<1>5. CASE InitService \/ InitDisabled
    <2>1. CASE InitService
        <3>1. storing' = <<"Initialized">> /\ storing' \in Seq(State) /\ Len(storing') <= 1
            BY <2>1, Single DEF InitService, State
        <3> QED BY <2>1, <3>1 DEF InitService, TypeInv, TypeOK, JobsAsQueued, serviceVars, threadVars, gameVars, wsVars, apiVars
    <2>2. CASE InitDisabled
        BY <2>2 DEF InitDisabled, State, TypeInv, TypeOK, JobsAsQueued, serviceVars, threadVars, gameVars, wsVars, apiVars
    <2> QED BY <1>5, <2>1, <2>2
<1>6. CASE StoreState
    <2>1. Head(storing) \in State
        BY <1>6, TakeFirst DEF StoreState, TypeInv, TypeOK, JobsAsQueued
    <2> QED BY <1>6, <2>1 DEF StoreState, TypeInv, TypeOK, JobsAsQueued, serviceVars, threadVars, gameVars, wsVars, apiVars
<1>7. CASE SocketSend
    <2>1. Head(outgoing) \in Messages /\ Head(outgoing).players \subseteq Players
        BY <1>7, TakeFirst, MessageFields DEF SocketSend, TypeInv, TypeOK, JobsAsQueued
    <2>2. frames' \in Seq(Messages)
        <3>1. frames \in Seq(Messages)
            BY DEF TypeInv, TypeOK, JobsAsQueued
        <3>2. frames' = frames \/ frames' = Append(frames, Head(outgoing))
            BY <1>7 DEF SocketSend
        <3> QED BY <2>1, <3>1, <3>2, AppendProperties
    <2>3. known' \subseteq Players /\ helloSent' \in BOOLEAN
        BY <1>7, <2>1 DEF SocketSend, TypeInv, TypeOK, JobsAsQueued
    <2> QED BY <1>7, <2>2, <2>3 DEF SocketSend, TypeInv, TypeOK, JobsAsQueued, serviceVars, threadVars, gameVars, wsVars, apiVars
<1>8. CASE OnServerGamePostSimulate
    <2>1. /\ callbacks' = queue \/ callbacks' = queue \o whenConnectedQueue
          /\ whenConnectedQueue' = whenConnectedQueue \/ whenConnectedQueue' = <<>>
          /\ queue' = <<>>
          /\ UNCHANGED <<state, messageCallbacks, nextMessageID, mapInfo, outgoing, storing,
                         gameVars, wsVars, apiVars>>
        BY <1>8 DEF OnServerGamePostSimulate, TypeInv, TypeOK, JobsAsQueued
    <2>2. callbacks' \in Seq(Jobs) /\ \A i \in Positions(callbacks') :
              callbacks'[i].run = "SendMessage" => IsSend(callbacks'[i])
        <3>1. /\ queue \in Seq(Jobs) /\ \A i \in Positions(queue) : queue[i].run # "SendMessage"
              /\ whenConnectedQueue \in Seq(Jobs)
              /\ \A i \in Positions(whenConnectedQueue) : IsSend(whenConnectedQueue[i])
            BY DEF TypeInv, TypeOK, JobsAsQueued
        <3>2. CASE callbacks' = queue
            BY <3>1, <3>2
        <3>3. CASE callbacks' = queue \o whenConnectedQueue
            BY <3>1, <3>3, ConcatProperties DEF Positions
        <3> QED BY <2>1, <3>2, <3>3
    <2> QED BY <1>8, <2>1, <2>2, Empty DEF OnServerGamePostSimulate, TypeInv, TypeOK, JobsAsQueued, serviceVars, threadVars, gameVars, wsVars, apiVars
<1>9. CASE InitiateHandshake
    <2>1. SendMessage("hello", players, messageCallbacks) /\ Run("InitiateHandshake")
          /\ storing' = <<"HandshakeInitiated">>
        BY <1>9 DEF InitiateHandshake, TypeInv, TypeOK, JobsAsQueued
    <2>2. /\ outgoing' \in Seq(Messages) /\ Len(outgoing') <= 1
          /\ messageCallbacks' \subseteq Messages /\ nextMessageID' \in Nat
        <3>1. messageCallbacks \in SUBSET Messages /\ players \in SUBSET Players /\ "hello" \in Events
            BY DEF TypeInv, TypeOK, Events
        <3> QED BY <2>1, <3>1, SendTypes
    <2>3. storing' \in Seq(State) /\ Len(storing') <= 1
        BY <2>1, Single DEF State, TypeInv, TypeOK, JobsAsQueued
    <2> QED BY <1>9, <2>1, <2>2, <2>3, RunTypes DEF InitiateHandshake, TypeInv, TypeOK, JobsAsQueued, serviceVars, threadVars, gameVars, wsVars, apiVars
<1>10. CASE CompleteHandshake
    <2>1. Run("CompleteHandshake") /\ Head(callbacks).map \in Nat
        BY <1>10, RunTypes, JobFields DEF CompleteHandshake
    <2> QED BY <1>10, <2>1, RunTypes DEF CompleteHandshake, State, TypeInv, TypeOK, JobsAsQueued, serviceVars, threadVars, gameVars, wsVars, apiVars
<1>11. CASE RunSend
    <2> DEFINE job == callbacks[1]
    <2>1. Run("SendMessage") /\ SendMessage(job.event, job.players, messageCallbacks)
        BY <1>11, RunTypes DEF RunSend
    <2>2. job.event \in Events /\ job.players \in SUBSET Players
        BY <2>1, RunTypes, JobFields
    <2>3. /\ outgoing' \in Seq(Messages) /\ Len(outgoing') <= 1
          /\ messageCallbacks' \subseteq Messages /\ nextMessageID' \in Nat
        <3>1. messageCallbacks \in SUBSET Messages
            BY DEF TypeInv, TypeOK
        <3> HIDE DEF job
        <3> QED BY <2>1, <2>2, <3>1, SendTypes
    <2> QED BY <1>11, <2>1, <2>3, RunTypes DEF RunSend, TypeInv, TypeOK, JobsAsQueued, serviceVars, threadVars, gameVars, wsVars, apiVars
<1>12. CASE ExecuteMessageCallback
    <2> DEFINE message == callbacks[1].message
               waiting == messageCallbacks \ {message}
    <2>1. Run("ExecuteMessageCallback") /\ Head(callbacks) = callbacks[1]
        BY <1>12, RunTypes DEF ExecuteMessageCallback
    <2>2. message \in Messages /\ message.players \in SUBSET Players /\ message.map \in Nat
        BY <2>1, RunTypes, JobFields, MessageFields
    <2>3. mapInfo' \in Nat
        BY <1>12, <2>1, <2>2 DEF ExecuteMessageCallback, TypeInv, TypeOK, JobsAsQueued
    <2>4. \/ SendOrQueue("want-player-records", message.players, waiting)
          \/ messageCallbacks' = waiting /\ UNCHANGED <<whenConnectedQueue, nextMessageID, outgoing>>
        BY <1>12, <2>1 DEF ExecuteMessageCallback, TypeInv, TypeOK, JobsAsQueued
    <2>5. /\ outgoing' \in Seq(Messages) /\ Len(outgoing') <= 1
          /\ messageCallbacks' \subseteq Messages /\ nextMessageID' \in Nat
          /\ whenConnectedQueue' \in Seq(Jobs)
          /\ \A i \in Positions(whenConnectedQueue') : IsSend(whenConnectedQueue'[i])
        <3>1. waiting \in SUBSET Messages /\ outgoing = <<>> /\ "want-player-records" \in Requested
            BY <2>1, RunTypes DEF Requested, TypeInv, TypeOK
        <3>2. CASE SendOrQueue("want-player-records", message.players, waiting)
            <4> HIDE DEF waiting, message
            <4> QED BY <2>2, <3>1, <3>2, SendOrQueueTypes
        <3>3. CASE messageCallbacks' = waiting /\ UNCHANGED <<whenConnectedQueue, nextMessageID, outgoing>>
            BY <3>1, <3>3 DEF TypeInv, TypeOK, JobsAsQueued
        <3> QED BY <2>4, <3>2, <3>3
    <2> HIDE DEF message
    <2> QED BY <1>12, <2>1, <2>3, <2>5, RunTypes DEF ExecuteMessageCallback, TypeInv, TypeOK, JobsAsQueued, serviceVars, threadVars, gameVars, wsVars, apiVars
<1>13. ASSUME NEW p \in Players, OnPlayerAuthorized(p)
       PROVE  TypeInv'
    <2>1. SendOrQueue("player-join", {p}, messageCallbacks) /\ outgoing = <<>>
        BY <1>13 DEF OnPlayerAuthorized, Idle, Ready, TypeInv, TypeOK, JobsAsQueued
    <2>2. /\ outgoing' \in Seq(Messages) /\ Len(outgoing') <= 1
          /\ messageCallbacks' \subseteq Messages /\ nextMessageID' \in Nat
          /\ whenConnectedQueue' \in Seq(Jobs)
          /\ \A i \in Positions(whenConnectedQueue') : IsSend(whenConnectedQueue'[i])
        BY <2>1, SendOrQueueTypes DEF Requested, TypeInv, TypeOK, JobsAsQueued
    <2>3. players' \subseteq Players /\ skipped' \subseteq players' /\ authorized' \in Nat
        BY <1>13 DEF OnPlayerAuthorized, TypeInv, TypeOK, JobsAsQueued
    <2> QED BY <1>13, <2>2, <2>3 DEF OnPlayerAuthorized, TypeInv, TypeOK, JobsAsQueued, serviceVars, threadVars, gameVars, wsVars, apiVars
<1>14. ASSUME NEW p \in Players, OnClientDisconnect(p)
       PROVE  TypeInv'
    <2>1. outgoing = <<>> /\ SendIfCompleted("player-leave", {p})
        BY <1>14 DEF OnClientDisconnect, Idle, Ready, TypeInv, TypeOK, JobsAsQueued
    <2>2. /\ outgoing' \in Seq(Messages) /\ Len(outgoing') <= 1
          /\ messageCallbacks' \subseteq Messages /\ nextMessageID' \in Nat
        BY <2>1, SendTypes DEF SendIfCompleted, Events, TypeInv, TypeOK, JobsAsQueued
    <2> QED BY <1>14, <2>2 DEF OnClientDisconnect, TypeInv, TypeOK, JobsAsQueued, serviceVars, threadVars, gameVars, wsVars, apiVars
<1>15. CASE OnActivateServer
    <2> DEFINE m == Message("map-change", nextMessageID, {}, map + 1)
    <2>1. m \in Messages /\ map + 1 \in Nat
        <3>1. map \in Nat /\ nextMessageID \in Nat /\ "map-change" \in Events /\ {} \in SUBSET Players
            BY DEF TypeInv, TypeOK, Events
        <3>2. map + 1 \in Nat
            BY <3>1
        <3> QED BY <3>1, <3>2, MessageIs
    <2>2. <<m>> \in Seq(Messages) /\ Len(<<m>>) = 1
        BY <2>1, Single DEF TypeInv, TypeOK, JobsAsQueued
    <2>3. (messageCallbacks' = messageCallbacks \/ messageCallbacks' = messageCallbacks \cup {m})
          /\ (outgoing' = outgoing \/ outgoing' = <<m>>) /\ map' = map + 1
        BY <1>15 DEF OnActivateServer, TypeInv, TypeOK, JobsAsQueued
    <2>4. nextMessageID' \in Nat
        BY <1>15 DEF OnActivateServer, TypeInv, TypeOK, JobsAsQueued
    <2> HIDE DEF m
    <2>5. outgoing' \in Seq(Messages) /\ Len(outgoing') <= 1 /\ messageCallbacks' \subseteq Messages
        <3>1. CASE outgoing' = outgoing
            BY <2>1, <2>3, <3>1 DEF TypeInv, TypeOK
        <3>2. CASE outgoing' = <<m>>
            BY <2>1, <2>2, <2>3, <3>2 DEF TypeInv, TypeOK
        <3> QED BY <2>3, <3>1, <3>2
    <2> QED BY <1>15, <2>1, <2>3, <2>4, <2>5 DEF OnActivateServer, TypeInv, TypeOK, JobsAsQueued, serviceVars, threadVars, gameVars, wsVars, apiVars
<1>16. CASE UNCHANGED vars
    BY <1>16 DEF vars, TypeInv, TypeOK, JobsAsQueued, serviceVars, threadVars, gameVars, wsVars, apiVars
<1> QED
    BY <1>1, <1>2, <1>3, <1>4, <1>5, <1>6, <1>7, <1>8, <1>9, <1>10, <1>11, <1>12, <1>13, <1>14, <1>15, <1>16
    DEF Next, WebSocketThread, MainThread

\* At every moment the states, the queues and the messages of the connection are
\* of their types, at most one message is about to be sent, and only a player
\* who is there was left to a handshake (surf_global.h:335-420).
THEOREM TypeCorrect == Spec => []TypeOK
<1>1. TypeInv => TypeOK
    BY DEF TypeInv
<1> QED BY <1>1, TypeInit, TypeStep, PTL DEF Spec

(***************************************************************************)
(* The handshake.                                                          *)
(***************************************************************************)
Storing(s) == storing = <<s>>

\* What waits to be stored is one of three things, told apart.
LEMMA StoringIs ==
    ASSUME TypeInv
    PROVE  /\ storing = <<>> \/ Storing("Initialized") \/ Storing("HandshakeInitiated")
           /\ storing = <<>> => ~Storing("Initialized") /\ ~Storing("HandshakeInitiated")
           /\ ~(Storing("Initialized") /\ Storing("HandshakeInitiated"))
           /\ Storing("Initialized") => Head(storing) = "Initialized"
           /\ Storing("HandshakeInitiated") => Head(storing) = "HandshakeInitiated"
<1>1. storing \in {<<>>, <<"Initialized">>, <<"HandshakeInitiated">>}
    BY DEF TypeInv, JobsAsQueued
<1>2. <<"Initialized">>[1] # <<"HandshakeInitiated">>[1]
    OBVIOUS
<1> QED BY <1>1, <1>2, Single DEF Storing

\* The state stored is the one that waited.
LEMMA StoreStateIs ==
    ASSUME TypeInv, StoreState
    PROVE  /\ state' = "Initialized" \/ state' = "HandshakeInitiated"
           /\ Storing("Initialized") => state' = "Initialized"
           /\ Storing("HandshakeInitiated") => state' = "HandshakeInitiated"
           /\ Storing(state')
           /\ storing' = <<>> /\ outgoing = <<>>
BY StoringIs DEF StoreState

\* A callback that starts the handshake is in a sequence of jobs.
LEMMA InitiateIn ==
    ASSUME NEW s \in Seq(Jobs)
    PROVE  InitiateHandshakeCB \in ToSet(s) <=> \E i \in Positions(s) : s[i].run = "InitiateHandshake"
<1>1. \A x : x \in ToSet(s) <=> \E i \in Positions(s) : s[i] = x
    BY Elements
<1>2. \A i \in Positions(s) : s[i] \in Jobs
    BY Elements
<1> QED BY <1>1, <1>2, JobFields, JobsAre

Pending(s) == \E i \in Positions(s) : s[i].run = "InitiateHandshake"

\* The state Connected stays one the main thread will leave.
LEMMA ConnectedStep ==
    ASSUME TypeInv, TypeInv', Next, ConnectedIsHandled
    PROVE  ConnectedIsHandled'
<1>1. /\ InitiatePending <=> opened \/ Pending(queue) \/ Pending(callbacks)
      /\ InitiatePending' <=> opened' \/ Pending(queue') \/ Pending(callbacks')
    BY InitiateIn DEF TypeInv, TypeOK, InitiatePending, Pending
<1>2. SUFFICES ASSUME state' = "Connected"
               PROVE  opened' \/ Pending(queue') \/ Pending(callbacks') \/ storing' = <<"HandshakeInitiated">>
    BY <1>1 DEF ConnectedIsHandled
<1>3. state = "Connected" => opened \/ Pending(queue) \/ Pending(callbacks) \/ Storing("HandshakeInitiated")
    BY <1>1 DEF ConnectedIsHandled, Storing
<1> USE DEF threadVars, gameVars, serviceVars, wsVars, Storing
<1>4. CASE OnOpen
    BY <1>4 DEF OnOpen
<1>5. CASE OnOpenQueue
    <2>1. queue \in Seq(Jobs) /\ InitiateHandshakeCB \in Jobs
        BY JobsAre DEF TypeInv, TypeOK
    <2>2. queue' = Append(queue, InitiateHandshakeCB)
        BY <1>5 DEF OnOpenQueue
    <2>3. Len(queue) + 1 \in Positions(queue') /\ queue'[Len(queue) + 1] = InitiateHandshakeCB
        BY <2>1, <2>2, AppendProperties DEF Positions
    <2> QED BY <2>3, JobsAre DEF Pending
<1>6. ASSUME NEW kind \in LossKinds, OnClose(kind) \/ OnError(kind)
      PROVE  FALSE
    BY <1>2, <1>6 DEF OnClose, OnError, Lost
<1>7. CASE OnMessage
    <2>1. queue \in Seq(Jobs) /\ Head(frames) \in Messages
        BY <1>7, TakeFirst DEF OnMessage, TypeInv, TypeOK
    <2>2. /\ state' = state /\ opened' = opened /\ callbacks' = callbacks /\ storing' = storing
          /\ queue' = queue \/ \E job : queue' = Append(queue, job)
        BY <1>7 DEF OnMessage
    <2>3. Pending(queue) => Pending(queue')
        <3>1. CASE queue' = queue
            BY <3>1
        <3>2. CASE state = "HandshakeCompleted" \/ state = "HandshakeInitiated"
            BY <1>2, <2>2, <3>2
        <3>3. CASE state # "HandshakeCompleted" /\ state # "HandshakeInitiated"
            BY <1>7, <3>3 DEF OnMessage
        <3> QED BY <3>2, <3>3
    <2> QED BY <1>2, <1>3, <2>2, <2>3
<1>8. CASE InitService \/ InitDisabled \/ SocketSend
    BY <1>2, <1>3, <1>8 DEF InitService, InitDisabled, SocketSend, Idle, Ready
<1>9. CASE StoreState
    BY <1>2, <1>9, StoreStateIs
<1>10. CASE OnServerGamePostSimulate
    <2>1. /\ callbacks = <<>> /\ callbacks' = queue /\ opened' = opened /\ storing' = storing
          /\ state = "Connected"
        BY <1>2, <1>10 DEF OnServerGamePostSimulate, Idle
    <2>2. ~Pending(callbacks)
        BY <2>1, Empty DEF Pending
    <2> QED BY <1>3, <2>1, <2>2
<1>11. CASE InitiateHandshake
    BY <1>11 DEF InitiateHandshake
<1>12. CASE CompleteHandshake
    BY <1>2, <1>12 DEF CompleteHandshake
<1>13. CASE RunSend \/ ExecuteMessageCallback
    <2>1. /\ state' = state /\ opened' = opened /\ storing' = storing /\ queue' = queue
          /\ Run("SendMessage") \/ Run("ExecuteMessageCallback")
        BY <1>13 DEF RunSend, ExecuteMessageCallback
    <2>2. callbacks[1].run # "InitiateHandshake"
        BY <2>1, RunTypes
    <2>3. /\ callbacks \in Seq(Jobs) /\ callbacks # <<>> /\ callbacks' = Tail(callbacks)
        BY <2>1 DEF Run, TypeInv, TypeOK
    <2>4. Pending(callbacks) => Pending(callbacks')
        <3>1. ASSUME NEW i \in Positions(callbacks), callbacks[i].run = "InitiateHandshake"
              PROVE  i - 1 \in Positions(callbacks') /\ callbacks'[i - 1] = callbacks[i]
            BY <2>2, <2>3, <3>1, LaterIn
        <3> QED BY <3>1 DEF Pending
    <2> QED BY <1>2, <1>3, <2>1, <2>4
<1>14. ASSUME NEW p \in Players, OnPlayerAuthorized(p) \/ OnClientDisconnect(p)
       PROVE  opened' \/ Pending(queue') \/ Pending(callbacks') \/ storing' = <<"HandshakeInitiated">>
    BY <1>2, <1>3, <1>14 DEF OnPlayerAuthorized, OnClientDisconnect
<1>15. CASE OnActivateServer
    BY <1>2, <1>3, <1>15 DEF OnActivateServer
<1> QED
    BY <1>4, <1>5, <1>6, <1>7, <1>8, <1>9, <1>10, <1>11, <1>12, <1>13, <1>14, <1>15
    DEF Next, WebSocketThread, MainThread

\* The link stays down when the service has given up.
LEMMA GivesUpStep ==
    ASSUME TypeInv, Next, GivesUpForGood, HelloNamesAll
    PROVE  GivesUpForGood'
<1> USE DEF GivesUpForGood, threadVars, gameVars, serviceVars, wsVars
<1>1. CASE OnOpen \/ OnOpenQueue \/ OnMessage
    BY <1>1 DEF OnOpen, OnOpenQueue, OnMessage
<1>2. ASSUME NEW kind \in LossKinds, OnClose(kind) \/ OnError(kind)
      PROVE  GivesUpForGood'
    BY <1>2 DEF OnClose, OnError, Lost
<1>3. CASE InitService \/ InitDisabled
    BY <1>3 DEF InitService, InitDisabled, HelloNamesAll
<1>4. CASE StoreState
    BY <1>4, StoreStateIs
<1>5. CASE SocketSend \/ OnServerGamePostSimulate
    BY <1>5 DEF SocketSend, OnServerGamePostSimulate
<1>6. CASE InitiateHandshake \/ CompleteHandshake \/ RunSend \/ ExecuteMessageCallback
    BY <1>6 DEF InitiateHandshake, CompleteHandshake, RunSend, ExecuteMessageCallback
<1>7. ASSUME NEW p \in Players, OnPlayerAuthorized(p) \/ OnClientDisconnect(p)
      PROVE  GivesUpForGood'
    BY <1>7 DEF OnPlayerAuthorized, OnClientDisconnect
<1>8. CASE OnActivateServer
    BY <1>8 DEF OnActivateServer
<1> QED
    BY <1>1, <1>2, <1>3, <1>4, <1>5, <1>6, <1>7, <1>8 DEF Next, WebSocketThread, MainThread

\* What sending leaves to be sent.
LEMMA SendIs ==
    ASSUME TypeInv, outgoing = <<>>, NEW event \in Events, NEW who \in SUBSET Players, NEW waiting,
           SendMessage(event, who, waiting)
    PROVE  \/ outgoing' = outgoing
           \/ /\ outgoing' = <<Message(event, nextMessageID, who, map)>>
              /\ outgoing'[1].event = event /\ outgoing'[1].players = who
<1>1. nextMessageID \in Nat /\ map \in Nat
    BY DEF TypeInv, TypeOK
<1> DEFINE m == Message(event, nextMessageID, who, map)
<1>2. m.event = event /\ m.players = who
    BY <1>1, MessageIs
<1>3. outgoing' = outgoing \/ outgoing' = <<m>>
    BY DEF SendMessage
<1> HIDE DEF m
<1>4. <<m>>[1] = m
    BY Single
<1>5. CASE outgoing' = <<m>>
    <2>1. outgoing'[1] = m
        BY <1>4, <1>5
    <2> QED BY <1>2, <1>5, <2>1 DEF m
<1> QED BY <1>3, <1>5

\* What is about to be sent, and a hello or a leave in particular.
ToSend(event) == outgoing # <<>> /\ outgoing[1].event = event

\* A hello names all the players that were skipped, whoever comes and goes.
LEMMA HelloStep ==
    ASSUME TypeInv, Next, HelloNamesAll
    PROVE  HelloNamesAll'
<1>1. /\ ToSend("hello") => Storing("HandshakeInitiated") /\ skipped \subseteq outgoing[1].players
      /\ ToSend("player-leave") => skipped \cap outgoing[1].players = {}
      /\ open /\ helloSent => skipped \subseteq known /\ (InHandshake \/ Storing("HandshakeInitiated"))
      /\ Storing("Initialized") => ~helloSent
      /\ open \/ helloSent => started
    BY DEF HelloNamesAll, ToSend, Storing
<1>2. SUFFICES
      /\ ToSend("hello")' => Storing("HandshakeInitiated")' /\ (skipped \subseteq outgoing[1].players)'
      /\ ToSend("player-leave")' => (skipped \cap outgoing[1].players = {})'
      /\ (open /\ helloSent)' => (skipped \subseteq known /\ (InHandshake \/ Storing("HandshakeInitiated")))'
      /\ Storing("Initialized")' => ~helloSent'
      /\ (open \/ helloSent)' => started'
    BY DEF HelloNamesAll, ToSend, Storing
<1> DEFINE Kept == /\ UNCHANGED <<outgoing, storing, skipped, known, helloSent, open, started>>
                   /\ InHandshake => InHandshake'
<1>3. ASSUME Kept PROVE HelloNamesAll'
    BY <1>3 DEF HelloNamesAll
<1> HIDE DEF Kept
<1> USE DEF threadVars, gameVars, serviceVars, wsVars, apiVars
<1>4. CASE OnOpen
    BY <1>1, <1>4 DEF OnOpen, ToSend, Storing
<1>5. CASE OnOpenQueue \/ OnMessage \/ OnServerGamePostSimulate \/ CompleteHandshake
    <2>1. Kept
        BY <1>5 DEF OnOpenQueue, OnMessage, OnServerGamePostSimulate, CompleteHandshake, Kept, InHandshake
    <2> QED BY <1>3, <2>1 DEF HelloNamesAll, ToSend, Storing
<1>6. ASSUME NEW kind \in LossKinds, OnClose(kind) \/ OnError(kind)
      PROVE  HelloNamesAll'
    BY <1>6 DEF OnClose, OnError, Lost, HelloNamesAll
<1>7. CASE InitService
    BY <1>1, <1>7 DEF InitService, Idle, Ready, ToSend, Storing
<1>8. CASE InitDisabled
    <2>1. ~started /\ ~open /\ ~helloSent
        BY <1>1, <1>8 DEF InitDisabled
    <2> QED BY <1>1, <1>8, <2>1 DEF InitDisabled, ToSend, Storing
<1>9. CASE StoreState
    <2>1. /\ UNCHANGED <<skipped, known, helloSent, open, started, outgoing>> /\ outgoing = <<>> /\ storing' = <<>>
        BY <1>9 DEF StoreState
    <2>2. ~Storing("Initialized")' /\ ~ToSend("hello")' /\ ~ToSend("player-leave")'
        BY <2>1 DEF Storing, ToSend
    <2>3. open /\ helloSent => InHandshake'
        <3>1. ASSUME open, helloSent
              PROVE  state' = "HandshakeInitiated"
            BY <1>1, <1>9, <3>1, StoreStateIs
        <3> QED BY <3>1 DEF InHandshake
    <2> QED BY <1>1, <2>1, <2>2, <2>3
<1>10. CASE SocketSend
    <2>1. /\ outgoing # <<>> /\ outgoing' = <<>> /\ UNCHANGED <<state, storing, skipped, open, started>>
          /\ Head(outgoing) = outgoing[1]
        BY <1>10, TakeFirst DEF SocketSend, TypeInv, TypeOK
    <2>2. ~ToSend("hello")' /\ ~ToSend("player-leave")'
        BY <2>1 DEF ToSend
    <2>3. CASE ~open
        BY <1>1, <1>10, <2>1, <2>2, <2>3 DEF SocketSend, Storing
    <2>4. CASE open
        <3> DEFINE message == outgoing[1]
        <3>1. /\ helloSent' = (helloSent \/ message.event = "hello")
              /\ known' = CASE message.event \in {"hello", "player-join"} -> known \cup message.players
                            [] message.event = "player-leave" -> known \ message.players
                            [] OTHER -> known
            BY <1>10, <2>1, <2>4 DEF SocketSend
        <3>2. CASE message.event = "hello"
            <4>1. known' = known \cup message.players
                BY <3>1, <3>2
            <4>2. Storing("HandshakeInitiated") /\ skipped \subseteq message.players /\ ~Storing("Initialized")
                BY <1>1, <2>1, <3>2, StoringIs DEF ToSend
            <4>3. Storing("HandshakeInitiated")' /\ ~Storing("Initialized")'
                BY <2>1, <4>2 DEF Storing
            <4> QED BY <1>1, <2>1, <2>2, <2>4, <4>1, <4>2, <4>3
        <3>3. CASE message.event # "hello"
            <4>1. skipped \subseteq known => skipped \subseteq known'
                <5>1. CASE message.event = "player-leave"
                    <6>1. known' = known \ message.players
                        BY <3>1, <5>1
                    <6> QED BY <1>1, <2>1, <5>1, <6>1 DEF ToSend
                <5>2. CASE message.event = "player-join"
                    BY <3>1, <5>2
                <5>3. CASE message.event \notin {"hello", "player-join", "player-leave"}
                    BY <3>1, <5>3
                <5> QED BY <3>3, <5>1, <5>2, <5>3
            <4>2. helloSent' = helloSent
                BY <3>1, <3>3 DEF TypeInv, TypeOK
            <4>3. InHandshake' = InHandshake /\ Storing("HandshakeInitiated")' = Storing("HandshakeInitiated")
                  /\ Storing("Initialized")' = Storing("Initialized")
                BY <2>1 DEF InHandshake, Storing
            <4> QED BY <1>1, <2>1, <2>2, <4>1, <4>2, <4>3
        <3> QED BY <3>2, <3>3
    <2> QED BY <2>3, <2>4
<1>11. CASE InitiateHandshake
    <2>1. /\ Run("InitiateHandshake") /\ SendMessage("hello", players, messageCallbacks)
          /\ storing' = <<"HandshakeInitiated">>
          /\ UNCHANGED <<skipped, known, helloSent, open, started, state>>
        BY <1>11 DEF InitiateHandshake
    <2>2. outgoing = <<>> /\ storing = <<>>
        BY <2>1, RunTypes
    <2>3. outgoing' = <<>> \/ (outgoing'[1].event = "hello" /\ outgoing'[1].players = players)
        <3>1. "hello" \in Events /\ players \in SUBSET Players
            BY DEF Events, TypeInv, TypeOK
        <3> QED BY <2>1, <2>2, <3>1, SendIs
    <2>4. Storing("HandshakeInitiated")' /\ ~Storing("Initialized")'
        BY <2>1 DEF Storing
    <2>5. skipped \subseteq players
        BY DEF TypeInv, TypeOK
    <2> QED BY <1>1, <2>1, <2>3, <2>4, <2>5 DEF ToSend
<1>12. ASSUME UNCHANGED <<storing, known, helloSent, open, started, state>>,
              skipped' \subseteq skipped \/ (skipped' \subseteq players' /\ ~(open /\ helloSent)),
              outgoing = <<>>, storing = <<>>,
              \/ outgoing' = <<>>
              \/ outgoing'[1].event \notin {"hello", "player-leave"}
              \/ outgoing'[1].event = "player-leave" /\ skipped' \cap outgoing'[1].players = {}
       PROVE  HelloNamesAll'
    <2>1. ~Storing("Initialized")' /\ InHandshake' = InHandshake
        BY <1>12, StoringIs DEF Storing, InHandshake
    <2>2. ~ToSend("hello")' /\ (ToSend("player-leave")' => (skipped \cap outgoing[1].players = {})')
        BY <1>12 DEF ToSend
    <2>3. (open /\ helloSent)' => (skipped \subseteq known /\ InHandshake)'
        BY <1>1, <1>12, <2>1, StoringIs
    <2> QED BY <1>1, <1>12, <2>1, <2>2, <2>3 DEF HelloNamesAll, ToSend, Storing
<1>13. CASE RunSend
    <2>1. /\ Run("SendMessage") /\ SendMessage(callbacks[1].event, callbacks[1].players, messageCallbacks)
          /\ UNCHANGED <<storing, skipped, known, helloSent, open, started, state>>
        BY <1>13, RunTypes DEF RunSend
    <2>2. /\ outgoing = <<>> /\ storing = <<>> /\ callbacks[1].event \in Requested
          /\ callbacks[1].event \in Events /\ callbacks[1].players \in SUBSET Players
        BY <2>1, RunTypes, JobFields
    <2>3. outgoing' = <<>> \/ outgoing'[1].event \in Requested
        BY <2>1, <2>2, SendIs
    <2> QED BY <1>12, <2>1, <2>2, <2>3 DEF Requested, HelloNamesAll, ToSend, Storing
<1>14. CASE ExecuteMessageCallback
    <2>1. /\ Run("ExecuteMessageCallback") /\ Head(callbacks) = callbacks[1]
          /\ UNCHANGED <<storing, skipped, known, helloSent, open, started, state>>
        BY <1>14, RunTypes DEF ExecuteMessageCallback
    <2>2. /\ outgoing = <<>> /\ storing = <<>> /\ callbacks[1].message.players \in SUBSET Players
        BY <2>1, RunTypes, JobFields, MessageFields
    <2>3. outgoing' = <<>> \/ outgoing'[1].event = "want-player-records"
        <3>1. \/ outgoing' = outgoing
              \/ \E waiting : SendMessage("want-player-records", callbacks[1].message.players, waiting)
            BY <1>14, <2>1 DEF ExecuteMessageCallback, SendOrQueue
        <3> QED BY <2>2, <3>1, SendIs DEF Events
    <2> QED BY <1>12, <2>1, <2>2, <2>3 DEF HelloNamesAll, ToSend, Storing
<1>15. ASSUME NEW p \in Players, OnPlayerAuthorized(p)
       PROVE  HelloNamesAll'
    <2>1. /\ outgoing = <<>> /\ storing = <<>>
          /\ UNCHANGED <<storing, known, helloSent, open, started, state>>
        BY <1>15 DEF OnPlayerAuthorized, Idle, Ready
    <2>2. outgoing' = <<>> \/ outgoing'[1].event = "player-join"
        <3>1. outgoing' = outgoing \/ SendMessage("player-join", {p}, messageCallbacks)
            BY <1>15 DEF OnPlayerAuthorized, SendOrQueue
        <3> QED BY <2>1, <3>1, SendIs DEF Events
    <2>3. skipped' = skipped \/ (skipped' = skipped \cup {p} /\ players' = players \cup {p} /\ ~InHandshake)
        BY <1>15 DEF OnPlayerAuthorized, InHandshake
    <2>4. ~InHandshake => ~(open /\ helloSent)
        BY <1>1, <2>1, StoringIs
    <2>5. skipped' \subseteq skipped \/ (skipped' \subseteq players' /\ ~(open /\ helloSent))
        BY <2>3, <2>4 DEF TypeInv, TypeOK
    <2> QED BY <1>12, <2>1, <2>2, <2>5 DEF HelloNamesAll, ToSend, Storing
<1>16. ASSUME NEW p \in Players, OnClientDisconnect(p)
       PROVE  HelloNamesAll'
    <2>1. /\ outgoing = <<>> /\ storing = <<>> /\ skipped' = skipped \ {p}
          /\ UNCHANGED <<storing, known, helloSent, open, started, state>>
        BY <1>16 DEF OnClientDisconnect, Idle, Ready
    <2>2. \/ outgoing' = <<>>
          \/ outgoing'[1].event = "player-leave" /\ outgoing'[1].players = {p}
        <3>1. outgoing' = outgoing \/ SendMessage("player-leave", {p}, messageCallbacks)
            BY <1>16 DEF OnClientDisconnect, SendIfCompleted
        <3>2. "player-leave" \in Events /\ {p} \in SUBSET Players
            BY DEF Events
        <3> QED BY <2>1, <3>1, <3>2, SendIs
    <2>3. outgoing' = <<>> \/ (outgoing'[1].event = "player-leave" /\ skipped' \cap outgoing'[1].players = {})
        BY <2>1, <2>2
    <2>4. skipped' \subseteq skipped
        BY <2>1
    <2> QED BY <1>12, <2>1, <2>3, <2>4 DEF HelloNamesAll, ToSend, Storing
<1>17. CASE OnActivateServer
    <2> DEFINE m == Message("map-change", nextMessageID, {}, map + 1)
    <2>1. /\ outgoing = <<>> /\ storing = <<>>
          /\ UNCHANGED <<storing, skipped, known, helloSent, open, started, state>>
          /\ outgoing' = outgoing \/ outgoing' = <<m>>
        BY <1>17 DEF OnActivateServer, Idle, Ready
    <2>2. m.event = "map-change" /\ <<m>>[1] = m
        BY Single DEF Message
    <2> HIDE DEF m
    <2>3. outgoing' = <<>> \/ outgoing'[1].event = "map-change"
        BY <2>1, <2>2
    <2> QED BY <1>12, <2>1, <2>3 DEF HelloNamesAll, ToSend, Storing
<1> QED
    BY <1>4, <1>5, <1>6, <1>7, <1>8, <1>9, <1>10, <1>11, <1>13, <1>14, <1>15, <1>16, <1>17
    DEF Next, WebSocketThread, MainThread, HelloNamesAll, ToSend, Storing

\* Where the callbacks of the main thread come from.
LEMMA JobsFrom ==
    ASSUME TypeInv, Next
    PROVE  /\ \A i \in Positions(callbacks') :
                 \/ \E k \in Positions(callbacks) : callbacks'[i] = callbacks[k]
                 \/ \E k \in Positions(queue) : callbacks'[i] = queue[k]
                 \/ callbacks'[i].run = "SendMessage"
           /\ \/ \A i \in Positions(queue') : \E k \in Positions(queue) : queue'[i] = queue[k]
              \/ OnOpenQueue
              \/ OnMessage
<1> DEFINE Same(s, t) == \A i \in Positions(t) : \E k \in Positions(s) : t[i] = s[k]
<1>1. Positions(<<>>) = {}
    BY Empty
<1>2. CASE callbacks' = callbacks
    <2>1. queue' = queue \/ OnOpenQueue \/ OnMessage \/ OnServerGamePostSimulate
        BY DEF Next, WebSocketThread, MainThread, OnOpen, OnClose, OnError, Lost, InitService, InitDisabled,
            StoreState, SocketSend, OnServerGamePostSimulate, InitiateHandshake, CompleteHandshake, RunSend,
            ExecuteMessageCallback, OnPlayerAuthorized, OnClientDisconnect, OnActivateServer, serviceVars
    <2>2. CASE OnServerGamePostSimulate
        <3>1. queue' = <<>>
            BY <2>2 DEF OnServerGamePostSimulate
        <3> QED BY <1>1, <1>2, <3>1
    <2> QED BY <1>2, <2>1, <2>2
<1>3. ASSUME NEW kind, Run(kind), queue' = queue
      PROVE  Same(callbacks, callbacks') /\ Same(queue, queue')
    BY <1>3, RunTypes
<1>4. CASE InitiateHandshake \/ CompleteHandshake \/ RunSend \/ ExecuteMessageCallback
    <2>1. \E kind : Run(kind) /\ queue' = queue
        BY <1>4 DEF InitiateHandshake, CompleteHandshake, RunSend, ExecuteMessageCallback
    <2> QED BY <1>3, <2>1
<1>5. CASE OnServerGamePostSimulate
    <2>1. /\ queue \in Seq(Jobs) /\ whenConnectedQueue \in Seq(Jobs)
          /\ \A i \in Positions(whenConnectedQueue) : whenConnectedQueue[i].run = "SendMessage"
        BY DEF TypeInv, TypeOK, JobsAsQueued, IsSend
    <2>2. queue' = <<>> /\ (callbacks' = queue \/ callbacks' = queue \o whenConnectedQueue)
        BY <1>5 DEF OnServerGamePostSimulate
    <2>3. CASE callbacks' = queue
        BY <1>1, <2>2, <2>3
    <2>4. CASE callbacks' = queue \o whenConnectedQueue
        <3>1. \A i \in Positions(callbacks') :
                 \/ \E k \in Positions(queue) : callbacks'[i] = queue[k]
                 \/ callbacks'[i].run = "SendMessage"
            BY <2>1, <2>4, ConcatProperties DEF Positions
        <3> QED BY <1>1, <2>2, <3>1
    <2> QED BY <2>2, <2>3, <2>4
<1>6. callbacks' = callbacks \/ OnServerGamePostSimulate \/ InitiateHandshake \/ CompleteHandshake
      \/ RunSend \/ ExecuteMessageCallback
    BY DEF Next, WebSocketThread, MainThread, OnOpen, OnOpenQueue, OnMessage, OnClose, OnError, Lost,
        InitService, InitDisabled, StoreState, SocketSend, OnPlayerAuthorized, OnClientDisconnect,
        OnActivateServer, threadVars
<1> QED BY <1>2, <1>4, <1>5, <1>6

\* What AnswersAHello says of a job after the step.
AnswersThen(job) ==
    job.run = "CompleteHandshake" => job.link <= links' /\ (job.link = links' => helloSent')

\* A hello was received on the link whose acknowledgement is under way.
LEMMA AcksStep ==
    ASSUME TypeInv, TypeInv', Next, AcksFollowHello
    PROVE  AcksFollowHello'
<1> USE DEF threadVars, gameVars, serviceVars, wsVars, apiVars
<1>1. ASSUME links' = links, helloSent => helloSent',
             \/ \A i \in Positions(queue') : \E k \in Positions(queue) : queue'[i] = queue[k]
             \/ \A i \in Positions(queue') : AnswersThen(queue'[i]),
             \A i \in Positions(frames') : frames'[i].event = "hello" => helloSent',
             acked' => helloSent'
      PROVE  AcksFollowHello'
    <2>1. \A job : AnswersAHello(job) => AnswersThen(job)
        BY <1>1 DEF AnswersAHello, AnswersThen
    <2>2. \A i \in Positions(queue') : AnswersThen(queue'[i])
        BY <1>1, <2>1 DEF AcksFollowHello, AnswersAHello, AnswersThen
    <2>3. \A i \in Positions(callbacks') : AnswersThen(callbacks'[i])
        BY <2>1, JobsFrom DEF AcksFollowHello, AnswersAHello, AnswersThen
    <2> QED BY <1>1, <2>2, <2>3 DEF AcksFollowHello, AnswersAHello, AnswersThen
<1>2. CASE OnOpen
    <2>1. /\ links' = links + 1 /\ frames' = <<>> /\ ~acked' /\ queue' = queue /\ callbacks' = callbacks
          /\ links \in Nat
        BY <1>2 DEF OnOpen, TypeInv, TypeOK
    <2>2. Positions(frames') = {}
        BY <2>1, Empty
    <2>3. \A job \in Jobs : AnswersAHello(job) => AnswersThen(job)
        BY <2>1, JobFields DEF AnswersAHello, AnswersThen
    <2>4. /\ \A i \in Positions(queue) : queue[i] \in Jobs
          /\ \A i \in Positions(callbacks) : callbacks[i] \in Jobs
        BY Elements DEF TypeInv, TypeOK
    <2> QED BY <2>1, <2>2, <2>3, <2>4 DEF AcksFollowHello, AnswersAHello, AnswersThen
<1>3. CASE OnOpenQueue
    <2>1. queue \in Seq(Jobs) /\ queue' = Append(queue, InitiateHandshakeCB)
          /\ UNCHANGED <<links, helloSent, frames, acked>>
        BY <1>3 DEF OnOpenQueue, TypeInv, TypeOK
    <2>2. AnswersAHello(InitiateHandshakeCB)
        BY JobsAre DEF AnswersAHello, AnswersThen
    <2>3. \A i \in Positions(queue') : queue'[i] = InitiateHandshakeCB \/ \E k \in Positions(queue) : queue'[i] = queue[k]
        BY <2>1, JobsAre, AppendProperties DEF Positions
    <2>4. \A job : AnswersAHello(job) => AnswersThen(job)
        BY <2>1 DEF AnswersAHello, AnswersThen
    <2>5. \A i \in Positions(queue') : AnswersThen(queue'[i])
        BY <2>2, <2>3, <2>4 DEF AcksFollowHello, AnswersAHello, AnswersThen
    <2> QED BY <1>1, <2>1, <2>5 DEF AcksFollowHello, AnswersAHello, AnswersThen
<1>4. ASSUME NEW kind \in LossKinds, OnClose(kind) \/ OnError(kind)
      PROVE  AcksFollowHello'
    <2>1. /\ UNCHANGED <<links, helloSent, acked, queue>> /\ (frames' = frames \/ frames' = <<>>)
        BY <1>4 DEF OnClose, OnError, Lost
    <2>2. \A i \in Positions(frames') : frames'[i].event = "hello" => helloSent'
        BY <2>1, Empty DEF AcksFollowHello, AnswersAHello, AnswersThen
    <2> QED BY <1>1, <2>1, <2>2 DEF AcksFollowHello, AnswersAHello, AnswersThen
<1>5. CASE OnMessage
    <2>1. /\ frames \in Seq(Messages) /\ frames # <<>> /\ frames' = Tail(frames) /\ Head(frames) = frames[1]
          /\ 1 \in Positions(frames) /\ frames[1] \in Messages /\ frames[1].map \in Nat
          /\ UNCHANGED <<links, helloSent, acked>> /\ queue \in Seq(Jobs) /\ links \in Nat
        <3>1. frames \in Seq(Messages) /\ frames # <<>>
            BY <1>5 DEF OnMessage, TypeInv, TypeOK
        <3>2. 1 \in Positions(frames) /\ frames[1] \in Messages /\ Head(frames) = frames[1]
            BY <3>1, TakeFirst DEF Positions
        <3>3. frames[1].map \in Nat
            BY <3>2, MessageFields
        <3> QED BY <1>5, <3>1, <3>2, <3>3 DEF OnMessage, TypeInv, TypeOK
    <2>2. \A i \in Positions(frames') : frames'[i].event = "hello" => helloSent'
        BY <2>1, TakeFirst DEF AcksFollowHello, AnswersAHello, AnswersThen
    <2>3. \A job : AnswersAHello(job) => AnswersThen(job)
        BY <2>1 DEF AnswersAHello, AnswersThen
    <2>4. PICK job \in Jobs : AnswersAHello(job) /\ (queue' = queue \/ queue' = Append(queue, job))
        <3>1. CASE state = "HandshakeInitiated" /\ frames[1].event = "hello"
            <4>1. helloSent
                BY <2>1, <3>1 DEF AcksFollowHello, AnswersAHello, AnswersThen
            <4>2. queue' = Append(queue, CompleteHandshakeCB(frames[1].map, links))
                BY <1>5, <2>1, <3>1 DEF OnMessage
            <4>3. /\ CompleteHandshakeCB(frames[1].map, links) \in Jobs
                  /\ CompleteHandshakeCB(frames[1].map, links).link = links
                BY <2>1, JobsAre
            <4> QED BY <2>1, <4>1, <4>2, <4>3 DEF AnswersAHello
        <3>2. CASE ~(state = "HandshakeInitiated" /\ frames[1].event = "hello")
            <4>1. queue' = queue \/ queue' = Append(queue, ExecuteCB(frames[1]))
                BY <1>5, <2>1, <3>2 DEF OnMessage
            <4>2. ExecuteCB(frames[1]) \in Jobs /\ ExecuteCB(frames[1]).run = "ExecuteMessageCallback"
                BY <2>1, JobsAre
            <4> QED BY <4>1, <4>2 DEF AnswersAHello
        <3> QED BY <3>1, <3>2
    <2>5. \A i \in Positions(queue') : queue'[i] = job \/ \E k \in Positions(queue) : queue'[i] = queue[k]
        BY <2>1, <2>4, AppendProperties DEF Positions
    <2>6. \A i \in Positions(queue') : AnswersThen(queue'[i])
        BY <2>3, <2>4, <2>5 DEF AcksFollowHello, AnswersAHello, AnswersThen
    <2> QED BY <1>1, <2>1, <2>2, <2>6 DEF AcksFollowHello, AnswersAHello, AnswersThen
<1>6. CASE SocketSend
    <2>1. /\ frames \in Seq(Messages) /\ outgoing[1] \in Messages /\ Head(outgoing) = outgoing[1]
          /\ UNCHANGED <<links, acked, queue>> /\ helloSent \in BOOLEAN
        BY <1>6, TakeFirst DEF SocketSend, TypeInv, TypeOK
    <2>2. \/ frames' = frames
          \/ frames' = Append(frames, outgoing[1]) /\ (outgoing[1].event = "hello" => helloSent')
        BY <1>6, <2>1 DEF SocketSend
    <2>3. helloSent => helloSent'
        BY <1>6, <2>1 DEF SocketSend
    <2>4. CASE frames' = frames
        BY <1>1, <2>1, <2>3, <2>4 DEF AcksFollowHello, AnswersAHello, AnswersThen
    <2>5. CASE frames' = Append(frames, outgoing[1]) /\ (outgoing[1].event = "hello" => helloSent')
        <3>1. \A i \in Positions(frames') : frames'[i] = outgoing[1] \/ \E k \in Positions(frames) : frames'[i] = frames[k]
            BY <2>1, <2>5, AppendProperties DEF Positions
        <3>2. \A i \in Positions(frames') : frames'[i].event = "hello" => helloSent'
            BY <2>3, <2>5, <3>1 DEF AcksFollowHello, AnswersAHello, AnswersThen
        <3> QED BY <1>1, <2>1, <2>3, <3>2 DEF AcksFollowHello
    <2> QED BY <2>2, <2>4, <2>5
<1>7. CASE CompleteHandshake
    <2>1. /\ Run("CompleteHandshake") /\ callbacks[1].run = "CompleteHandshake" /\ Head(callbacks) = callbacks[1]
          /\ 1 \in Positions(callbacks)
        BY <1>7, RunTypes DEF CompleteHandshake, Positions
    <2>2. acked' => acked \/ callbacks[1].link = links
        BY <1>7, <2>1 DEF CompleteHandshake
    <2>3. UNCHANGED <<links, helloSent, frames, queue>>
        BY <1>7 DEF CompleteHandshake
    <2>4. acked' => helloSent'
        BY <2>1, <2>2, <2>3 DEF AcksFollowHello, AnswersAHello, AnswersThen
    <2> QED BY <1>1, <2>3, <2>4 DEF AcksFollowHello, AnswersAHello, AnswersThen
<1>8. ASSUME UNCHANGED <<links, helloSent, frames, acked>>,
             \A i \in Positions(queue') : \E k \in Positions(queue) : queue'[i] = queue[k]
      PROVE  AcksFollowHello'
    BY <1>1, <1>8 DEF AcksFollowHello, AnswersAHello, AnswersThen
<1>9. CASE InitService \/ InitDisabled \/ StoreState \/ OnServerGamePostSimulate \/ InitiateHandshake
           \/ RunSend \/ ExecuteMessageCallback \/ OnActivateServer
           \/ \E p \in Players : OnPlayerAuthorized(p) \/ OnClientDisconnect(p)
    <2>1. UNCHANGED <<links, helloSent, frames, acked>> /\ (queue' = queue \/ queue' = <<>>)
        BY <1>9 DEF InitService, InitDisabled, StoreState, OnServerGamePostSimulate, InitiateHandshake,
            RunSend, ExecuteMessageCallback, OnActivateServer, OnPlayerAuthorized, OnClientDisconnect
    <2>2. \A i \in Positions(queue') : \E k \in Positions(queue) : queue'[i] = queue[k]
        BY <2>1, Empty
    <2> QED BY <1>8, <2>1, <2>2
<1> QED
    BY <1>2, <1>3, <1>4, <1>5, <1>6, <1>7, <1>9 DEF Next, WebSocketThread, MainThread

\* The handshake's invariant holds at the start.
LEMMA HandshakeInit == Init => HandshakeInv
<1> SUFFICES ASSUME Init PROVE HandshakeInv
    OBVIOUS
<1>1. Positions(frames) = {} /\ Positions(queue) = {} /\ Positions(callbacks) = {}
    BY Empty DEF Init
<1>2. AcksFollowHello
    BY <1>1 DEF Init, AcksFollowHello
<1>3. HelloNamesAll
    BY StoringIs, TypeInit DEF Init, HelloNamesAll, Storing
<1> QED BY <1>2, <1>3 DEF Init, HandshakeInv, ConnectedIsHandled, GivesUpForGood

\* Every step keeps the handshake's invariant.
LEMMA HandshakeStep == TypeInv /\ TypeInv' /\ HandshakeInv /\ [Next]_vars => HandshakeInv'
<1> SUFFICES ASSUME TypeInv, TypeInv', HandshakeInv, [Next]_vars PROVE HandshakeInv'
    OBVIOUS
<1>1. CASE Next
    BY <1>1, ConnectedStep, GivesUpStep, HelloStep, AcksStep DEF HandshakeInv
<1>2. CASE UNCHANGED vars
    BY <1>2 DEF vars, serviceVars, threadVars, gameVars, wsVars, apiVars, HandshakeInv, ConnectedIsHandled,
        InitiatePending, GivesUpForGood, HelloNamesAll, InHandshake, AcksFollowHello, AnswersAHello
<1> QED BY <1>1, <1>2

\* The handshake's invariant, at every moment.
LEMMA HandshakeAlways == Spec => [](TypeInv /\ HandshakeInv)
<1>1. Init => TypeInv /\ HandshakeInv
    BY TypeInit, HandshakeInit
<1>2. TypeInv /\ HandshakeInv /\ [Next]_vars => (TypeInv /\ HandshakeInv)'
    BY TypeStep, HandshakeStep
<1> QED BY <1>1, <1>2, PTL DEF Spec

\* Whenever the state says Connected, the handshake is queued, about to be, or
\* its state is about to be stored, however links open, fail and are lost
\* while the main thread works (surf_global.cpp:417-440, 549-567).
THEOREM ConnectedGetsHandled == Spec => []ConnectedIsHandled
<1>1. HandshakeInv => ConnectedIsHandled
    BY DEF HandshakeInv
<1> QED BY <1>1, HandshakeAlways, PTL

\* The service says Disconnected only of a link that is down and that the
\* library was told not to open again (surf_global.cpp:442-536).
THEOREM GivenUpStaysDown == Spec => []GivesUpForGood
<1>1. HandshakeInv => GivesUpForGood
    BY DEF HandshakeInv
<1> QED BY <1>1, HandshakeAlways, PTL

\* Whoever was authorized while no handshake was on, and is still there, has
\* been named to the API by the time a handshake is completed on the open link:
\* the hello names every player of its moment, nobody is skipped between it and
\* the loss of its link, and only the answer to a hello of this very link counts
\* (surf_global.cpp:258-300, 549-600).
THEOREM SkippedGetAnnounced == Spec => []SkippedAreAnnounced
<1>1. HandshakeInv => SkippedAreAnnounced
    BY DEF HandshakeInv, HelloNamesAll, AcksFollowHello, SkippedAreAnnounced
<1> QED BY <1>1, HandshakeAlways, PTL

\* What the state says of the connection is true in each of its values.
THEOREM StatesAreTrue == Spec => []StateIsTrue
<1>1. ConnectedIsHandled /\ GivesUpForGood /\ SkippedAreAnnounced => StateIsTrue
    BY DEF StateIsTrue
<1> QED BY <1>1, ConnectedGetsHandled, GivenUpStaysDown, SkippedGetAnnounced, PTL

(***************************************************************************)
(* The order of what is under way.                                         *)
(***************************************************************************)
\* A job and the frame it was made of come after and before the same.
Carries(job, f) ==
    /\ Tells(job) => MapOf(job) = f.map
    /\ Answers(job) => job.message = f

\* What a job that takes a frame's place is before and after.
LEMMA CarriedOrder ==
    ASSUME NEW job \in Jobs, NEW f \in Messages, Carries(job, f)
    PROVE  /\ \A j : JobBeforeFrame(j, f) => JobBefore(j, job)
           /\ \A g : FrameBefore(f, g) => JobBeforeFrame(job, g)
<1>1. Answers(job) => Tells(job)
    BY DEF Answers, Tells
<1> QED BY <1>1 DEF Carries, JobBeforeFrame, JobBefore, FrameBefore

\* A job that tells of nothing is before and after everything.
LEMMA SilentOrder ==
    ASSUME NEW job, ~Tells(job)
    PROVE  /\ \A j : JobBefore(j, job) /\ JobBefore(job, j)
           /\ \A f : JobBeforeFrame(job, f)
BY DEF JobBefore, JobBeforeFrame, Tells, Answers

\* The message taken off the link and the job made of it.
LEMMA OnMessageIs ==
    ASSUME TypeInv, OnMessage
    PROVE  /\ frames \in Seq(Messages) /\ frames # <<>> /\ frames' = Tail(frames) /\ queue \in Seq(Jobs)
           /\ 1 \in Positions(frames) /\ frames[1] \in Messages
           /\ callbacks' = callbacks
           /\ \/ queue' = queue
              \/ \E job \in Jobs : /\ Carries(job, frames[1]) /\ queue' = Append(queue, job)
                                   /\ job.run \in {"CompleteHandshake", "ExecuteMessageCallback"}
<1>1. frames \in Seq(Messages) /\ frames # <<>> /\ frames' = Tail(frames) /\ queue \in Seq(Jobs)
      /\ links \in Nat /\ callbacks' = callbacks
    BY DEF OnMessage, TypeInv, TypeOK, threadVars
<1>2. 1 \in Positions(frames) /\ frames[1] \in Messages /\ Head(frames) = frames[1]
    BY <1>1, TakeFirst DEF Positions
<1>3. frames[1].map \in Nat
    BY <1>2, MessageFields
<1>4. \/ queue' = queue
      \/ queue' = Append(queue, CompleteHandshakeCB(frames[1].map, links))
      \/ queue' = Append(queue, ExecuteCB(frames[1]))
    BY <1>2 DEF OnMessage
<1>5. LET job == CompleteHandshakeCB(frames[1].map, links) IN
      job \in Jobs /\ job.run = "CompleteHandshake" /\ Carries(job, frames[1])
    BY <1>1, <1>3, JobsAre DEF Carries, MapOf, Answers
<1>6. LET job == ExecuteCB(frames[1]) IN
      job \in Jobs /\ job.run = "ExecuteMessageCallback" /\ Carries(job, frames[1])
    BY <1>2, JobsAre DEF Carries, MapOf
<1> QED BY <1>1, <1>2, <1>4, <1>5, <1>6

\* What was sent is sent after everything that is under way.
LEMMA SentLast ==
    ASSUME TypeInv, InTime, outgoing # <<>>
    PROVE  /\ outgoing[1] \in Messages /\ Head(outgoing) = outgoing[1]
           /\ outgoing[1].id = NextSent /\ outgoing[1].map = map
           /\ \A i \in Positions(frames) : FrameBefore(frames[i], outgoing[1])
           /\ \A i \in Positions(queue) : JobBeforeFrame(queue[i], outgoing[1])
           /\ \A i \in Positions(callbacks) : JobBeforeFrame(callbacks[i], outgoing[1])
<1>1. outgoing \in Seq(Messages) /\ Len(outgoing) <= 1 /\ nextMessageID \in Nat
    BY DEF TypeInv, TypeOK
<1>2. outgoing[1] \in Messages /\ Head(outgoing) = outgoing[1] /\ Len(outgoing) = 1
    <2>1. Head(outgoing) \in Messages /\ Head(outgoing) = outgoing[1]
        BY <1>1, TakeFirst
    <2>2. Len(outgoing) >= 1 /\ Len(outgoing) \in Nat
        BY <1>1, TakeFirst
    <2>3. Len(outgoing) <= 1
        BY <1>1
    <2>4. \A n \in Nat : n <= 1 /\ n >= 1 => n = 1
        OBVIOUS
    <2>5. Len(outgoing) = 1
        BY <2>2, <2>3, <2>4
    <2> QED BY <2>1, <2>5
<1>3. outgoing[1].id = NextSent /\ outgoing[1].map = map
    BY <1>1, <1>2 DEF InTime, NextSent
<1>4. \A f : FrameInTime(f) => FrameBefore(f, outgoing[1])
    BY <1>3 DEF FrameInTime, FrameBefore
<1>5. \A j : JobInTime(j) => JobBeforeFrame(j, outgoing[1])
    BY <1>3 DEF JobInTime, JobBeforeFrame
<1> QED BY <1>2, <1>3, <1>4, <1>5 DEF InTime

\* What is under way stays in order.
LEMMA InOrderStep ==
    ASSUME TypeInv, Next, InOrder, InTime
    PROVE  InOrder'
<1> USE DEF threadVars, gameVars, serviceVars, wsVars, apiVars
<1>1. CASE UNCHANGED <<frames, queue, callbacks>>
    BY <1>1 DEF InOrder
<1>2. ASSUME frames' = <<>>, UNCHANGED <<queue, callbacks>>
      PROVE  InOrder'
    <2>1. Positions(frames') = {}
        BY <1>2, Empty
    <2> QED BY <1>2, <2>1 DEF InOrder
<1>3. CASE OnOpenQueue
    <2>1. queue \in Seq(Jobs) /\ queue' = Append(queue, InitiateHandshakeCB) /\ InitiateHandshakeCB \in Jobs
          /\ UNCHANGED <<frames, callbacks>>
        BY <1>3, JobsAre DEF OnOpenQueue, TypeInv, TypeOK
    <2>2. ~Tells(InitiateHandshakeCB)
        BY JobsAre DEF Tells
    <2>3. \A i \in Positions(queue') : ~Tells(queue'[i]) \/ (i \in Positions(queue) /\ queue'[i] = queue[i])
        BY <2>1, <2>2, AppendProperties DEF Positions
    <2>4. \A i, k \in Positions(queue') : i < k => JobBefore(queue'[i], queue'[k])
        BY <2>3, SilentOrder DEF InOrder
    <2>5. \A i \in Positions(callbacks'), k \in Positions(queue') : JobBefore(callbacks'[i], queue'[k])
        BY <2>1, <2>3, SilentOrder DEF InOrder
    <2>6. \A i \in Positions(queue'), k \in Positions(frames') : JobBeforeFrame(queue'[i], frames'[k])
        BY <2>1, <2>3, SilentOrder DEF InOrder
    <2> QED BY <2>1, <2>4, <2>5, <2>6 DEF InOrder
<1>4. CASE OnMessage
    <2>1. /\ frames \in Seq(Messages) /\ frames # <<>> /\ frames' = Tail(frames) /\ queue \in Seq(Jobs)
          /\ 1 \in Positions(frames) /\ frames[1] \in Messages /\ callbacks' = callbacks
        BY <1>4, OnMessageIs
    <2>2. /\ Len(frames) \in Nat
          /\ \A k \in Positions(frames') : k + 1 \in Positions(frames) /\ k + 1 > 1 /\ frames'[k] = frames[k + 1]
        BY <2>1, TakeFirst DEF Positions
    <2>3. \A i, k \in Positions(frames') : i < k => FrameBefore(frames'[i], frames'[k])
        <3>1. \A i, k \in Positions(frames') : i < k => i + 1 < k + 1
            BY DEF Positions
        <3> QED BY <2>2, <3>1 DEF InOrder
    <2>4. \A i \in Positions(callbacks'), k \in Positions(frames') : JobBeforeFrame(callbacks'[i], frames'[k])
        BY <2>1, <2>2 DEF InOrder
    <2>5. \A i \in Positions(queue), k \in Positions(frames') : JobBeforeFrame(queue[i], frames'[k])
        BY <2>2 DEF InOrder
    <2>6. CASE queue' = queue
        BY <2>1, <2>3, <2>4, <2>5, <2>6 DEF InOrder
    <2>7. ASSUME NEW job \in Jobs, Carries(job, frames[1]), queue' = Append(queue, job)
          PROVE  InOrder'
        <3>1. \A i \in Positions(queue') :
                 \/ i \in Positions(queue) /\ queue'[i] = queue[i]
                 \/ i = Len(queue) + 1 /\ queue'[i] = job
            BY <2>1, <2>7, AppendProperties DEF Positions
        <3>2. \A i \in Positions(queue) : JobBefore(queue[i], job)
            BY <2>1, <2>7, CarriedOrder DEF InOrder
        <3>3. \A i \in Positions(callbacks) : JobBefore(callbacks[i], job)
            BY <2>1, <2>7, CarriedOrder DEF InOrder
        <3>4. \A k \in Positions(frames') : JobBeforeFrame(job, frames'[k])
            <4>1. \A k \in Positions(frames') : FrameBefore(frames[1], frames'[k])
                BY <2>1, <2>2 DEF InOrder
            <4> QED BY <2>1, <2>7, <4>1, CarriedOrder
        <3>5. \A i, k \in Positions(queue') : i < k => i \in Positions(queue) /\ queue'[i] = queue[i]
            <4>1. Len(queue) \in Nat /\ Len(queue') = Len(queue) + 1 /\ \A i \in Positions(queue) : queue'[i] = queue[i]
                BY <2>1, <2>7, AppendProperties, LenProperties DEF Positions
            <4> QED BY <4>1 DEF Positions
        <3>6. \A i, k \in Positions(queue') : i < k => JobBefore(queue'[i], queue'[k])
            BY <3>1, <3>2, <3>5 DEF InOrder
        <3>7. \A i \in Positions(callbacks'), k \in Positions(queue') : JobBefore(callbacks'[i], queue'[k])
            BY <2>1, <3>1, <3>3 DEF InOrder
        <3>8. \A i \in Positions(queue'), k \in Positions(frames') : JobBeforeFrame(queue'[i], frames'[k])
            BY <2>5, <3>1, <3>4
        <3> QED BY <2>1, <2>3, <2>4, <3>6, <3>7, <3>8 DEF InOrder
    <2> QED BY <1>4, <2>6, <2>7, OnMessageIs
<1>5. CASE OnServerGamePostSimulate
    <2>1. /\ queue \in Seq(Jobs) /\ whenConnectedQueue \in Seq(Jobs)
          /\ \A i \in Positions(whenConnectedQueue) : whenConnectedQueue[i].run = "SendMessage"
        BY DEF TypeInv, TypeOK, JobsAsQueued, IsSend
    <2>2. queue' = <<>> /\ frames' = frames /\ (callbacks' = queue \/ callbacks' = queue \o whenConnectedQueue)
        BY <1>5 DEF OnServerGamePostSimulate
    <2>3. Positions(queue') = {}
        BY <2>2, Empty
    <2>4. \A i \in Positions(callbacks') :
             \/ i \in Positions(queue) /\ callbacks'[i] = queue[i]
             \/ ~Tells(callbacks'[i])
        <3>1. CASE callbacks' = queue
            BY <3>1
        <3>2. CASE callbacks' = queue \o whenConnectedQueue
            <4>1. \A i \in Positions(callbacks') :
                     \/ i \in Positions(queue) /\ callbacks'[i] = queue[i]
                     \/ callbacks'[i].run = "SendMessage"
                BY <2>1, <3>2, ConcatProperties DEF Positions
            <4> QED BY <4>1 DEF Tells
        <3> QED BY <2>2, <3>1, <3>2
    <2>5. \A i, k \in Positions(callbacks') : i < k => JobBefore(callbacks'[i], callbacks'[k])
        BY <2>4, SilentOrder DEF InOrder
    <2>6. \A i \in Positions(callbacks'), k \in Positions(frames') : JobBeforeFrame(callbacks'[i], frames'[k])
        BY <2>2, <2>4, SilentOrder DEF InOrder
    <2> QED BY <2>2, <2>3, <2>5, <2>6 DEF InOrder
<1>6. ASSUME NEW kind, Run(kind), UNCHANGED <<frames, queue>>
      PROVE  InOrder'
    <2>1. \A i \in Positions(callbacks') : i + 1 \in Positions(callbacks) /\ callbacks'[i] = callbacks[i + 1]
        BY <1>6, RunTypes
    <2>2. \A i, k \in Positions(callbacks') : i < k => JobBefore(callbacks'[i], callbacks'[k])
        <3>1. \A i, k \in Positions(callbacks') : i < k => i + 1 < k + 1
            BY DEF Positions
        <3> QED BY <2>1, <3>1 DEF InOrder
    <2> QED BY <1>6, <2>1, <2>2 DEF InOrder
<1>7. CASE SocketSend
    <2>1. outgoing # <<>> /\ UNCHANGED <<queue, callbacks>>
        BY <1>7 DEF SocketSend
    <2>2. frames \in Seq(Messages) /\ outgoing[1] \in Messages /\ Head(outgoing) = outgoing[1]
        BY <2>1, SentLast DEF TypeInv, TypeOK
    <2>3. frames' = frames \/ frames' = Append(frames, outgoing[1])
        BY <1>7, <2>2 DEF SocketSend
    <2>4. CASE frames' = Append(frames, outgoing[1])
        <3>1. \A i \in Positions(frames') :
                 \/ i \in Positions(frames) /\ frames'[i] = frames[i]
                 \/ i = Len(frames) + 1 /\ frames'[i] = outgoing[1]
            BY <2>2, <2>4, AppendProperties DEF Positions
        <3>2. \A i, k \in Positions(frames') : i < k => i \in Positions(frames) /\ frames'[i] = frames[i]
            <4>1. Len(frames) \in Nat /\ Len(frames') = Len(frames) + 1
                  /\ \A i \in Positions(frames) : frames'[i] = frames[i]
                BY <2>2, <2>4, AppendProperties, LenProperties DEF Positions
            <4> QED BY <4>1 DEF Positions
        <3>3. \A i, k \in Positions(frames') : i < k => FrameBefore(frames'[i], frames'[k])
            BY <2>1, <3>1, <3>2, SentLast DEF InOrder
        <3>4. \A i \in Positions(callbacks'), k \in Positions(frames') : JobBeforeFrame(callbacks'[i], frames'[k])
            BY <2>1, <3>1, SentLast DEF InOrder
        <3>5. \A i \in Positions(queue'), k \in Positions(frames') : JobBeforeFrame(queue'[i], frames'[k])
            BY <2>1, <3>1, SentLast DEF InOrder
        <3> QED BY <2>1, <3>3, <3>4, <3>5 DEF InOrder
    <2> QED BY <1>1, <2>1, <2>3, <2>4
<1>8. \/ UNCHANGED <<frames, queue, callbacks>>
      \/ frames' = <<>> /\ UNCHANGED <<queue, callbacks>>
      \/ OnOpenQueue \/ OnMessage \/ OnServerGamePostSimulate \/ SocketSend
      \/ \E kind : Run(kind) /\ UNCHANGED <<frames, queue>>
    BY DEF Next, WebSocketThread, MainThread, OnOpen, OnClose, OnError, Lost, InitService, InitDisabled,
        StoreState, InitiateHandshake, CompleteHandshake, RunSend, ExecuteMessageCallback, OnPlayerAuthorized,
        OnClientDisconnect, OnActivateServer
<1> QED BY <1>1, <1>2, <1>3, <1>4, <1>5, <1>6, <1>7, <1>8

\* The last message sent is the newest, and about the map of now.
NewestToSend == outgoing # <<>> => outgoing[1].id = nextMessageID - 1 /\ outgoing[1].map = map

\* At most one message waits to be sent.
LEMMA OneToSend ==
    ASSUME NEW s \in Seq(Messages), Len(s) <= 1
    PROVE  Len(s) = IF s = <<>> THEN 0 ELSE 1
<1>1. CASE s = <<>>
    BY <1>1, EmptySeq
<1>2. CASE s # <<>>
    <2>1. Len(s) >= 1 /\ Len(s) \in Nat
        BY <1>2, TakeFirst
    <2>2. \A n \in Nat : n <= 1 /\ n >= 1 => n = 1
        OBVIOUS
    <2> QED BY <1>2, <2>1, <2>2
<1> QED BY <1>1, <1>2

\* Numbers and maps only grow, and the newest message has the newest of both.
LEMMA NumbersStep ==
    ASSUME TypeInv, TypeInv', Next, NewestToSend
    PROVE  /\ map <= map' /\ NextSent <= NextSent' /\ NewestToSend'
           /\ NextSent \in Int /\ NextSent' \in Int
           /\ SocketSend => NextSent < NextSent'
<1> DEFINE Waiting(s) == IF s = <<>> THEN 0 ELSE 1
<1>1. /\ Len(outgoing) = Waiting(outgoing) /\ Len(outgoing') = Waiting(outgoing')
      /\ nextMessageID \in Nat /\ nextMessageID' \in Nat /\ map \in Nat /\ map' \in Nat
    BY OneToSend DEF TypeInv, TypeOK
<1>2. /\ NextSent = nextMessageID - Waiting(outgoing) /\ NextSent' = nextMessageID' - Waiting(outgoing')
      /\ NextSent \in Int /\ NextSent' \in Int
    BY <1>1 DEF NextSent
<1>3. CASE SocketSend
    <2>1. outgoing # <<>> /\ outgoing' = <<>> /\ nextMessageID' = nextMessageID /\ map' = map
        BY <1>3 DEF SocketSend, serviceVars, gameVars
    <2> QED BY <1>1, <1>2, <2>1 DEF NewestToSend
<1>4. ASSUME UNCHANGED <<outgoing, nextMessageID, map>>, ~SocketSend
      PROVE  NextSent <= NextSent' /\ NewestToSend' /\ map <= map'
    BY <1>1, <1>2, <1>4 DEF NewestToSend
<1>5. ASSUME outgoing = <<>>, nextMessageID' = nextMessageID + 1, map <= map', NEW event \in Events,
             NEW who \in SUBSET Players,
             outgoing' = outgoing \/ outgoing' = <<Message(event, nextMessageID, who, map')>>
      PROVE  NextSent <= NextSent' /\ NewestToSend' /\ map <= map'
    <2> DEFINE m == Message(event, nextMessageID, who, map')
    <2>0. m.id = nextMessageID /\ m.map = map'
        BY <1>1, MessageIs
    <2> HIDE DEF m
    <2>1. m.id = nextMessageID /\ m.map = map' /\ <<m>>[1] = m
        BY <2>0
    <2>2. NewestToSend'
        <3>1. CASE outgoing' = outgoing
            BY <1>5, <3>1 DEF NewestToSend
        <3>2. CASE outgoing' = <<m>>
            <4>1. outgoing'[1] = m
                BY <2>1, <3>2
            <4> QED BY <1>1, <1>5, <2>1, <4>1 DEF NewestToSend
        <3> QED BY <1>5, <3>1, <3>2 DEF m
    <2> QED BY <1>1, <1>2, <1>5, <2>2
<1>6. ASSUME NEW event \in Events, NEW who \in SUBSET Players, NEW waiting, outgoing = <<>>, map' = map,
             SendMessage(event, who, waiting)
      PROVE  NextSent <= NextSent' /\ NewestToSend' /\ map <= map'
    <2>1. /\ nextMessageID' = nextMessageID + 1
          /\ outgoing' = outgoing \/ outgoing' = <<Message(event, nextMessageID, who, map')>>
        BY <1>6 DEF SendMessage
    <2> QED BY <1>1, <1>5, <1>6, <2>1
<1>7. CASE OnActivateServer
    <2>1. outgoing = <<>> /\ map' = map + 1
        BY <1>7 DEF OnActivateServer, Idle, Ready
    <2>2. ~SocketSend
        BY <2>1 DEF SocketSend
    <2>3. \/ UNCHANGED <<outgoing, nextMessageID>>
          \/ /\ nextMessageID' = nextMessageID + 1
             /\ outgoing' = <<Message("map-change", nextMessageID, {}, map')>>
        BY <1>1, <1>7 DEF OnActivateServer
    <2>4. CASE UNCHANGED <<outgoing, nextMessageID>>
        <3>1. NewestToSend'
            BY <2>1, <2>4 DEF NewestToSend
        <3>2. NextSent' = NextSent
            BY <2>4 DEF NextSent
        <3>3. map <= map'
            BY <1>1, <2>1
        <3> QED BY <1>2, <2>2, <3>1, <3>2, <3>3
    <2>5. CASE nextMessageID' = nextMessageID + 1 /\ outgoing' = <<Message("map-change", nextMessageID, {}, map')>>
        <3>1. "map-change" \in Events /\ {} \in SUBSET Players /\ map <= map'
            BY <1>1, <2>1 DEF Events
        <3>2. NextSent <= NextSent' /\ NewestToSend' /\ map <= map'
            BY <1>5, <2>1, <2>5, <3>1
        <3> QED BY <1>2, <2>2, <3>2
    <2> QED BY <2>3, <2>4, <2>5
<1>8. CASE InitiateHandshake \/ RunSend \/ ExecuteMessageCallback
           \/ \E p \in Players : OnPlayerAuthorized(p) \/ OnClientDisconnect(p)
    <2>1. outgoing = <<>> /\ map' = map
        BY <1>8 DEF InitiateHandshake, RunSend, ExecuteMessageCallback, OnPlayerAuthorized, OnClientDisconnect,
            Run, Idle, Ready, gameVars
    <2>2. \/ UNCHANGED <<outgoing, nextMessageID>>
          \/ \E event \in Events, who \in SUBSET Players : \E waiting : SendMessage(event, who, waiting)
        <3>1. CASE InitiateHandshake
            <4>1. "hello" \in Events /\ players \in SUBSET Players
                BY DEF Events, TypeInv, TypeOK
            <4> QED BY <3>1, <4>1 DEF InitiateHandshake
        <3>2. CASE RunSend
            <4>1. Run("SendMessage") /\ SendMessage(callbacks[1].event, callbacks[1].players, messageCallbacks)
                BY <3>2, RunTypes DEF RunSend
            <4>2. callbacks[1].event \in Events /\ callbacks[1].players \in SUBSET Players
                BY <4>1, RunTypes, JobFields
            <4> QED BY <4>1, <4>2
        <3>3. CASE ExecuteMessageCallback
            <4>1. Run("ExecuteMessageCallback") /\ Head(callbacks) = callbacks[1]
                BY <3>3, RunTypes DEF ExecuteMessageCallback
            <4>2. callbacks[1].message.players \in SUBSET Players /\ "want-player-records" \in Events
                BY <4>1, RunTypes, JobFields, MessageFields DEF Events
            <4>3. \/ UNCHANGED <<outgoing, nextMessageID>>
                  \/ \E waiting : SendMessage("want-player-records", callbacks[1].message.players, waiting)
                BY <3>3, <4>1 DEF ExecuteMessageCallback, SendOrQueue
            <4> QED BY <4>2, <4>3
        <3>4. ASSUME NEW p \in Players, OnPlayerAuthorized(p) \/ OnClientDisconnect(p)
              PROVE  \/ UNCHANGED <<outgoing, nextMessageID>>
                     \/ \E event \in Events, who \in SUBSET Players : \E waiting : SendMessage(event, who, waiting)
            <4>1. {"player-join", "player-leave"} \subseteq Events /\ {p} \in SUBSET Players
                BY DEF Events
            <4>2. \/ UNCHANGED <<outgoing, nextMessageID>>
                  \/ SendMessage("player-join", {p}, messageCallbacks)
                  \/ SendMessage("player-leave", {p}, messageCallbacks)
                BY <3>4 DEF OnPlayerAuthorized, OnClientDisconnect, SendOrQueue, SendIfCompleted
            <4> QED BY <4>1, <4>2
        <3> QED BY <1>8, <3>1, <3>2, <3>3, <3>4
    <2>3. ~SocketSend
        BY <2>1 DEF SocketSend
    <2> QED BY <1>2, <1>4, <1>6, <2>1, <2>2, <2>3
<1>9. SocketSend \/ UNCHANGED <<outgoing, nextMessageID, map>> \/ OnActivateServer
      \/ InitiateHandshake \/ RunSend \/ ExecuteMessageCallback
      \/ \E p \in Players : OnPlayerAuthorized(p) \/ OnClientDisconnect(p)
    BY DEF Next, WebSocketThread, MainThread, OnOpen, OnOpenQueue, OnMessage, OnClose, OnError, Lost,
        InitService, InitDisabled, StoreState, OnServerGamePostSimulate, CompleteHandshake,
        threadVars, gameVars, serviceVars
<1> QED BY <1>2, <1>3, <1>4, <1>7, <1>8, <1>9

\* What FrameInTime and JobInTime say after the step.
FrameThen(f) == mapInfo' <= f.map /\ f.map <= map' /\ f.id < NextSent'
JobThen(j) ==
    /\ Tells(j) => mapInfo' <= MapOf(j) /\ MapOf(j) <= map'
    /\ Answers(j) => j.message.id < NextSent'

\* What is under way after a step was so before, or has just been sent, or is
\* what the main thread makes of the first answer.
LEMMA UnderWayFrom ==
    ASSUME TypeInv, Next
    PROVE  /\ \A i \in Positions(frames') :
                 \/ \E k \in Positions(frames) : frames'[i] = frames[k]
                 \/ SocketSend /\ frames'[i] = outgoing[1] /\ outgoing[1].event # "player-leave"
           /\ \A i \in Positions(queue') :
                 \/ \E k \in Positions(queue) : queue'[i] = queue[k]
                 \/ ~Tells(queue'[i])
                 \/ /\ frames # <<>> /\ 1 \in Positions(frames) /\ Carries(queue'[i], frames[1])
                    /\ UNCHANGED <<mapInfo, messageCallbacks>>
<1>1. \A i \in Positions(frames') :
         \/ \E k \in Positions(frames) : frames'[i] = frames[k]
         \/ SocketSend /\ frames'[i] = outgoing[1] /\ outgoing[1].event # "player-leave"
    <2>1. CASE SocketSend
        <3>1. frames \in Seq(Messages) /\ outgoing[1] \in Messages /\ Head(outgoing) = outgoing[1]
            BY <2>1, TakeFirst DEF SocketSend, TypeInv, TypeOK
        <3>2. \/ frames' = frames
              \/ frames' = Append(frames, outgoing[1]) /\ outgoing[1].event # "player-leave"
            BY <2>1, <3>1 DEF SocketSend
        <3>3. CASE frames' = frames
            BY <3>3
        <3>4. CASE frames' = Append(frames, outgoing[1]) /\ outgoing[1].event # "player-leave"
            BY <2>1, <3>1, <3>4, AppendProperties DEF Positions
        <3> QED BY <3>2, <3>3, <3>4
    <2>2. CASE OnMessage
        <3>1. frames \in Seq(Messages) /\ frames # <<>> /\ frames' = Tail(frames)
            BY <2>2, OnMessageIs
        <3> QED BY <3>1, TakeFirst
    <2>3. SocketSend \/ OnMessage \/ frames' = frames \/ frames' = <<>>
        BY DEF Next, WebSocketThread, MainThread, OnOpen, OnOpenQueue, OnClose, OnError, Lost, InitService,
            InitDisabled, StoreState, OnServerGamePostSimulate, InitiateHandshake, CompleteHandshake, RunSend,
            ExecuteMessageCallback, OnPlayerAuthorized, OnClientDisconnect, OnActivateServer, apiVars
    <2> QED BY <2>1, <2>2, <2>3, Empty
<1>2. CASE OnOpenQueue
    <2>1. queue \in Seq(Jobs) /\ queue' = Append(queue, InitiateHandshakeCB) /\ InitiateHandshakeCB \in Jobs
        BY <1>2, JobsAre DEF OnOpenQueue, TypeInv, TypeOK
    <2>2. ~Tells(InitiateHandshakeCB)
        BY JobsAre DEF Tells
    <2>3. \A i \in Positions(queue') : ~Tells(queue'[i]) \/ (i \in Positions(queue) /\ queue'[i] = queue[i])
        BY <2>1, <2>2, AppendProperties DEF Positions
    <2> QED BY <1>1, <2>3
<1>3. CASE OnMessage
    <2>1. /\ queue \in Seq(Jobs) /\ frames # <<>> /\ 1 \in Positions(frames)
          /\ UNCHANGED <<mapInfo, messageCallbacks>>
        BY <1>3, OnMessageIs DEF OnMessage
    <2>2. ASSUME NEW job \in Jobs, Carries(job, frames[1]), queue' = Append(queue, job)
          PROVE  \A i \in Positions(queue') : queue'[i] = job \/ (i \in Positions(queue) /\ queue'[i] = queue[i])
        BY <2>1, <2>2, AppendProperties DEF Positions
    <2> QED BY <1>1, <1>3, <2>1, <2>2, OnMessageIs
<1> QED BY <1>1, <1>2, <1>3, JobsFrom

\* What is under way stays between the map of the service and the server's, and
\* is older than what is sent next.
LEMMA InTimeStep ==
    ASSUME TypeInv, TypeInv', Next, InOrder, InTime
    PROVE  InTime'
<1>1. /\ map <= map' /\ NextSent <= NextSent' /\ NewestToSend' /\ NextSent \in Int /\ NextSent' \in Int
      /\ SocketSend => NextSent < NextSent'
    BY NumbersStep DEF InTime, NewestToSend
<1>2. /\ map \in Nat /\ map' \in Nat /\ mapInfo \in Nat /\ mapInfo' \in Nat
      /\ \A i \in Positions(frames) : frames[i] \in Messages
      /\ \A i \in Positions(queue) : queue[i] \in Jobs
      /\ \A i \in Positions(callbacks) : callbacks[i] \in Jobs
    BY Elements DEF TypeInv, TypeOK
<1>3. \A f \in Messages : FrameInTime(f) /\ mapInfo' <= f.map => FrameThen(f)
    BY <1>1, <1>2, MessageFields DEF FrameInTime, FrameThen
<1>4. \A j \in Jobs : (Tells(j) => MapOf(j) \in Nat) /\ (Answers(j) => j.message.id \in Nat /\ Tells(j))
    BY JobFields, MessageFields DEF Tells, Answers, MapOf
<1>5. \A j \in Jobs : JobInTime(j) /\ (Tells(j) => mapInfo' <= MapOf(j)) => JobThen(j)
    BY <1>1, <1>2, <1>4 DEF JobInTime, JobThen
<1>6. /\ mapInfo' <= map
      /\ \A i \in Positions(frames) : mapInfo' <= frames[i].map
      /\ \A i \in Positions(queue) : Tells(queue[i]) => mapInfo' <= MapOf(queue[i])
      /\ \A i \in Positions(callbacks') : Tells(callbacks'[i]) =>
            \/ mapInfo' <= MapOf(callbacks'[i])
            \/ \E k \in Positions(queue) : callbacks'[i] = queue[k]
    <2>1. CASE mapInfo' = mapInfo
        <3>1. \A i \in Positions(callbacks') : Tells(callbacks'[i]) =>
                  \/ mapInfo' <= MapOf(callbacks'[i])
                  \/ \E k \in Positions(queue) : callbacks'[i] = queue[k]
            BY <2>1, JobsFrom DEF InTime, JobInTime, Tells
        <3> QED BY <2>1, <3>1 DEF InTime, FrameInTime, JobInTime
    <2>2. ASSUME NEW kind, Run(kind), Tells(callbacks[1]), mapInfo' = MapOf(callbacks[1])
          PROVE  /\ mapInfo' <= map
                 /\ \A i \in Positions(frames) : mapInfo' <= frames[i].map
                 /\ \A i \in Positions(queue) : Tells(queue[i]) => mapInfo' <= MapOf(queue[i])
                 /\ \A i \in Positions(callbacks') : Tells(callbacks'[i]) => mapInfo' <= MapOf(callbacks'[i])
        <3>1. /\ Len(callbacks) \in Nat /\ 1 \in Positions(callbacks)
              /\ \A i \in Positions(callbacks') : i + 1 \in Positions(callbacks) /\ 1 < i + 1
                                                  /\ callbacks'[i] = callbacks[i + 1]
            BY <2>2, RunTypes DEF Positions
        <3>2. \A i \in Positions(callbacks') : JobBefore(callbacks[1], callbacks'[i])
            BY <3>1 DEF InOrder
        <3>3. /\ \A i \in Positions(queue) : JobBefore(callbacks[1], queue[i])
              /\ \A i \in Positions(frames) : JobBeforeFrame(callbacks[1], frames[i])
              /\ JobInTime(callbacks[1])
            BY <3>1 DEF InOrder, InTime
        <3> QED BY <2>2, <3>2, <3>3 DEF JobBefore, JobBeforeFrame, JobInTime
    <2>3. CASE CompleteHandshake
        <3>1. Run("CompleteHandshake") /\ callbacks[1].run = "CompleteHandshake" /\ mapInfo' = callbacks[1].map
            BY <2>3, RunTypes DEF CompleteHandshake
        <3> QED BY <2>2, <3>1 DEF Tells, MapOf
    <2>4. CASE ExecuteMessageCallback
        <3>1. /\ Run("ExecuteMessageCallback") /\ callbacks[1].run = "ExecuteMessageCallback"
              /\ Head(callbacks) = callbacks[1]
            BY <2>4, RunTypes DEF ExecuteMessageCallback
        <3>2. mapInfo' = mapInfo \/ mapInfo' = callbacks[1].message.map
            BY <2>4, <3>1 DEF ExecuteMessageCallback
        <3> QED BY <2>1, <2>2, <3>1, <3>2 DEF Tells, MapOf
    <2>5. mapInfo' = mapInfo \/ CompleteHandshake \/ ExecuteMessageCallback
        BY DEF Next, WebSocketThread, MainThread, OnOpen, OnOpenQueue, OnMessage, OnClose, OnError, Lost,
            InitService, InitDisabled, StoreState, SocketSend, OnServerGamePostSimulate, InitiateHandshake,
            RunSend, OnPlayerAuthorized, OnClientDisconnect, OnActivateServer, serviceVars
    <2> QED BY <2>1, <2>3, <2>4, <2>5
<1>7. mapInfo' <= map'
    BY <1>1, <1>2, <1>6
<1>8. \A i \in Positions(frames') : FrameThen(frames'[i])
    <2>1. \A k \in Positions(frames) : FrameThen(frames[k])
        BY <1>2, <1>3, <1>6 DEF InTime
    <2>2. ASSUME SocketSend
          PROVE  FrameThen(outgoing[1])
        <3>1. outgoing[1] \in Messages /\ outgoing[1].id = NextSent /\ outgoing[1].map = map
            BY <2>2, SentLast DEF SocketSend
        <3> QED BY <1>1, <1>2, <1>6, <2>2, <3>1 DEF FrameThen
    <2> QED BY <2>1, <2>2, UnderWayFrom
<1>9. \A i \in Positions(queue') : JobThen(queue'[i])
    <2>1. \A k \in Positions(queue) : JobThen(queue[k])
        BY <1>2, <1>5, <1>6 DEF InTime
    <2>2. \A j : ~Tells(j) => JobThen(j)
        BY DEF JobThen, Tells, Answers
    <2>3. ASSUME 1 \in Positions(frames), NEW j, Carries(j, frames[1])
          PROVE  JobThen(j)
        <3>1. FrameThen(frames[1])
            BY <1>2, <1>3, <1>6, <2>3 DEF InTime
        <3> QED BY <2>3, <3>1 DEF FrameThen, JobThen, Carries
    <2> QED BY <2>1, <2>2, <2>3, UnderWayFrom
<1>10. \A i \in Positions(callbacks') : JobThen(callbacks'[i])
    <2>1. \A k \in Positions(queue) : JobThen(queue[k])
        BY <1>2, <1>5, <1>6 DEF InTime
    <2>2. \A j : j.run = "SendMessage" => JobThen(j)
        BY DEF JobThen, Tells, Answers
    <2>3. \A i \in Positions(callbacks') :
             (\E k \in Positions(callbacks) : callbacks'[i] = callbacks[k]) => JobThen(callbacks'[i])
             \/ \E k \in Positions(queue) : callbacks'[i] = queue[k]
        BY <1>2, <1>5, <1>6 DEF InTime
    <2> QED BY <2>1, <2>2, <2>3, JobsFrom
<1> QED BY <1>1, <1>7, <1>8, <1>9, <1>10 DEF InTime, NewestToSend, FrameInTime, JobInTime, FrameThen, JobThen

\* An answer under way is awaited, from before its request is sent until its
\* callback ran.
LEMMA AwaitedStep ==
    ASSUME TypeInv, Next, InOrder, AllAwaited
    PROVE  AllAwaited'
<1> DEFINE Still(m) == m.event # "hello" => m \in messageCallbacks'
<1>1. ASSUME messageCallbacks \subseteq messageCallbacks'
      PROVE  /\ \A i \in Positions(frames') : Still(frames'[i])
             /\ \A i \in Positions(queue') : Answers(queue'[i]) => Still(queue'[i].message)
             /\ \A i \in Positions(callbacks') : Answers(callbacks'[i]) => Still(callbacks'[i].message)
    <2>1. \A m : Awaited(m) => Still(m)
        BY <1>1 DEF Awaited
    <2> HIDE DEF Still
    <2>2. \A i \in Positions(frames') : Still(frames'[i])
        <3>1. SocketSend /\ outgoing[1].event # "player-leave" => Still(outgoing[1])
            BY <2>1 DEF SocketSend, AllAwaited
        <3> QED BY <2>1, <3>1, UnderWayFrom DEF AllAwaited
    <2>3. \A i \in Positions(queue') : Answers(queue'[i]) => Still(queue'[i].message)
        <3>1. \A k \in Positions(queue) : Answers(queue[k]) => Still(queue[k].message)
            BY <2>1 DEF AllAwaited
        <3>2. ASSUME 1 \in Positions(frames), NEW j, Carries(j, frames[1])
              PROVE  Answers(j) => Still(j.message)
            BY <2>1, <3>2 DEF AllAwaited, Carries
        <3>3. \A j : Answers(j) => Tells(j)
            BY DEF Answers, Tells
        <3> QED BY <3>1, <3>2, <3>3, UnderWayFrom
    <2>4. \A i \in Positions(callbacks') : Answers(callbacks'[i]) => Still(callbacks'[i].message)
        <3>1. /\ \A k \in Positions(queue) : Answers(queue[k]) => Still(queue[k].message)
              /\ \A k \in Positions(callbacks) : Answers(callbacks[k]) => Still(callbacks[k].message)
            BY <2>1 DEF AllAwaited
        <3>2. \A j : j.run = "SendMessage" => ~Answers(j)
            BY DEF Answers
        <3> QED BY <3>1, <3>2, JobsFrom
    <2> QED BY <2>2, <2>3, <2>4
<1>2. CASE ExecuteMessageCallback
    <2> DEFINE message == callbacks[1].message
    <2>1. /\ Run("ExecuteMessageCallback") /\ Answers(callbacks[1]) /\ Head(callbacks) = callbacks[1]
          /\ frames' = frames /\ queue' = queue /\ 1 \in Positions(callbacks)
        BY <1>2, RunTypes DEF ExecuteMessageCallback, Answers, Positions, serviceVars, apiVars
    <2>2. /\ Len(callbacks) \in Nat
          /\ \A i \in Positions(callbacks') : i + 1 \in Positions(callbacks) /\ 1 < i + 1
                                              /\ callbacks'[i] = callbacks[i + 1]
        BY <2>1, RunTypes DEF Positions
    <2>3. /\ \A i \in Positions(frames) : frames[i].id # message.id
          /\ \A i \in Positions(queue) : Answers(queue[i]) => queue[i].message.id # message.id
          /\ \A i \in Positions(callbacks') : Answers(callbacks'[i]) => callbacks'[i].message.id # message.id
        <3>1. message \in Messages
            BY <2>1, RunTypes, JobFields
        <3>2. message.id \in Nat /\ \A n : message.id < n => n # message.id
            BY <3>1, MessageFields
        <3>3. \A i \in Positions(callbacks') : JobBefore(callbacks[1], callbacks'[i])
            BY <2>1, <2>2 DEF InOrder
        <3>4. /\ \A i \in Positions(queue) : JobBefore(callbacks[1], queue[i])
              /\ \A i \in Positions(frames) : JobBeforeFrame(callbacks[1], frames[i])
            BY <2>1 DEF InOrder
        <3> QED BY <2>1, <3>2, <3>3, <3>4 DEF JobBefore, JobBeforeFrame
    <2>4. messageCallbacks \ {message} \subseteq messageCallbacks'
        BY <1>2, <2>1 DEF ExecuteMessageCallback, SendOrQueue, SendMessage
    <2>5. \A m : Awaited(m) /\ m.id # message.id => Still(m)
        BY <2>4 DEF Awaited
    <2>6. /\ \A i \in Positions(frames') : Still(frames'[i])
          /\ \A i \in Positions(queue') : Answers(queue'[i]) => Still(queue'[i].message)
        BY <2>1, <2>3, <2>5 DEF AllAwaited
    <2>7. \A i \in Positions(callbacks') : Answers(callbacks'[i]) => Still(callbacks'[i].message)
        <3> HIDE DEF Still
        <3> QED BY <2>2, <2>3, <2>5 DEF AllAwaited
    <2> HIDE DEF message
    <2>8. outgoing' # <<>> => Still(outgoing'[1])
        <3>1. outgoing = <<>>
            BY <2>1, RunTypes
        <3>2. \/ outgoing' = outgoing
              \/ \E m : outgoing' = <<m>> /\ m \in messageCallbacks'
            BY <1>2, <2>1 DEF ExecuteMessageCallback, SendOrQueue, SendMessage
        <3>3. \A m : <<m>>[1] = m
            OBVIOUS
        <3> QED BY <3>1, <3>2, <3>3
    <2> QED BY <2>6, <2>7, <2>8 DEF AllAwaited, Awaited
<1>3. CASE ~ExecuteMessageCallback
    <2>1. /\ messageCallbacks \subseteq messageCallbacks'
          /\ \/ UNCHANGED outgoing
             \/ outgoing' = <<>>
             \/ \E m : outgoing' = <<m>> /\ (m \in messageCallbacks' \/ m.event \in {"hello", "player-leave"})
        <3>1. ASSUME NEW event \in Events, NEW who \in SUBSET Players, SendMessage(event, who, messageCallbacks)
              PROVE  /\ messageCallbacks \subseteq messageCallbacks'
                     /\ \/ UNCHANGED outgoing
                        \/ \E m : outgoing' = <<m>> /\ (m \in messageCallbacks' \/ m.event \in {"hello", "player-leave"})
            <4> DEFINE m == Message(event, nextMessageID, who, map)
            <4>1. m.event = event
                BY MessageIs DEF TypeInv, TypeOK
            <4>2. \/ UNCHANGED outgoing /\ messageCallbacks' = messageCallbacks
                  \/ /\ outgoing' = <<m>>
                     /\ messageCallbacks' = IF event \in {"hello", "player-leave"}
                                            THEN messageCallbacks ELSE messageCallbacks \cup {m}
                BY <3>1 DEF SendMessage
            <4> HIDE DEF m
            <4> QED BY <4>1, <4>2
        <3>2. CASE InitiateHandshake
            <4>1. "hello" \in Events /\ players \in SUBSET Players
                BY DEF Events, TypeInv, TypeOK
            <4> QED BY <3>1, <3>2, <4>1 DEF InitiateHandshake
        <3>3. CASE RunSend
            <4>1. Run("SendMessage") /\ SendMessage(callbacks[1].event, callbacks[1].players, messageCallbacks)
                BY <3>3, RunTypes DEF RunSend
            <4>2. callbacks[1].event \in Events /\ callbacks[1].players \in SUBSET Players
                BY <4>1, RunTypes, JobFields
            <4> QED BY <3>1, <4>1, <4>2
        <3>4. ASSUME NEW p \in Players, OnPlayerAuthorized(p) \/ OnClientDisconnect(p)
              PROVE  /\ messageCallbacks \subseteq messageCallbacks'
                     /\ \/ UNCHANGED outgoing
                        \/ \E m : outgoing' = <<m>> /\ (m \in messageCallbacks' \/ m.event \in {"hello", "player-leave"})
            <4>1. "player-join" \in Events /\ "player-leave" \in Events /\ {p} \in SUBSET Players
                BY DEF Events
            <4>2. \/ UNCHANGED <<outgoing, messageCallbacks>>
                  \/ SendMessage("player-join", {p}, messageCallbacks)
                  \/ SendMessage("player-leave", {p}, messageCallbacks)
                BY <3>4 DEF OnPlayerAuthorized, OnClientDisconnect, SendOrQueue, SendIfCompleted
            <4> QED BY <3>1, <4>1, <4>2
        <3>5. CASE OnActivateServer
            BY <3>5 DEF OnActivateServer
        <3>6. CASE SocketSend
            BY <3>6 DEF SocketSend, serviceVars
        <3>7. \/ UNCHANGED <<outgoing, messageCallbacks>>
              \/ SocketSend \/ OnActivateServer \/ InitiateHandshake \/ RunSend
              \/ \E p \in Players : OnPlayerAuthorized(p) \/ OnClientDisconnect(p)
            BY <1>3 DEF Next, WebSocketThread, MainThread, OnOpen, OnOpenQueue, OnMessage, OnClose, OnError, Lost,
                InitService, InitDisabled, StoreState, OnServerGamePostSimulate, CompleteHandshake,
                threadVars, serviceVars
        <3> QED BY <3>2, <3>3, <3>4, <3>5, <3>6, <3>7
    <2>2. outgoing' # <<>> /\ outgoing'[1].event # "player-leave" => Still(outgoing'[1])
        <3>1. CASE UNCHANGED outgoing
            BY <2>1, <3>1 DEF AllAwaited, Awaited
        <3>2. ASSUME NEW m, outgoing' = <<m>>, m \in messageCallbacks' \/ m.event \in {"hello", "player-leave"}
              PROVE  outgoing'[1].event # "player-leave" => Still(outgoing'[1])
            <4>1. <<m>>[1] = m
                OBVIOUS
            <4>2. outgoing'[1] = m
                BY <3>2, <4>1
            <4> QED BY <3>2, <4>2
        <3> QED BY <2>1, <3>1, <3>2
    <2> QED BY <1>1, <2>1, <2>2 DEF AllAwaited, Awaited
<1> QED BY <1>2, <1>3

\* Nothing is under way at the start.
LEMMA OrderInit == Init => OrderInv
<1> SUFFICES ASSUME Init PROVE OrderInv
    OBVIOUS
<1>1. Positions(frames) = {} /\ Positions(queue) = {} /\ Positions(callbacks) = {}
    BY Empty DEF Init
<1>2. mapInfo <= map /\ outgoing = <<>>
    BY DEF Init
<1> QED BY <1>1, <1>2 DEF OrderInv, InOrder, InTime, AllAwaited

\* Every step keeps the order of what is under way.
LEMMA OrderStep == TypeInv /\ TypeInv' /\ OrderInv /\ [Next]_vars => OrderInv'
<1> SUFFICES ASSUME TypeInv, TypeInv', OrderInv, [Next]_vars PROVE OrderInv'
    OBVIOUS
<1>1. CASE Next
    BY <1>1, InOrderStep, InTimeStep, AwaitedStep DEF OrderInv
<1>2. CASE UNCHANGED vars
    <2>1. UNCHANGED <<frames, queue, callbacks, mapInfo, map, nextMessageID, outgoing, messageCallbacks>>
        BY <1>2 DEF vars, serviceVars, threadVars, gameVars, wsVars, apiVars
    <2> QED BY <2>1 DEF OrderInv, InOrder, InTime, AllAwaited, FrameInTime, JobInTime, NextSent, Awaited
<1> QED BY <1>1, <1>2

\* The order of what is under way, at every moment.
LEMMA OrderAlways == Spec => [](TypeInv /\ OrderInv)
<1>1. Init => TypeInv /\ OrderInv
    BY TypeInit, OrderInit
<1>2. TypeInv /\ OrderInv /\ [Next]_vars => (TypeInv /\ OrderInv)'
    BY TypeStep, OrderStep
<1> QED BY <1>1, <1>2, PTL DEF Spec

\* Every answer under way finds its callback waiting: a callback is registered
\* before its message is sent and taken out by the one answer that bears its
\* number, which nothing else under way bears (surf_global.h:350-396,
\* surf_global.cpp:602-640).
THEOREM AnswersGetAwaited == Spec => []AnswersAreAwaited
<1>1. TypeInv /\ OrderInv => AnswersAreAwaited
    <2> SUFFICES ASSUME TypeInv, OrderInv PROVE AnswersAreAwaited
        OBVIOUS
    <2>1. /\ \A m : m \in ToSet(frames) <=> \E i \in Positions(frames) : frames[i] = m
          /\ \A j : j \in ToSet(queue) <=> \E i \in Positions(queue) : queue[i] = j
          /\ \A j : j \in ToSet(callbacks) <=> \E i \in Positions(callbacks) : callbacks[i] = j
        BY Elements DEF TypeInv, TypeOK
    <2>2. \A m \in ToSet(frames) : Awaited(m)
        BY <2>1 DEF OrderInv, AllAwaited
    <2>3. \A j \in ToSet(queue) \cup ToSet(callbacks) : Answers(j) => Awaited(j.message)
        BY <2>1 DEF OrderInv, AllAwaited
    <2> QED BY <2>2, <2>3 DEF AnswersAreAwaited, Awaited, Answers
<1> QED BY <1>1, OrderAlways, PTL

\* The map the service tells of never goes back to one the server played
\* before, although answers of a lost link are still queued when the next one
\* is told of a newer map (surf_global.cpp:190-226, 569-600).
THEOREM MapInfoNeverGoesBack == Spec => MapInfoMovesForward
<1>1. TypeInv /\ TypeInv' /\ OrderInv /\ [Next]_vars => [mapInfo' >= mapInfo]_vars
    <2> SUFFICES ASSUME TypeInv, TypeInv', OrderInv, Next PROVE mapInfo' >= mapInfo
        OBVIOUS
    <2>1. mapInfo \in Nat /\ mapInfo' \in Nat
        BY DEF TypeInv, TypeOK
    <2>2. ASSUME NEW kind, Run(kind), Tells(callbacks[1]), mapInfo' = MapOf(callbacks[1])
          PROVE  mapInfo' >= mapInfo
        <3>1. 1 \in Positions(callbacks)
            BY <2>2, RunTypes DEF Positions
        <3> QED BY <2>1, <2>2, <3>1 DEF OrderInv, InTime, JobInTime
    <2>3. CASE CompleteHandshake
        <3>1. Run("CompleteHandshake") /\ callbacks[1].run = "CompleteHandshake" /\ mapInfo' = callbacks[1].map
            BY <2>3, RunTypes DEF CompleteHandshake
        <3> QED BY <2>2, <3>1 DEF Tells, MapOf
    <2>4. CASE ExecuteMessageCallback
        <3>1. /\ Run("ExecuteMessageCallback") /\ callbacks[1].run = "ExecuteMessageCallback"
              /\ Head(callbacks) = callbacks[1]
            BY <2>4, RunTypes DEF ExecuteMessageCallback
        <3>2. mapInfo' = mapInfo \/ mapInfo' = callbacks[1].message.map
            BY <2>4, <3>1 DEF ExecuteMessageCallback
        <3> QED BY <2>1, <2>2, <3>1, <3>2 DEF Tells, MapOf
    <2>5. mapInfo' = mapInfo \/ CompleteHandshake \/ ExecuteMessageCallback
        BY DEF Next, WebSocketThread, MainThread, OnOpen, OnOpenQueue, OnMessage, OnClose, OnError, Lost,
            InitService, InitDisabled, StoreState, SocketSend, OnServerGamePostSimulate, InitiateHandshake,
            RunSend, OnPlayerAuthorized, OnClientDisconnect, OnActivateServer, serviceVars
    <2> QED BY <2>1, <2>3, <2>4, <2>5
<1> QED BY <1>1, OrderAlways, PTL DEF Spec, MapInfoMovesForward
=============================================================================
