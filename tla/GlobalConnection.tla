--------------------------- MODULE GlobalConnection ---------------------------
(***************************************************************************)
(* The connection to the global API: SurfGlobalService (surf/global).      *)
(*                                                                         *)
(* Two threads share the connection state.  The WebSocket thread receives  *)
(* the events of the socket, stores the state they imply and queues work   *)
(* for the main thread; the main thread runs the queued callbacks once per *)
(* tick, one after the other, and the handlers of the game (a player is    *)
(* authorized or leaves, the map changes).  The socket library reconnects  *)
(* by itself until the service forbids it.  The API answers every message  *)
(* of a link in order and forgets a link with the frames under way on it.  *)
(*                                                                         *)
(* Left out: the heartbeat threads, the functions nothing calls            *)
(* (UpdateRecordCache, SubmitRecord), the queries of the chat commands,    *)
(* which only read the state, and Cleanup, which ends the process' use of  *)
(* the service.                                                            *)
(*                                                                         *)
(* A definition marked "Defect" is not part of the model: it is the next   *)
(* definition with a bug in it, which the properties must tell apart.      *)
(***************************************************************************)
EXTENDS Naturals, Sequences, SequencesExt

CONSTANTS
    Players,        \* the players that may be on the server
    MaxLinks,       \* bound: links the library opens
    MaxMaps,        \* bound: maps the server plays
    MaxAuthorized   \* bound: authorizations of players

ASSUME BoundAssumption ==
    /\ MaxLinks \in Nat
    /\ MaxMaps \in Nat
    /\ MaxAuthorized \in Nat

VARIABLES
    \* SurfGlobalService
    state,
    queue,              \* mainThreadCallbacks.queue
    whenConnectedQueue, \* mainThreadCallbacks.whenConnectedQueue
    messageCallbacks,   \* the requests that wait for an answer
    nextMessageID,
    mapInfo,            \* the map currentMap tells of, 0 for none
    \* the main thread
    callbacks,          \* the callbacks this tick has still to run
    outgoing,           \* at most one message, prepared and about to be sent
    storing,            \* the states Init or InitiateHandshake is about to store
    players,            \* the authorized players
    authorized,         \* how many authorizations there were
    map,                \* the current map
    skipped,            \* history: players left to the next handshake
    \* the WebSocket thread and the library
    started, open, reconnect,
    opened,             \* an open event whose InitiateHandshake is not queued yet
    links,              \* how many links were opened
    \* the API's side of the open link
    frames,             \* the answers under way
    helloSent,          \* it has received the hello of this link
    known,              \* the players it has been told of
    acked               \* history: its HelloAck on this link was processed

serviceVars == <<state, queue, whenConnectedQueue, messageCallbacks, nextMessageID, mapInfo>>
threadVars  == <<callbacks, outgoing, storing>>
gameVars    == <<players, authorized, map, skipped>>
wsVars      == <<started, open, reconnect, opened, links>>
apiVars     == <<frames, helloSent, known, acked>>
vars        == <<serviceVars, threadVars, gameVars, wsVars, apiVars>>

State == {"Uninitialized", "Initialized", "Connected", "HandshakeInitiated",
          "HandshakeCompleted", "Disconnected", "DisconnectedButWorthRetrying"}

Events == {"hello", "map-change", "player-join", "player-leave", "want-player-records"}
Message(event, id, who, about) == [event |-> event, id |-> id, players |-> who, map |-> about]
Messages == [event : Events, id : Nat, players : SUBSET Players, map : Nat]

\* What the main thread is asked to run.
InitiateHandshakeCB     == [run |-> "InitiateHandshake"]
CompleteHandshakeCB(m, link) == [run |-> "CompleteHandshake", map |-> m, link |-> link]
ExecuteCB(m)            == [run |-> "ExecuteMessageCallback", message |-> m]
SendCB(event, who)      == [run |-> "SendMessage", event |-> event, players |-> who]

Init ==
    /\ state = "Uninitialized"
    /\ queue = <<>> /\ whenConnectedQueue = <<>>
    /\ messageCallbacks = {} /\ nextMessageID = 1 /\ mapInfo = 0
    /\ callbacks = <<>> /\ outgoing = <<>> /\ storing = <<>>
    /\ players = {} /\ authorized = 0 /\ map = 1 /\ skipped = {}
    /\ started = FALSE /\ open = FALSE /\ reconnect = TRUE /\ opened = FALSE /\ links = 0
    /\ frames = <<>> /\ helloSent = FALSE /\ known = {} /\ acked = FALSE

(***************************************************************************)
(* The WebSocket thread.                                                   *)
(***************************************************************************)

\* The library connects while it may; the Open event stores the state ...
OnOpen ==
    /\ started /\ ~open /\ (reconnect \/ links = 0)
    /\ ~opened
    /\ links < MaxLinks
    /\ open' = TRUE /\ opened' = TRUE /\ links' = links + 1
    /\ state' = "Connected"
    /\ frames' = <<>> /\ helloSent' = FALSE /\ known' = {} /\ acked' = FALSE
    /\ UNCHANGED <<queue, whenConnectedQueue, messageCallbacks, nextMessageID, mapInfo,
                   threadVars, gameVars, started, reconnect>>

\* ... and then queues the handshake.
OnOpenQueue ==
    /\ opened
    /\ opened' = FALSE
    /\ queue' = Append(queue, InitiateHandshakeCB)
    /\ UNCHANGED <<state, whenConnectedQueue, messageCallbacks, nextMessageID, mapInfo,
                   threadVars, gameVars, started, open, reconnect, links, apiVars>>

\* A lost link is worth retrying or not: a close of the policy-violation kind
\* is when the handshake was completed.
WorthRetrying(kind) ==
    kind = "retry" \/ (kind = "policy" /\ state = "HandshakeCompleted")

\* Defect: the requests on their way are dropped.
LostWithRequests(kind) ==
    /\ reconnect' = WorthRetrying(kind)
    /\ state' = IF WorthRetrying(kind) THEN "DisconnectedButWorthRetrying" ELSE "Disconnected"
    /\ messageCallbacks' = {}
    /\ UNCHANGED <<queue, whenConnectedQueue, nextMessageID, mapInfo,
                   threadVars, gameVars, started, opened, links>>

Lost(kind) ==
    /\ reconnect' = WorthRetrying(kind)
    /\ state' = IF WorthRetrying(kind) THEN "DisconnectedButWorthRetrying" ELSE "Disconnected"
    /\ UNCHANGED <<queue, whenConnectedQueue, messageCallbacks, nextMessageID, mapInfo,
                   threadVars, gameVars, started, opened, links>>

OnClose(kind) ==
    /\ open /\ ~opened
    /\ open' = FALSE /\ frames' = <<>>
    /\ Lost(kind)
    /\ UNCHANGED <<helloSent, known, acked>>

\* An attempt to connect fails.
OnError(kind) ==
    /\ started /\ ~open /\ ~opened /\ kind # "policy"
    /\ reconnect
    /\ Lost(kind)
    /\ UNCHANGED <<open, apiVars>>

\* A frame is taken for what the state makes of it, or dropped.
OnMessage ==
    /\ open /\ ~opened /\ frames # <<>>
    /\ frames' = Tail(frames)
    /\ queue' =
         LET frame == Head(frames)
         IN  CASE state = "HandshakeInitiated" /\ frame.event = "hello" ->
                      Append(queue, CompleteHandshakeCB(frame.map, links))
               [] state = "HandshakeCompleted" -> Append(queue, ExecuteCB(frame))
               [] OTHER -> queue
    /\ UNCHANGED <<state, whenConnectedQueue, messageCallbacks, nextMessageID, mapInfo,
                   threadVars, gameVars, wsVars, helloSent, known, acked>>

(***************************************************************************)
(* Sending.  The state is read when the message is prepared; the message   *)
(* leaves in a step of its own, on whatever link is open by then.          *)
(***************************************************************************)
\* waiting: the requests that wait for an answer already.
SendMessage(event, who, waiting) ==
    /\ nextMessageID' = nextMessageID + 1
    /\ LET message == Message(event, nextMessageID, who, map)
       IN  IF state = (IF event = "hello" THEN "Connected" ELSE "HandshakeCompleted")
           THEN /\ outgoing' = <<message>>
                /\ messageCallbacks' = IF event \in {"hello", "player-leave"}
                                       THEN waiting ELSE waiting \cup {message}
           ELSE /\ messageCallbacks' = waiting
                /\ UNCHANGED outgoing

SocketSend ==
    /\ outgoing # <<>>
    /\ outgoing' = <<>>
    /\ LET message == Head(outgoing)
       IN  IF open
           THEN /\ frames' = IF message.event = "player-leave" THEN frames
                             ELSE Append(frames, message)
                /\ helloSent' = (helloSent \/ message.event = "hello")
                /\ known' = CASE message.event \in {"hello", "player-join"} ->
                                     known \cup message.players
                              [] message.event = "player-leave" -> known \ message.players
                              [] OTHER -> known
           ELSE UNCHANGED <<frames, helloSent, known>>
    /\ UNCHANGED <<serviceVars, callbacks, storing, gameVars, wsVars, acked>>

(***************************************************************************)
(* The main thread.                                                        *)
(***************************************************************************)
Ready == outgoing = <<>> /\ storing = <<>>
Idle  == Ready /\ callbacks = <<>>

\* Init starts the socket before it stores the state it leaves.
InitService ==
    /\ Idle /\ state = "Uninitialized" /\ ~started
    /\ started' = TRUE
    /\ storing' = <<"Initialized">>
    /\ UNCHANGED <<serviceVars, callbacks, outgoing, gameVars, open, reconnect, opened,
                   links, apiVars>>

\* With an empty or malformed URL or key there is no socket.
InitDisabled ==
    /\ Idle /\ state = "Uninitialized" /\ ~started
    /\ state' = "Disconnected" /\ reconnect' = FALSE
    /\ UNCHANGED <<queue, whenConnectedQueue, messageCallbacks, nextMessageID, mapInfo,
                   threadVars, gameVars, started, open, opened, links, apiVars>>

StoreState ==
    /\ outgoing = <<>> /\ storing # <<>>
    /\ state' = Head(storing) /\ storing' = <<>>
    /\ UNCHANGED <<queue, whenConnectedQueue, messageCallbacks, nextMessageID, mapInfo,
                   callbacks, outgoing, gameVars, wsVars, apiVars>>

\* Defect: the callbacks run in the wrong order.
RunNewestFirst ==
    /\ Idle
    /\ queue' = <<>>
    /\ IF state = "HandshakeCompleted"
       THEN callbacks' = Reverse(queue \o whenConnectedQueue) /\ whenConnectedQueue' = <<>>
       ELSE callbacks' = Reverse(queue) /\ UNCHANGED whenConnectedQueue
    /\ UNCHANGED <<state, messageCallbacks, nextMessageID, mapInfo, outgoing, storing,
                   gameVars, wsVars, apiVars>>

\* Once per tick, unless the WebSocket thread holds the lock.
OnServerGamePostSimulate ==
    /\ Idle
    /\ queue' = <<>>
    /\ IF state = "HandshakeCompleted"
       THEN callbacks' = queue \o whenConnectedQueue /\ whenConnectedQueue' = <<>>
       ELSE callbacks' = queue /\ UNCHANGED whenConnectedQueue
    /\ UNCHANGED <<state, messageCallbacks, nextMessageID, mapInfo, outgoing, storing,
                   gameVars, wsVars, apiVars>>

Run(kind) ==
    /\ Ready
    /\ callbacks # <<>> /\ Head(callbacks).run = kind
    /\ callbacks' = Tail(callbacks)

\* Defect: the hello names no players.
InitiateHandshakeAlone ==
    /\ Run("InitiateHandshake")
    /\ SendMessage("hello", {}, messageCallbacks)
    /\ storing' = <<"HandshakeInitiated">>
    /\ UNCHANGED <<state, queue, whenConnectedQueue, mapInfo, gameVars, wsVars, apiVars>>

\* The state is stored whether or not the hello could be sent.
InitiateHandshake ==
    /\ Run("InitiateHandshake")
    /\ SendMessage("hello", players, messageCallbacks)
    /\ storing' = <<"HandshakeInitiated">>
    /\ UNCHANGED <<state, queue, whenConnectedQueue, mapInfo, gameVars, wsVars, apiVars>>

CompleteHandshake ==
    /\ Run("CompleteHandshake")
    /\ state' = "HandshakeCompleted"
    /\ mapInfo' = Head(callbacks).map
    /\ acked' = (acked \/ (open /\ Head(callbacks).link = links))
    /\ UNCHANGED <<queue, whenConnectedQueue, messageCallbacks, nextMessageID,
                   outgoing, storing, gameVars, wsVars, frames, helloSent, known>>

RunSend ==
    /\ Run("SendMessage")
    /\ SendMessage(Head(callbacks).event, Head(callbacks).players, messageCallbacks)
    /\ UNCHANGED <<state, queue, whenConnectedQueue, mapInfo, storing, gameVars, wsVars,
                   apiVars>>

\* Send now, send once connected, or leave it to the next handshake.
SendOrQueue(event, who, waiting) ==
    CASE state = "HandshakeCompleted" ->
             SendMessage(event, who, waiting) /\ UNCHANGED whenConnectedQueue
      [] state = "HandshakeInitiated" ->
             /\ whenConnectedQueue' = Append(whenConnectedQueue, SendCB(event, who))
             /\ messageCallbacks' = waiting
             /\ UNCHANGED <<nextMessageID, outgoing>>
      [] OTHER ->
             /\ messageCallbacks' = waiting
             /\ UNCHANGED <<whenConnectedQueue, nextMessageID, outgoing>>

\* The callback of a request runs once: the answer to map-change tells of the
\* map, the one to player-join asks for the records of a player who is still
\* there, when the map is known.
ExecuteMessageCallback ==
    /\ Run("ExecuteMessageCallback")
    /\ LET message == Head(callbacks).message
           waiting == messageCallbacks \ {message}
       IN  /\ mapInfo' = IF message \in messageCallbacks /\ message.event = "map-change"
                         THEN message.map ELSE mapInfo
           /\ IF /\ message \in messageCallbacks /\ message.event = "player-join"
                 /\ message.players \subseteq players /\ mapInfo # 0
              THEN SendOrQueue("want-player-records", message.players, waiting)
              ELSE /\ messageCallbacks' = waiting
                   /\ UNCHANGED <<whenConnectedQueue, nextMessageID, outgoing>>
    /\ UNCHANGED <<state, queue, storing, gameVars, wsVars, apiVars>>

OnPlayerAuthorized(p) ==
    /\ Idle
    /\ p \notin players /\ authorized < MaxAuthorized
    /\ players' = players \cup {p} /\ authorized' = authorized + 1
    /\ SendOrQueue("player-join", {p}, messageCallbacks)
    /\ skipped' = IF state \in {"HandshakeInitiated", "HandshakeCompleted"}
                  THEN skipped ELSE skipped \cup {p}
    /\ UNCHANGED <<state, queue, mapInfo, callbacks, storing, map, wsVars, apiVars>>

SendIfCompleted(event, who) ==
    IF state = "HandshakeCompleted"
    THEN SendMessage(event, who, messageCallbacks)
    ELSE UNCHANGED <<messageCallbacks, nextMessageID, outgoing>>

OnClientDisconnect(p) ==
    /\ Idle
    /\ p \in players
    /\ players' = players \ {p} /\ skipped' = skipped \ {p}
    /\ SendIfCompleted("player-leave", {p})
    /\ UNCHANGED <<state, queue, whenConnectedQueue, mapInfo, callbacks, storing,
                   authorized, map, wsVars, apiVars>>

\* A new map; the first one also starts the service, see InitService.
OnActivateServer ==
    /\ Idle
    /\ state # "Uninitialized" /\ map < MaxMaps
    /\ map' = map + 1
    /\ nextMessageID' = nextMessageID + (IF state = "HandshakeCompleted" THEN 1 ELSE 0)
    /\ LET message == Message("map-change", nextMessageID, {}, map')
       IN  IF state = "HandshakeCompleted"
           THEN /\ outgoing' = <<message>>
                /\ messageCallbacks' = messageCallbacks \cup {message}
           ELSE UNCHANGED <<outgoing, messageCallbacks>>
    /\ UNCHANGED <<state, queue, whenConnectedQueue, mapInfo, callbacks, storing,
                   players, authorized, skipped, wsVars, apiVars>>

(***************************************************************************)
(* The specification.                                                      *)
(***************************************************************************)
LossKinds == {"retry", "policy", "final"}

WebSocketThread ==
    \/ OnOpen
    \/ OnOpenQueue
    \/ \E kind \in LossKinds : OnClose(kind) \/ OnError(kind)
    \/ OnMessage

MainThread ==
    \/ InitService
    \/ InitDisabled
    \/ StoreState
    \/ SocketSend
    \/ OnServerGamePostSimulate
    \/ InitiateHandshake
    \/ CompleteHandshake
    \/ RunSend
    \/ ExecuteMessageCallback
    \/ \E p \in Players : OnPlayerAuthorized(p) \/ OnClientDisconnect(p)
    \/ OnActivateServer

Next == WebSocketThread \/ MainThread

Spec == Init /\ [][Next]_vars

-----------------------------------------------------------------------------
(***************************************************************************)
(* Properties.                                                             *)
(***************************************************************************)
Jobs ==
    {InitiateHandshakeCB} \cup
    [run : {"CompleteHandshake"}, map : Nat, link : Nat] \cup
    [run : {"ExecuteMessageCallback"}, message : Messages] \cup
    [run : {"SendMessage"}, event : Events, players : SUBSET Players]

TypeOK ==
    /\ state \in State
    /\ queue \in Seq(Jobs) /\ whenConnectedQueue \in Seq(Jobs) /\ callbacks \in Seq(Jobs)
    /\ messageCallbacks \subseteq Messages /\ nextMessageID \in Nat /\ mapInfo \in Nat
    /\ outgoing \in Seq(Messages) /\ Len(outgoing) <= 1
    /\ storing \in Seq(State) /\ Len(storing) <= 1
    /\ players \subseteq Players /\ skipped \subseteq players /\ authorized \in Nat /\ map \in Nat
    /\ started \in BOOLEAN /\ open \in BOOLEAN /\ reconnect \in BOOLEAN
    /\ opened \in BOOLEAN /\ helloSent \in BOOLEAN /\ acked \in BOOLEAN
    /\ links \in Nat /\ frames \in Seq(Messages) /\ known \subseteq Players

InitiatePending ==
    opened \/ InitiateHandshakeCB \in ToSet(queue) \cup ToSet(callbacks)

\* The state Connected is one the main thread will leave: the callback that
\* starts the handshake is queued, about to be, or under way.
ConnectedIsHandled ==
    state = "Connected" => InitiatePending \/ storing = <<"HandshakeInitiated">>

\* The service gives up only on a link that is down and that the library
\* will not open again.
GivesUpForGood == state = "Disconnected" => ~open /\ (started => ~reconnect)

\* A player authorized before the handshake is initiated is left to the
\* handshake, and the handshake does tell the API of him: whatever links came
\* and went, when one is completed on the open link nobody was forgotten.
SkippedAreAnnounced ==
    (state = "HandshakeCompleted" /\ open /\ acked) => skipped \subseteq known

\* What the state says of the connection is true: Connected is on its way to a
\* handshake, Disconnected is for good, and HandshakeCompleted forgot nobody.
StateIsTrue == ConnectedIsHandled /\ GivesUpForGood /\ SkippedAreAnnounced

\* Every answer under way finds its callback waiting, unless it is the
\* HelloAck, so none is lost to a callback that was dropped or ran before.
AnswersAreAwaited ==
    LET underWay == ToSet(frames) \cup
                    {job.message : job \in {j \in ToSet(queue) \cup ToSet(callbacks) :
                                               j.run = "ExecuteMessageCallback"}}
    IN  \A message \in underWay : message.event # "hello" => message \in messageCallbacks

\* The service never goes back to the map of before, whatever is still queued
\* when a link is lost and another handshake tells of the map.
MapInfoMovesForward == [][mapInfo' >= mapInfo]_vars

\* The state HandshakeInitiated means the hello was sent; with nothing left
\* to send it, there is no other way to an answer.
HelloWasSent ==
    (state = "HandshakeInitiated" /\ open /\ Ready /\ ~InitiatePending) => helloSent

\* With everything delivered and run, the current map the service tells of is
\* the map the server plays.
CurrentMapIsCurrent ==
    (/\ state = "HandshakeCompleted" /\ open /\ acked
     /\ Idle /\ queue = <<>> /\ frames = <<>>)
        => mapInfo = map
=============================================================================
