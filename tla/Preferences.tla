----------------------------- MODULE Preferences -----------------------------
(***************************************************************************)
(* The preferences of the players who use one slot of the server, one      *)
(* after the other: SurfOptionService (surf/option), the database round    *)
(* trip of a player (surf/db/setup_client, save_prefs), the join and leave *)
(* messages to the API (surf/global), and the mode and style managers,     *)
(* which apply the preferredMode and preferredStyles of a set that was     *)
(* loaded.                                                                 *)
(*                                                                         *)
(* A set of preferences holds a value or nothing for each key, and the     *)
(* time it was saved at (0: not stamped).  Whether a listener still        *)
(* applies what was loaded (less than 30 s in the server and no timer      *)
(* running) is chosen freely.                                              *)
(*                                                                         *)
(* A definition marked "Defect" is not part of the model: it is the next   *)
(* definition with a bug in it, which the properties must tell apart.      *)
(***************************************************************************)
EXTENDS Integers, Sequences

CONSTANTS
    Players, NoPlayer,
    OtherKeys,          \* the keys no listener writes back
    ValuesOf,           \* player -> the values the player chooses from
    Absent,             \* a key without a value
    DefaultMode,        \* the server's defaultMode
    DefaultStyles,      \* the server's defaultStyles ...
    NoStyles,           \* ... which may be none
    FirstStored,        \* player -> sets the database may start with
    FirstGlobal,        \* player -> sets the API may start with
    Broken,             \* a set that is not valid JSON
    MaxSkew,            \* SURF_PREF_STAMP_MAX_SKEW
    MaxSessions,        \* bound: sessions of the slot
    MaxTime,            \* bound: the clock
    MaxChoices,         \* bound: preferences a player sets in a session
    MaxLosses           \* bound: links to the API that are lost

Mode   == "preferredMode"
Styles == "preferredStyles"
Keys   == {Mode, Styles} \cup OtherKeys

AllValues == (UNION {ValuesOf[p] : p \in Players}) \cup {DefaultMode, DefaultStyles, NoStyles}
Sets      == [stamp : Nat, values : [Keys -> AllValues \cup {Absent}]]
Empty     == [stamp |-> 0, values |-> [k \in Keys |-> Absent]]

ASSUME PreferenceAssumption ==
    /\ NoPlayer \notin Players
    /\ OtherKeys \cap {Mode, Styles} = {}
    /\ Absent \notin AllValues
    /\ Broken \notin Sets /\ Absent \notin Sets
    /\ FirstStored \in [Players -> SUBSET (Sets \cup {Broken})]
    /\ FirstGlobal \in [Players -> SUBSET (Sets \cup {Broken})]
    /\ MaxSkew \in Nat /\ MaxSessions \in Nat /\ MaxTime \in Nat
    /\ MaxChoices \in Nat /\ MaxLosses \in Nat

VARIABLES
    \* the slot: its session (the user ID), who is there, and how far
    session, owner, authenticated, inGame,
    \* SurfOptionService
    dataState, currentState, loadedStamp, localLoaded, globalLoaded, prefKV, userSetPrefs,
    \* the mode and the styles the player plays with
    playing,
    \* SurfDatabaseService, its thread, and the Players table
    dbReady, isSetUp, transactions, results, stored,
    \* SurfGlobalService, the socket, and the API
    state, whenConnected, requests, acks, global, losses,
    clock,
    \* of this session: what the player chose, and the sets that arrived
    chosen, choices, arrived

slotVars   == <<session, owner, authenticated, inGame>>
guardVars  == <<localLoaded, globalLoaded>>
optionVars == <<dataState, currentState, loadedStamp, guardVars, prefKV, userSetPrefs>>
dbVars     == <<dbReady, isSetUp, transactions, results, stored>>
apiVars    == <<state, whenConnected, requests, acks, global, losses>>
ghostVars  == <<chosen, choices, arrived>>
vars == <<slotVars, optionVars, playing, dbVars, apiVars, clock, ghostVars>>

NoneState == 0
LocalState == 1
GlobalState == 2
Nowhere == [k \in Keys |-> Absent]
Nothing == Absent           \* no legible set of this source has arrived

\* Reset gives the slot the default styles by AddStyle, which records them.
StartPrefs == IF DefaultStyles = NoStyles THEN Nowhere
              ELSE [Nowhere EXCEPT ![Styles] = DefaultStyles]
StartUserSet == IF DefaultStyles = NoStyles THEN {} ELSE {Styles}
StartPlaying == [mode |-> DefaultMode, styles |-> DefaultStyles]

Tables(first) == {t \in [Players -> UNION {first[p] : p \in Players}] :
                     \A p \in Players : t[p] \in first[p]}

Init ==
    /\ session = 0 /\ owner = NoPlayer /\ authenticated = FALSE /\ inGame = FALSE
    /\ dataState = NoneState /\ currentState = NoneState /\ loadedStamp = 0
    /\ localLoaded = FALSE /\ globalLoaded = FALSE
    /\ prefKV = StartPrefs /\ userSetPrefs = StartUserSet /\ playing = StartPlaying
    /\ dbReady = FALSE /\ isSetUp = FALSE /\ transactions = <<>> /\ results = <<>>
    /\ stored \in Tables(FirstStored)
    /\ state = "Disconnected" /\ whenConnected = <<>> /\ requests = <<>> /\ acks = <<>>
    /\ global \in Tables(FirstGlobal)
    /\ losses = 0 /\ clock = 1
    /\ chosen = Nowhere /\ choices = 0 /\ arrived = [local |-> Nothing, global |-> Nothing]

(***************************************************************************)
(* Sets that arrive.                                                       *)
(***************************************************************************)
\* A stamp that is too far in the future is no stamp.
ReadPrefsStamp(set) == IF set.stamp > clock + MaxSkew THEN 0 ELSE set.stamp

\* Defect: the tier alone decides.
ShouldApplyTier(stamp, tier) == tier > dataState

ShouldApplyPrefs(stamp, tier) ==
    \/ dataState = NoneState
    \/ IF stamp # 0 /\ loadedStamp # 0 THEN stamp > loadedStamp ELSE tier > dataState

\* Defect: what the player set is overwritten as well.
MergeAll(set) ==
    [k \in Keys |-> IF set.values[k] # Absent THEN set.values[k] ELSE prefKV[k]]

\* Every key of the set, but for those the player has set.
MergePreferences(set) ==
    [k \in Keys |-> IF set.values[k] # Absent /\ k \notin userSetPrefs
                    THEN set.values[k] ELSE prefKV[k]]

\* What the listeners of the modes and the styles make of preferences: the
\* mode is switched when it is another one, the styles are always given
\* again; both are then recorded as if the player had set them.
WantedMode(prefs)   == IF prefs[Mode] = Absent THEN DefaultMode ELSE prefs[Mode]
WantedStyles(prefs) == IF prefs[Styles] = Absent THEN DefaultStyles ELSE prefs[Styles]
Recorded(prefs) ==
    (IF WantedMode(prefs) # playing.mode THEN {Mode} ELSE {})
        \cup (IF WantedStyles(prefs) # NoStyles THEN {Styles} ELSE {})

\* CALL_FORWARD(OnPlayerPreferenceLoaded).
PreferencesLoaded(prefs, loaded) ==
    /\ currentState' = loaded
    /\ \/ /\ playing' = [mode |-> WantedMode(prefs), styles |-> WantedStyles(prefs)]
          /\ prefKV' = [k \in Keys |-> CASE k = Mode /\ k \in Recorded(prefs) -> WantedMode(prefs)
                                         [] k = Styles /\ k \in Recorded(prefs) -> WantedStyles(prefs)
                                         [] OTHER -> prefs[k]]
          /\ userSetPrefs' = userSetPrefs \cup Recorded(prefs)
       \/ prefKV' = prefs /\ UNCHANGED <<playing, userSetPrefs>>

\* InitializeLocalPrefs and InitializeGlobalPrefs, once the guard is passed.
Apply(set, tier) ==
    IF set # Broken /\ ShouldApplyPrefs(ReadPrefsStamp(set), tier)
    THEN /\ loadedStamp' = ReadPrefsStamp(set)
         /\ dataState' = tier
         /\ IF inGame THEN PreferencesLoaded(MergePreferences(set), tier)
            ELSE /\ prefKV' = MergePreferences(set)
                 /\ UNCHANGED <<currentState, userSetPrefs, playing>>
    ELSE UNCHANGED <<dataState, currentState, loadedStamp, prefKV, userSetPrefs, playing>>

Arrival(set) == IF set = Broken THEN Nothing ELSE [set EXCEPT !.stamp = ReadPrefsStamp(set)]

InitializeLocalPrefs(set) ==
    IF localLoaded THEN UNCHANGED <<optionVars, playing, arrived>>
    ELSE /\ localLoaded' = TRUE /\ UNCHANGED globalLoaded
         /\ arrived' = [arrived EXCEPT !.local = Arrival(set)]
         /\ Apply(set, LocalState)

InitializeGlobalPrefs(set) ==
    IF globalLoaded THEN UNCHANGED <<optionVars, playing, arrived>>
    ELSE /\ globalLoaded' = TRUE /\ UNCHANGED localLoaded
         /\ arrived' = [arrived EXCEPT !.global = Arrival(set)]
         /\ Apply(set, GlobalState)

(***************************************************************************)
(* The slot.                                                               *)
(***************************************************************************)
Connect(p) ==
    /\ owner = NoPlayer /\ session < MaxSessions
    /\ owner' = p /\ session' = session + 1
    /\ UNCHANGED <<authenticated, inGame, optionVars, playing, dbVars, apiVars, clock, ghostVars>>

\* OnAuthorized: SetupClient, which is given up when the database is not
\* ready, and the join, which is sent, kept for the handshake, or left out.
SetupClient ==
    transactions' = IF dbReady
                    THEN Append(transactions, [run |-> "setup", session |-> session, player |-> owner])
                    ELSE transactions

Join(p) == [event |-> "player-join", player |-> p, set |-> Empty]

OnPlayerAuthorized ==
    CASE state = "HandshakeCompleted" ->
             requests' = Append(requests, Join(owner)) /\ UNCHANGED whenConnected
      [] state = "HandshakeInitiated" ->
             whenConnected' = Append(whenConnected, Join(owner)) /\ UNCHANGED requests
      [] OTHER -> UNCHANGED <<requests, whenConnected>>

OnAuthorized ==
    /\ owner # NoPlayer /\ ~authenticated
    /\ authenticated' = TRUE
    /\ SetupClient
    /\ OnPlayerAuthorized
    /\ UNCHANGED <<session, owner, inGame, optionVars, playing, dbReady, isSetUp, results,
                   stored, state, acks, global, losses, clock, ghostVars>>

OnPlayerActive ==
    /\ owner # NoPlayer /\ ~inGame
    /\ inGame' = TRUE
    /\ IF currentState <= dataState
       THEN PreferencesLoaded(prefKV, dataState)
       ELSE UNCHANGED <<currentState, prefKV, userSetPrefs, playing>>
    /\ UNCHANGED <<session, owner, authenticated, dataState, loadedStamp, guardVars, dbVars,
                   apiVars, clock, ghostVars>>

\* SetPreference*: by the command of a player, who switches to another mode,
\* to other styles, or toggles something else.
SetPreference(k, v) ==
    /\ inGame /\ choices < MaxChoices
    /\ k = Mode => v # playing.mode
    /\ prefKV' = [prefKV EXCEPT ![k] = v]
    /\ userSetPrefs' = userSetPrefs \cup {k}
    /\ playing' = CASE k = Mode -> [playing EXCEPT !.mode = v]
                    [] k = Styles -> [playing EXCEPT !.styles = v]
                    [] OTHER -> playing
    /\ chosen' = [chosen EXCEPT ![k] = v] /\ choices' = choices + 1
    /\ UNCHANGED <<slotVars, dataState, currentState, loadedStamp, guardVars, dbVars, apiVars,
                   clock, arrived>>

\* Both saves are stamped with the time they are made at.
Saved == [stamp |-> clock, values |-> prefKV]

\* A player whose setup never came back is not saved; the slot remembers the
\* setup of an earlier session.
SaveLocalPrefs ==
    transactions' = IF authenticated /\ dbReady /\ isSetUp
                    THEN Append(transactions, [run |-> "save", player |-> owner, set |-> Saved])
                    ELSE transactions

OnClientDisconnect ==
    requests' = IF authenticated /\ state = "HandshakeCompleted"
                THEN Append(requests, [event |-> "player-leave", player |-> owner, set |-> Saved])
                ELSE requests

Reset ==
    /\ dataState' = NoneState /\ currentState' = NoneState /\ loadedStamp' = 0
    /\ localLoaded' = FALSE /\ globalLoaded' = FALSE
    /\ prefKV' = StartPrefs /\ userSetPrefs' = StartUserSet /\ playing' = StartPlaying

Disconnect ==
    /\ owner # NoPlayer
    /\ owner' = NoPlayer /\ authenticated' = FALSE /\ inGame' = FALSE
    /\ SaveLocalPrefs
    /\ OnClientDisconnect
    /\ Reset
    /\ chosen' = Nowhere /\ choices' = 0 /\ arrived' = [local |-> Nothing, global |-> Nothing]
    /\ UNCHANGED <<session, dbReady, isSetUp, results, stored, state, whenConnected, acks,
                   global, losses, clock>>

(***************************************************************************)
(* The database.                                                           *)
(***************************************************************************)
\* The migrations are done.
DatabaseReady ==
    /\ ~dbReady /\ dbReady' = TRUE
    /\ UNCHANGED <<slotVars, optionVars, playing, isSetUp, transactions, results, stored,
                   apiVars, clock, ghostVars>>

\* The thread runs a transaction; one that fails is not tried again.
RunTransaction ==
    /\ transactions # <<>>
    /\ transactions' = Tail(transactions)
    /\ LET t == Head(transactions)
       IN  IF t.run = "setup"
           THEN /\ results' = Append(results, [session |-> t.session, set |-> stored[t.player]])
                /\ UNCHANGED stored
           ELSE /\ stored' = [stored EXCEPT ![t.player] = t.set]
                /\ UNCHANGED results
    /\ UNCHANGED <<slotVars, optionVars, playing, dbReady, isSetUp, apiVars, clock, ghostVars>>

TransactionFails ==
    /\ transactions # <<>>
    /\ transactions' = Tail(transactions)
    /\ UNCHANGED <<slotVars, optionVars, playing, dbReady, isSetUp, results, stored, apiVars,
                   clock, ghostVars>>

\* Defect: the answer is for whoever is in the slot by then.
ClientIsSetupAnyone ==
    /\ results # <<>>
    /\ results' = Tail(results)
    /\ IF authenticated
       THEN isSetUp' = TRUE /\ InitializeLocalPrefs(Head(results).set)
       ELSE UNCHANGED <<isSetUp, optionVars, playing, arrived>>
    /\ UNCHANGED <<slotVars, dbReady, transactions, stored, apiVars, clock, chosen, choices>>

\* The callback of SetupClient: for the session that asked.
ClientIsSetup ==
    /\ results # <<>>
    /\ results' = Tail(results)
    /\ IF authenticated /\ session = Head(results).session
       THEN isSetUp' = TRUE /\ InitializeLocalPrefs(Head(results).set)
       ELSE UNCHANGED <<isSetUp, optionVars, playing, arrived>>
    /\ UNCHANGED <<slotVars, dbReady, transactions, stored, apiVars, clock, chosen, choices>>

(***************************************************************************)
(* The API.                                                                *)
(***************************************************************************)
InitiateHandshake ==
    /\ state = "Disconnected" /\ state' = "HandshakeInitiated"
    /\ UNCHANGED <<slotVars, optionVars, playing, dbVars, whenConnected, requests, acks, global,
                   losses, clock, ghostVars>>

CompleteHandshake ==
    /\ state = "HandshakeInitiated" /\ state' = "HandshakeCompleted"
    /\ UNCHANGED <<slotVars, optionVars, playing, dbVars, whenConnected, requests, acks, global,
                   losses, clock, ghostVars>>

\* The joins kept for the handshake leave in a later frame.
RunWhenConnected ==
    /\ state = "HandshakeCompleted" /\ whenConnected # <<>>
    /\ requests' = requests \o whenConnected /\ whenConnected' = <<>>
    /\ UNCHANGED <<slotVars, optionVars, playing, dbVars, state, acks, global, losses, clock,
                   ghostVars>>

\* What is on the wire is lost.
LinkLost ==
    /\ state # "Disconnected" /\ losses < MaxLosses
    /\ state' = "Disconnected" /\ losses' = losses + 1
    /\ requests' = <<>> /\ acks' = <<>>
    /\ UNCHANGED <<slotVars, optionVars, playing, dbVars, whenConnected, global, clock, ghostVars>>

ApiHandles ==
    /\ requests # <<>>
    /\ requests' = Tail(requests)
    /\ LET r == Head(requests)
       IN  IF r.event = "player-join"
           THEN acks' = Append(acks, [player |-> r.player, set |-> global[r.player]])
                /\ UNCHANGED global
           ELSE global' = [global EXCEPT ![r.player] = r.set] /\ UNCHANGED acks
    /\ UNCHANGED <<slotVars, optionVars, playing, dbVars, state, whenConnected, losses, clock,
                   ghostVars>>

\* Defect: the answer is for whoever is in the slot by then.
PlayerJoinAckAnyone ==
    /\ acks # <<>>
    /\ acks' = Tail(acks)
    /\ IF authenticated THEN InitializeGlobalPrefs(Head(acks).set)
       ELSE UNCHANGED <<optionVars, playing, arrived>>
    /\ UNCHANGED <<slotVars, dbVars, state, whenConnected, requests, global, losses, clock,
                   chosen, choices>>

\* The callback of player-join: for the player, in whatever session.
PlayerJoinAck ==
    /\ acks # <<>>
    /\ acks' = Tail(acks)
    /\ IF authenticated /\ owner = Head(acks).player
       THEN InitializeGlobalPrefs(Head(acks).set)
       ELSE UNCHANGED <<optionVars, playing, arrived>>
    /\ UNCHANGED <<slotVars, dbVars, state, whenConnected, requests, global, losses, clock,
                   chosen, choices>>

Tick ==
    /\ clock < MaxTime /\ clock' = clock + 1
    /\ UNCHANGED <<slotVars, optionVars, playing, dbVars, apiVars, ghostVars>>

Choice == \E k \in Keys, v \in ValuesOf[owner] : SetPreference(k, v)

Next ==
    \/ \E p \in Players : Connect(p)
    \/ OnAuthorized \/ OnPlayerActive \/ Disconnect
    \/ owner # NoPlayer /\ Choice
    \/ DatabaseReady \/ RunTransaction \/ TransactionFails \/ ClientIsSetup
    \/ InitiateHandshake \/ CompleteHandshake \/ RunWhenConnected \/ LinkLost
    \/ ApiHandles \/ PlayerJoinAck
    \/ Tick

Spec == Init /\ [][Next]_vars

-----------------------------------------------------------------------------
\* Every variable has its type, and nothing of a session is left in an empty
\* slot: what is loaded belongs to a player (SurfPlayer::Reset).
SlotIsEmpty ==
    /\ ~authenticated /\ ~inGame
    /\ dataState = NoneState /\ currentState = NoneState /\ loadedStamp = 0
    /\ ~localLoaded /\ ~globalLoaded
    /\ prefKV = StartPrefs /\ userSetPrefs = StartUserSet
    /\ chosen = Nowhere /\ arrived = [local |-> Nothing, global |-> Nothing]

TypeOK ==
    /\ session \in Nat /\ owner \in Players \cup {NoPlayer}
    /\ authenticated \in BOOLEAN /\ inGame \in BOOLEAN
    /\ dataState \in {NoneState, LocalState, GlobalState} /\ currentState \in {NoneState, LocalState, GlobalState}
    /\ loadedStamp \in Nat /\ localLoaded \in BOOLEAN /\ globalLoaded \in BOOLEAN
    /\ prefKV \in [Keys -> AllValues \cup {Absent}] /\ userSetPrefs \subseteq Keys
    /\ dbReady \in BOOLEAN /\ isSetUp \in BOOLEAN
    /\ stored \in [Players -> Sets \cup {Broken}] /\ global \in [Players -> Sets \cup {Broken}]
    /\ owner = NoPlayer => SlotIsEmpty

\* The set that should count of the two that arrived: the one saved last when
\* both are stamped, the global one otherwise.  Of two sets with the same
\* stamp the code keeps the one that came first; there is no newest one.
Both == arrived.local # Nothing /\ arrived.global # Nothing
Stamped == arrived.local.stamp # 0 /\ arrived.global.stamp # 0
NewestOfBoth == IF Stamped /\ arrived.local.stamp > arrived.global.stamp
                THEN arrived.local ELSE arrived.global

ShowsNewest(keys) ==
    (Both /\ (Stamped => arrived.local.stamp # arrived.global.stamp)) =>
        \A k \in keys :
            (chosen[k] = Absent /\ NewestOfBoth.values[k] # Absent)
                => prefKV[k] = NewestOfBoth.values[k]

\* The set saved last wins, whichever of the database and the API answers
\* first (ShouldApplyPrefs), for the preferences no listener writes back.
NewestWins == ShowsNewest(OtherKeys)

\* The same for all preferences the player has not set in this session, as
\* surf_option.cpp:313 and surf_option.h:57 have it.  SwitchToMode and
\* AddStyle record what a listener applies as if the player had set it, so
\* the set that comes second no longer counts for the mode and the styles.
NewestWinsForAll == ShowsNewest(Keys)

\* What a player sets survives every set that arrives later: MergePreferences
\* leaves out userSetPrefs, and the listeners apply what is there.
ChoicesSurvive == \A k \in Keys : chosen[k] # Absent => prefKV[k] = chosen[k]

\* A player plays with, is saved with and is reported with values of his own
\* or of the server, whatever answer comes late and whoever had the slot
\* before (the user ID and the Steam ID the callbacks look the player up by).
Own(p, values) ==
    \A k \in Keys : values[k] \in ValuesOf[p] \cup {Absent, DefaultMode, DefaultStyles, NoStyles}
OwnSet(p, set) == set # Broken => Own(p, set.values)

\* What the database and the API start with was saved for the player himself.
ASSUME OwnFirstAssumption ==
    \A p \in Players : \A set \in FirstStored[p] \cup FirstGlobal[p] : OwnSet(p, set)

OwnPreferences ==
    /\ owner # NoPlayer =>
          /\ Own(owner, prefKV)
          /\ playing.mode \in ValuesOf[owner] \cup {DefaultMode, DefaultStyles, NoStyles}
          /\ playing.styles \in ValuesOf[owner] \cup {DefaultMode, DefaultStyles, NoStyles}
    /\ \A p \in Players : OwnSet(p, stored[p]) /\ OwnSet(p, global[p])
=============================================================================
