-------------------------- MODULE PreferencesProofs --------------------------
(***************************************************************************)
(* Proofs about what is kept outside the server.  Of Preferences, for any  *)
(* players, keys, values, sets to start with, and any number of sessions,  *)
(* choices and lost links; of PluginIDs, for any plugins, tables, number   *)
(* of migrations, of comings and goings and of failures.                   *)
(***************************************************************************)
EXTENDS Preferences, PluginIDs, ListProofs

(***************************************************************************)
(* The inductive invariant: of the slot, and of what is away from it.      *)
(***************************************************************************)
Values == AllValues \cup {Absent}
Prefs  == [Keys -> Values]
Legible == Sets \cup {Broken}
OwnValues(p) == ValuesOf[p] \cup {DefaultMode, DefaultStyles, NoStyles}

SlotTyped ==
    /\ session \in Nat /\ owner \in Players \cup {NoPlayer}
    /\ authenticated \in BOOLEAN /\ inGame \in BOOLEAN
    /\ dataState \in {NoneState, LocalState, GlobalState}
    /\ currentState \in {NoneState, LocalState, GlobalState}
    /\ loadedStamp \in Nat /\ localLoaded \in BOOLEAN /\ globalLoaded \in BOOLEAN
    /\ prefKV \in Prefs /\ userSetPrefs \subseteq Keys
    /\ playing \in [mode : AllValues, styles : AllValues]
    /\ chosen \in Prefs
    /\ arrived \in [local : Sets \cup {Nothing}, global : Sets \cup {Nothing}]
    /\ owner = NoPlayer => SlotIsEmpty /\ playing = StartPlaying

\* The player in the slot has what is his.
OwnSlot(p) == Own(p, prefKV) /\ playing.mode \in OwnValues(p) /\ playing.styles \in OwnValues(p)

\* What the player chose is marked as set by him; of the other keys nothing else is.
ChoicesAreMarked ==
    /\ \A k \in Keys : chosen[k] # Absent => k \in userSetPrefs
    /\ \A k \in OtherKeys : k \in userSetPrefs => chosen[k] # Absent

\* The preferences show the set, where the player has chosen nothing himself.
Shows(set) ==
    \A k \in OtherKeys : chosen[k] = Absent /\ set.values[k] # Absent => prefKV[k] = set.values[k]

\* As long as one set arrived, it is the one that counts, under its tier and stamp.
FirstCounts ==
    /\ ~localLoaded => arrived.local = Nothing
    /\ ~globalLoaded => arrived.global = Nothing
    /\ arrived.local = Nothing /\ arrived.global = Nothing => dataState = NoneState
    /\ arrived.local # Nothing /\ arrived.global = Nothing =>
          dataState = LocalState /\ loadedStamp = arrived.local.stamp /\ Shows(arrived.local)
    /\ arrived.local = Nothing /\ arrived.global # Nothing =>
          dataState = GlobalState /\ loadedStamp = arrived.global.stamp /\ Shows(arrived.global)

SlotInv ==
    /\ SlotTyped
    /\ owner # NoPlayer => OwnSlot(owner)
    /\ ChoicesAreMarked /\ ChoicesSurvive
    /\ FirstCounts /\ NewestWins

\* What is stored and what is under way, with the player it belongs to.
Setups == [run : {"setup"}, session : Nat, player : Players]
Saves  == {t \in [run : {"save"}, player : Players, set : Sets] : Own(t.player, t.set.values)}
Results == [session : Nat, set : Legible]
Requests == {r \in [event : {"player-join", "player-leave"}, player : Players, set : Sets] :
                Own(r.player, r.set.values)}
Acks == {a \in [player : Players, set : Legible] : OwnSet(a.player, a.set)}

TablesOwn ==
    /\ stored \in [Players -> Legible] /\ global \in [Players -> Legible]
    /\ \A p \in Players : OwnSet(p, stored[p]) /\ OwnSet(p, global[p])

QueuesOwn ==
    /\ clock \in Nat /\ dbReady \in BOOLEAN /\ isSetUp \in BOOLEAN
    /\ transactions \in Seq(Setups \cup Saves) /\ results \in Seq(Results)
    /\ requests \in Seq(Requests) /\ whenConnected \in Seq(Requests) /\ acks \in Seq(Acks)

\* A setup asks for the player of its session; its answer is of that player.
OwnSetup(t) ==
    t.run = "setup" =>
        /\ t.session <= session
        /\ t.session = session /\ owner # NoPlayer => t.player = owner
OwnResult(r) ==
    /\ r.session <= session
    /\ r.session = session /\ owner # NoPlayer => OwnSet(owner, r.set)
SessionsAreOwn ==
    /\ \A i \in 1 .. Len(transactions) : OwnSetup(transactions[i])
    /\ \A i \in 1 .. Len(results) : OwnResult(results[i])

AwayInv == TablesOwn /\ QueuesOwn /\ SessionsAreOwn

PrefInv == SlotInv /\ AwayInv

(***************************************************************************)
(* Sequences, sets of preferences, and the operators of Preferences.       *)
(***************************************************************************)
\* What Tail leaves of a queue is the queue without its first member.
LEMMA TailKeeps ==
    ASSUME NEW S, NEW q \in Seq(S), q # <<>>
    PROVE  /\ Head(q) \in S /\ Tail(q) \in Seq(S)
           /\ 1 \in 1 .. Len(q) /\ Head(q) = q[1]
           /\ \A i \in 1 .. Len(Tail(q)) : i + 1 \in 1 .. Len(q) /\ Tail(q)[i] = q[i + 1]
OBVIOUS

\* What Append makes of a queue is the queue and its new last member.
LEMMA AppendAdds ==
    ASSUME NEW S, NEW q \in Seq(S), NEW e \in S
    PROVE  /\ Append(q, e) \in Seq(S)
           /\ \A i \in 1 .. Len(Append(q, e)) :
                 \/ i \in 1 .. Len(q) /\ Append(q, e)[i] = q[i]
                 \/ Append(q, e)[i] = e
OBVIOUS

\* Two queues one after the other are a queue of the same.
LEMMA JoinedKeeps ==
    ASSUME NEW S, NEW q \in Seq(S), NEW r \in Seq(S)
    PROVE  q \o r \in Seq(S) /\ <<>> \in Seq(S)
OBVIOUS

\* The values and the keys of the players and of the server.
LEMMA Domains ==
    /\ Mode \in Keys /\ Styles \in Keys /\ OtherKeys \subseteq Keys /\ Mode # Styles
    /\ Mode \notin OtherKeys /\ Styles \notin OtherKeys
    /\ DefaultMode \in AllValues /\ DefaultStyles \in AllValues /\ NoStyles \in AllValues
    /\ Absent \notin AllValues /\ NoPlayer \notin Players
    /\ \A p \in Players : OwnValues(p) \subseteq AllValues /\ ValuesOf[p] \subseteq AllValues
BY PreferenceAssumption DEF Keys, Mode, Styles, AllValues, OwnValues

\* A set has a stamp and values, and nothing else is one.
LEMMA SetsHave ==
    /\ \A set \in Sets : set.stamp \in Nat /\ set.values \in Prefs /\ set # Broken /\ set # Nothing
    /\ \A n \in Nat, v \in Prefs : [stamp |-> n, values |-> v] \in Sets
    /\ Broken # Nothing => Broken \notin Sets \cup {Nothing}
BY PreferenceAssumption DEF Sets, Prefs, Values, Nothing

\* The empty set of preferences belongs to anyone.
LEMMA EmptyIsOwn ==
    /\ Nowhere \in Prefs /\ Empty \in Sets
    /\ \A p \in Players : Own(p, Empty.values)
BY SetsHave DEF Nowhere, Empty, Prefs, Values, Own

\* The slot starts with the server's defaults, and no other key is marked.
LEMMA StartIsOwn ==
    /\ StartPrefs \in Prefs /\ StartUserSet \subseteq Keys
    /\ StartPlaying \in [mode : AllValues, styles : AllValues]
    /\ \A p \in Players : /\ Own(p, StartPrefs)
                          /\ StartPlaying.mode \in OwnValues(p)
                          /\ StartPlaying.styles \in OwnValues(p)
    /\ \A k \in OtherKeys : k \notin StartUserSet
BY Domains DEF StartPrefs, StartUserSet, StartPlaying, Nowhere, Prefs, Values, Own, OwnValues

\* The stamp of a set that arrives is its own or none.
LEMMA StampTyped ==
    ASSUME NEW set \in Sets
    PROVE  ReadPrefsStamp(set) \in Nat
BY SetsHave DEF ReadPrefsStamp

\* A set that arrives keeps its values, and is there unless it is broken.
LEMMA ArrivalKeeps ==
    ASSUME NEW set \in Legible
    PROVE  /\ Arrival(set) \in Sets \cup {Nothing}
           /\ set = Broken => Arrival(set) = Nothing
           /\ set # Broken => /\ Arrival(set) \in Sets /\ Arrival(set) # Nothing
                              /\ Arrival(set).stamp = ReadPrefsStamp(set)
                              /\ Arrival(set).values = set.values
<1>1. CASE set = Broken
    BY <1>1 DEF Arrival
<1>2. CASE set # Broken
    <2>1. set \in Sets
        BY <1>2 DEF Legible
    <2>2. Arrival(set) = [set EXCEPT !.stamp = ReadPrefsStamp(set)]
        BY <1>2 DEF Arrival
    <2>3. Arrival(set) \in Sets /\ Arrival(set).stamp = ReadPrefsStamp(set)
              /\ Arrival(set).values = set.values
        BY <2>1, <2>2, StampTyped DEF Sets
    <2> QED BY <1>2, <2>3, SetsHave
<1> QED BY <1>1, <1>2

\* MergePreferences gives the keys of the set that the player has not set.
LEMMA MergeKeeps ==
    ASSUME NEW set \in Sets, prefKV \in Prefs
    PROVE  /\ MergePreferences(set) \in Prefs
           /\ \A k \in Keys :
                 MergePreferences(set)[k] =
                    IF set.values[k] # Absent /\ k \notin userSetPrefs THEN set.values[k] ELSE prefKV[k]
           /\ \A p \in Players :
                 Own(p, prefKV) /\ Own(p, set.values) => Own(p, MergePreferences(set))
BY SetsHave DEF MergePreferences, Prefs, Own

\* What the listeners make of preferences is the player's own, keeps every
\* value there is, and marks only the mode and the styles.
LEMMA LoadedKeeps ==
    ASSUME NEW prefs \in Prefs, NEW loaded, NEW p \in Players, Own(p, prefs),
           playing \in [mode : AllValues, styles : AllValues],
           playing.mode \in OwnValues(p), playing.styles \in OwnValues(p),
           userSetPrefs \subseteq Keys,
           PreferencesLoaded(prefs, loaded)
    PROVE  /\ currentState' = loaded
           /\ prefKV' \in Prefs /\ userSetPrefs' \subseteq Keys
           /\ playing' \in [mode : AllValues, styles : AllValues]
           /\ Own(p, prefKV') /\ playing'.mode \in OwnValues(p) /\ playing'.styles \in OwnValues(p)
           /\ \A k \in Keys : prefs[k] # Absent => prefKV'[k] = prefs[k]
           /\ \A k \in OtherKeys : prefKV'[k] = prefs[k]
           /\ userSetPrefs \subseteq userSetPrefs'
           /\ \A k \in OtherKeys : k \in userSetPrefs' => k \in userSetPrefs
<1>1. CASE prefKV' = prefs /\ UNCHANGED <<playing, userSetPrefs>>
    BY <1>1, Domains DEF PreferencesLoaded
<1>2. CASE /\ playing' = [mode |-> WantedMode(prefs), styles |-> WantedStyles(prefs)]
           /\ prefKV' = [k \in Keys |-> CASE k = Mode /\ k \in Recorded(prefs) -> WantedMode(prefs)
                                          [] k = Styles /\ k \in Recorded(prefs) -> WantedStyles(prefs)
                                          [] OTHER -> prefs[k]]
           /\ userSetPrefs' = userSetPrefs \cup Recorded(prefs)
    <2>1. WantedMode(prefs) \in OwnValues(p) /\ WantedStyles(prefs) \in OwnValues(p)
        BY Domains DEF WantedMode, WantedStyles, OwnValues, Own
    <2>2. Recorded(prefs) \subseteq {Mode, Styles}
        BY DEF Recorded
    <2>3. /\ prefs[Mode] # Absent => WantedMode(prefs) = prefs[Mode]
          /\ prefs[Styles] # Absent => WantedStyles(prefs) = prefs[Styles]
        BY DEF WantedMode, WantedStyles
    <2>4. \A k \in Keys :
             \/ k = Mode /\ prefKV'[k] = WantedMode(prefs)
             \/ k = Styles /\ prefKV'[k] = WantedStyles(prefs)
             \/ prefKV'[k] = prefs[k]
        BY <1>2, Domains
    <2>5. \A k \in OtherKeys : prefKV'[k] = prefs[k]
        BY <2>4, Domains
    <2>6. \A k \in Keys : prefKV'[k] \in Values /\ prefKV'[k] \in OwnValues(p) \cup {Absent}
        <3> TAKE k \in Keys
        <3>1. prefs[k] \in Values /\ prefs[k] \in OwnValues(p) \cup {Absent}
            BY DEF Prefs, Own, OwnValues
        <3> QED BY <3>1, <2>1, <2>4, Domains DEF Values
    <2>7. prefKV' = [k \in Keys |-> prefKV'[k]]
        BY <1>2
    <2>8. prefKV' \in Prefs
        BY <2>6, <2>7 DEF Prefs
    <2>9. Own(p, prefKV')
        BY <2>6 DEF Own, OwnValues
    <2>10. \A k \in Keys : prefs[k] # Absent => prefKV'[k] = prefs[k]
        BY <2>3, <2>4
    <2>11. /\ playing' \in [mode : AllValues, styles : AllValues]
           /\ playing'.mode \in OwnValues(p) /\ playing'.styles \in OwnValues(p)
        BY <1>2, <2>1, Domains
    <2>12. /\ userSetPrefs' \subseteq Keys /\ userSetPrefs \subseteq userSetPrefs'
           /\ \A k \in OtherKeys : k \in userSetPrefs' => k \in userSetPrefs
        BY <1>2, <2>2, Domains
    <2> QED BY <2>5, <2>8, <2>9, <2>10, <2>11, <2>12 DEF PreferencesLoaded
<1> QED BY <1>1, <1>2 DEF PreferencesLoaded

(***************************************************************************)
(* The slot keeps its invariant when a set is applied.                     *)
(***************************************************************************)
\* The set of a player that is applied leaves the slot well typed, his own
\* and with what he chose; either its keys are then shown, under its tier and
\* stamp, or it is as if it had not come.
Taken(set, tier) ==
    /\ set \in Sets /\ ShouldApplyPrefs(ReadPrefsStamp(set), tier)
    /\ dataState' = tier /\ loadedStamp' = ReadPrefsStamp(set)
    /\ \A k \in OtherKeys : chosen[k] = Absent =>
          prefKV'[k] = IF set.values[k] # Absent THEN set.values[k] ELSE prefKV[k]
PassedOver(set, tier) ==
    /\ set = Broken \/ ~ShouldApplyPrefs(ReadPrefsStamp(set), tier)
    /\ dataState' = dataState /\ loadedStamp' = loadedStamp /\ prefKV' = prefKV

LEMMA Applied ==
    ASSUME SlotTyped, owner \in Players, OwnSlot(owner), ChoicesAreMarked, ChoicesSurvive,
           NEW set \in Legible, OwnSet(owner, set), NEW tier \in {LocalState, GlobalState},
           Apply(set, tier)
    PROVE  /\ dataState' \in {NoneState, LocalState, GlobalState} /\ loadedStamp' \in Nat
           /\ currentState' \in {NoneState, LocalState, GlobalState}
           /\ prefKV' \in Prefs /\ userSetPrefs' \subseteq Keys
           /\ playing' \in [mode : AllValues, styles : AllValues]
           /\ Own(owner, prefKV')
           /\ playing'.mode \in OwnValues(owner) /\ playing'.styles \in OwnValues(owner)
           /\ userSetPrefs \subseteq userSetPrefs'
           /\ \A k \in OtherKeys : k \in userSetPrefs' => k \in userSetPrefs
           /\ \A k \in Keys : chosen[k] # Absent => prefKV'[k] = chosen[k]
           /\ Taken(set, tier) \/ PassedOver(set, tier)
<1>1. CASE set # Broken /\ ShouldApplyPrefs(ReadPrefsStamp(set), tier)
    <2> DEFINE merged == MergePreferences(set)
    <2>1. set \in Sets /\ ReadPrefsStamp(set) \in Nat
        BY <1>1, StampTyped DEF Legible
    <2>2. merged \in Prefs /\ Own(owner, merged)
        BY <1>1, <2>1, MergeKeeps DEF SlotTyped, OwnSlot, OwnSet
    <2>3. \A k \in Keys : chosen[k] # Absent => merged[k] = chosen[k] /\ merged[k] # Absent
        BY <2>1, MergeKeeps DEF SlotTyped, ChoicesAreMarked, ChoicesSurvive
    <2>4. \A k \in OtherKeys : chosen[k] = Absent =>
             merged[k] = IF set.values[k] # Absent THEN set.values[k] ELSE prefKV[k]
        BY <2>1, MergeKeeps, Domains DEF SlotTyped, ChoicesAreMarked
    <2>5. dataState' = tier /\ loadedStamp' = ReadPrefsStamp(set)
        BY <1>1 DEF Apply
    <2> HIDE DEF merged
    <2>6. CASE inGame
        <3>1. PreferencesLoaded(merged, tier)
            BY <1>1, <2>6 DEF Apply, merged
        <3>2. playing \in [mode : AllValues, styles : AllValues] /\ userSetPrefs \subseteq Keys
            BY DEF SlotTyped
        <3>3. playing.mode \in OwnValues(owner) /\ playing.styles \in OwnValues(owner)
            BY DEF OwnSlot
        <3>4. /\ currentState' = tier
              /\ prefKV' \in Prefs /\ userSetPrefs' \subseteq Keys
              /\ playing' \in [mode : AllValues, styles : AllValues]
              /\ Own(owner, prefKV')
              /\ playing'.mode \in OwnValues(owner) /\ playing'.styles \in OwnValues(owner)
              /\ \A k \in Keys : merged[k] # Absent => prefKV'[k] = merged[k]
              /\ \A k \in OtherKeys : prefKV'[k] = merged[k]
              /\ userSetPrefs \subseteq userSetPrefs'
              /\ \A k \in OtherKeys : k \in userSetPrefs' => k \in userSetPrefs
            BY <2>2, <3>1, <3>2, <3>3, LoadedKeeps
        <3>5. Taken(set, tier)
            BY <1>1, <2>1, <2>4, <2>5, <3>4 DEF Taken
        <3>6. \A k \in Keys : chosen[k] # Absent => prefKV'[k] = chosen[k]
            BY <2>3, <3>4
        <3> QED BY <2>1, <2>5, <3>4, <3>5, <3>6
    <2>7. CASE ~inGame
        <3>1. prefKV' = merged /\ UNCHANGED <<currentState, userSetPrefs, playing>>
            BY <1>1, <2>7 DEF Apply, merged
        <3>2. Taken(set, tier)
            BY <1>1, <2>1, <2>4, <2>5, <3>1 DEF Taken
        <3> QED BY <2>1, <2>2, <2>3, <2>5, <3>1, <3>2 DEF SlotTyped, OwnSlot
    <2> QED BY <2>6, <2>7 DEF SlotTyped
<1>2. CASE ~(set # Broken /\ ShouldApplyPrefs(ReadPrefsStamp(set), tier))
    <2>1. UNCHANGED <<dataState, currentState, loadedStamp, prefKV, userSetPrefs, playing>>
        BY <1>2 DEF Apply
    <2>2. PassedOver(set, tier)
        BY <1>2, <2>1 DEF PassedOver
    <2> QED BY <2>1, <2>2 DEF SlotTyped, OwnSlot, ChoicesSurvive
<1> QED BY <1>1, <1>2

\* What the local set of the player leaves in the slot.
LEMMA LocalArrives ==
    ASSUME SlotInv, owner \in Players, NEW set \in Legible, OwnSet(owner, set),
           InitializeLocalPrefs(set),
           UNCHANGED <<session, owner, authenticated, inGame, chosen>>
    PROVE  SlotInv'
<1>1. CASE localLoaded
    BY <1>1 DEF InitializeLocalPrefs, SlotInv, SlotTyped, SlotIsEmpty, OwnSlot, Own, OwnValues,
            ChoicesAreMarked, ChoicesSurvive, FirstCounts, Shows, NewestWins, ShowsNewest, Both,
            Stamped, NewestOfBoth, optionVars, guardVars
<1>2. CASE ~localLoaded
    <2> DEFINE new == Arrival(set)
    <2>1. /\ localLoaded' = TRUE /\ globalLoaded' = globalLoaded
          /\ arrived' = [arrived EXCEPT !.local = new]
          /\ Apply(set, LocalState)
        BY <1>2 DEF InitializeLocalPrefs
    <2>2. /\ new \in Sets \cup {Nothing}
          /\ set = Broken => new = Nothing
          /\ set # Broken => /\ new \in Sets /\ new # Nothing
                             /\ new.stamp = ReadPrefsStamp(set) /\ new.values = set.values
        BY ArrivalKeeps
    <2> HIDE DEF new
    <2>3. /\ arrived' \in [local : Sets \cup {Nothing}, global : Sets \cup {Nothing}]
          /\ arrived'.local = new /\ arrived'.global = arrived.global
        BY <2>1, <2>2 DEF SlotInv, SlotTyped
    <2>4. /\ dataState' \in {NoneState, LocalState, GlobalState} /\ loadedStamp' \in Nat
          /\ currentState' \in {NoneState, LocalState, GlobalState}
          /\ prefKV' \in Prefs /\ userSetPrefs' \subseteq Keys
          /\ playing' \in [mode : AllValues, styles : AllValues]
          /\ Own(owner, prefKV')
          /\ playing'.mode \in OwnValues(owner) /\ playing'.styles \in OwnValues(owner)
          /\ userSetPrefs \subseteq userSetPrefs'
          /\ \A k \in OtherKeys : k \in userSetPrefs' => k \in userSetPrefs
          /\ \A k \in Keys : chosen[k] # Absent => prefKV'[k] = chosen[k]
          /\ Taken(set, LocalState) \/ PassedOver(set, LocalState)
        BY <2>1, Applied, Domains DEF SlotInv
    <2>5. SlotTyped'
        BY <2>1, <2>3, <2>4, Domains DEF SlotInv, SlotTyped
    <2>6. (owner # NoPlayer => OwnSlot(owner))'
        BY <2>4 DEF OwnSlot, Own, OwnValues
    <2>7. ChoicesAreMarked' /\ ChoicesSurvive'
        BY <2>4 DEF SlotInv, ChoicesAreMarked, ChoicesSurvive
    <2>8. arrived.local = Nothing
        BY <1>2 DEF SlotInv, FirstCounts
    <2>9. FirstCounts' /\ NewestWins'
        <3>1. CASE set = Broken
            <4>1. /\ dataState' = dataState /\ loadedStamp' = loadedStamp /\ prefKV' = prefKV
                  /\ arrived'.local = Nothing
                BY <3>1, <2>2, <2>3, <2>4, SetsHave DEF Taken, PassedOver
            <4> QED BY <4>1, <2>1, <2>3, <2>8 DEF SlotInv, FirstCounts, Shows, NewestWins,
                        ShowsNewest, Both
        <3>2. CASE set # Broken /\ arrived.global = Nothing
            <4>1. dataState = NoneState
                BY <2>8, <3>2 DEF SlotInv, FirstCounts
            <4>2. Taken(set, LocalState)
                BY <2>4, <3>2, <4>1 DEF PassedOver, ShouldApplyPrefs
            <4>3. Shows(arrived.local)'
                BY <2>2, <2>3, <3>2, <4>2 DEF Shows, Taken
            <4> QED BY <2>1, <2>2, <2>3, <3>2, <4>2, <4>3 DEF SlotInv, FirstCounts, Taken,
                        NewestWins, ShowsNewest, Both
        <3>3. CASE set # Broken /\ arrived.global # Nothing
            <4>1. dataState = GlobalState /\ loadedStamp = arrived.global.stamp
                     /\ Shows(arrived.global)
                BY <2>8, <3>3 DEF SlotInv, FirstCounts
            <4>2. new.stamp \in Nat /\ arrived.global.stamp \in Nat
                BY <2>2, <3>3, SetsHave DEF SlotInv, SlotTyped
            <4>3. CASE Taken(set, LocalState)
                <5>1. new.stamp # 0 /\ arrived.global.stamp # 0 /\ new.stamp > arrived.global.stamp
                    BY <2>2, <3>3, <4>1, <4>3 DEF Taken, ShouldApplyPrefs, NoneState, LocalState,
                        GlobalState
                <5>2. NewestOfBoth' = new
                    BY <2>3, <5>1 DEF NewestOfBoth, Stamped
                <5>3. \A k \in OtherKeys : chosen[k] = Absent /\ new.values[k] # Absent =>
                         prefKV'[k] = new.values[k]
                    BY <2>2, <3>3, <4>3 DEF Taken
                <5>4. NewestWins'
                    BY <5>2, <5>3 DEF NewestWins, ShowsNewest
                <5> QED BY <2>1, <2>2, <2>3, <3>3, <5>4 DEF FirstCounts, SlotInv
            <4>4. CASE PassedOver(set, LocalState)
                <5>1. ~(new.stamp # 0 /\ arrived.global.stamp # 0 /\ new.stamp > arrived.global.stamp)
                    BY <2>2, <3>3, <4>1, <4>4 DEF PassedOver, ShouldApplyPrefs
                <5>2. NewestOfBoth' = arrived.global
                    BY <2>3, <4>2, <5>1 DEF NewestOfBoth, Stamped
                <5>3. NewestWins'
                    BY <4>1, <4>4, <5>2 DEF NewestWins, ShowsNewest, Shows, PassedOver
                <5> QED BY <2>1, <2>2, <2>3, <3>3, <5>3 DEF FirstCounts, SlotInv
            <4> QED BY <2>4, <4>3, <4>4
        <3> QED BY <3>1, <3>2, <3>3
    <2> QED BY <2>5, <2>6, <2>7, <2>9 DEF SlotInv
<1> QED BY <1>1, <1>2

\* What the global set of the player leaves in the slot.
LEMMA GlobalArrives ==
    ASSUME SlotInv, owner \in Players, NEW set \in Legible, OwnSet(owner, set),
           InitializeGlobalPrefs(set),
           UNCHANGED <<session, owner, authenticated, inGame, chosen>>
    PROVE  SlotInv'
<1>1. CASE globalLoaded
    BY <1>1 DEF InitializeGlobalPrefs, SlotInv, SlotTyped, SlotIsEmpty, OwnSlot, Own, OwnValues,
            ChoicesAreMarked, ChoicesSurvive, FirstCounts, Shows, NewestWins, ShowsNewest, Both,
            Stamped, NewestOfBoth, optionVars, guardVars
<1>2. CASE ~globalLoaded
    <2> DEFINE new == Arrival(set)
    <2>1. /\ globalLoaded' = TRUE /\ localLoaded' = localLoaded
          /\ arrived' = [arrived EXCEPT !.global = new]
          /\ Apply(set, GlobalState)
        BY <1>2 DEF InitializeGlobalPrefs
    <2>2. /\ new \in Sets \cup {Nothing}
          /\ set = Broken => new = Nothing
          /\ set # Broken => /\ new \in Sets /\ new # Nothing
                             /\ new.stamp = ReadPrefsStamp(set) /\ new.values = set.values
        BY ArrivalKeeps
    <2> HIDE DEF new
    <2>3. /\ arrived' \in [local : Sets \cup {Nothing}, global : Sets \cup {Nothing}]
          /\ arrived'.global = new /\ arrived'.local = arrived.local
        BY <2>1, <2>2 DEF SlotInv, SlotTyped
    <2>4. /\ dataState' \in {NoneState, LocalState, GlobalState} /\ loadedStamp' \in Nat
          /\ currentState' \in {NoneState, LocalState, GlobalState}
          /\ prefKV' \in Prefs /\ userSetPrefs' \subseteq Keys
          /\ playing' \in [mode : AllValues, styles : AllValues]
          /\ Own(owner, prefKV')
          /\ playing'.mode \in OwnValues(owner) /\ playing'.styles \in OwnValues(owner)
          /\ userSetPrefs \subseteq userSetPrefs'
          /\ \A k \in OtherKeys : k \in userSetPrefs' => k \in userSetPrefs
          /\ \A k \in Keys : chosen[k] # Absent => prefKV'[k] = chosen[k]
          /\ Taken(set, GlobalState) \/ PassedOver(set, GlobalState)
        BY <2>1, Applied, Domains DEF SlotInv
    <2>5. SlotTyped'
        BY <2>1, <2>3, <2>4, Domains DEF SlotInv, SlotTyped
    <2>6. (owner # NoPlayer => OwnSlot(owner))'
        BY <2>4 DEF OwnSlot, Own, OwnValues
    <2>7. ChoicesAreMarked' /\ ChoicesSurvive'
        BY <2>4 DEF SlotInv, ChoicesAreMarked, ChoicesSurvive
    <2>8. arrived.global = Nothing
        BY <1>2 DEF SlotInv, FirstCounts
    <2>9. FirstCounts' /\ NewestWins'
        <3>1. CASE set = Broken
            <4>1. /\ dataState' = dataState /\ loadedStamp' = loadedStamp /\ prefKV' = prefKV
                  /\ arrived'.global = Nothing
                BY <3>1, <2>2, <2>3, <2>4, SetsHave DEF Taken, PassedOver
            <4> QED BY <4>1, <2>1, <2>3, <2>8 DEF SlotInv, FirstCounts, Shows, NewestWins,
                        ShowsNewest, Both
        <3>2. CASE set # Broken /\ arrived.local = Nothing
            <4>1. dataState = NoneState
                BY <2>8, <3>2 DEF SlotInv, FirstCounts
            <4>2. Taken(set, GlobalState)
                BY <2>4, <3>2, <4>1 DEF PassedOver, ShouldApplyPrefs
            <4>3. Shows(arrived.global)'
                BY <2>2, <2>3, <3>2, <4>2 DEF Shows, Taken
            <4> QED BY <2>1, <2>2, <2>3, <3>2, <4>2, <4>3 DEF SlotInv, FirstCounts, Taken,
                        NewestWins, ShowsNewest, Both
        <3>3. CASE set # Broken /\ arrived.local # Nothing
            <4>1. dataState = LocalState /\ loadedStamp = arrived.local.stamp
                     /\ Shows(arrived.local)
                BY <2>8, <3>3 DEF SlotInv, FirstCounts
            <4>2. new.stamp \in Nat /\ arrived.local.stamp \in Nat
                BY <2>2, <3>3, SetsHave DEF SlotInv, SlotTyped
            <4>3. CASE Taken(set, GlobalState)
                <5>1. ~(new.stamp # 0 /\ arrived.local.stamp # 0 /\ arrived.local.stamp > new.stamp)
                    <6>1. ReadPrefsStamp(set) = new.stamp /\ ShouldApplyPrefs(new.stamp, GlobalState)
                        BY <2>2, <3>3, <4>3 DEF Taken
                    <6> QED BY <6>1, <4>1, <4>2 DEF ShouldApplyPrefs, NoneState, LocalState
                <5>2. NewestOfBoth' = new
                    BY <2>3, <5>1 DEF NewestOfBoth, Stamped
                <5>3. \A k \in OtherKeys : chosen[k] = Absent /\ new.values[k] # Absent =>
                         prefKV'[k] = new.values[k]
                    BY <2>2, <3>3, <4>3 DEF Taken
                <5>4. NewestWins'
                    BY <5>2, <5>3 DEF NewestWins, ShowsNewest
                <5> QED BY <2>1, <2>2, <2>3, <3>3, <5>4 DEF FirstCounts, SlotInv
            <4>4. CASE PassedOver(set, GlobalState)
                <5>1. new.stamp # 0 /\ arrived.local.stamp # 0 /\ ~(new.stamp > arrived.local.stamp)
                    BY <2>2, <3>3, <4>1, <4>4 DEF PassedOver, ShouldApplyPrefs, NoneState, LocalState,
                        GlobalState
                <5>2. (Stamped => arrived.local.stamp # arrived.global.stamp)'
                         => NewestOfBoth' = arrived.local
                    BY <2>3, <4>2, <5>1 DEF NewestOfBoth, Stamped
                <5>3. NewestWins'
                    BY <4>1, <4>4, <5>2 DEF NewestWins, ShowsNewest, Shows, PassedOver
                <5> QED BY <2>1, <2>2, <2>3, <3>3, <5>3 DEF FirstCounts, SlotInv
            <4> QED BY <2>4, <4>3, <4>4
        <3> QED BY <3>1, <3>2, <3>3
    <2> QED BY <2>5, <2>6, <2>7, <2>9 DEF SlotInv
<1> QED BY <1>1, <1>2

(***************************************************************************)
(* The other steps of the slot.                                            *)
(***************************************************************************)
\* What happens away from the slot leaves it as it is.
LEMMA SlotRests ==
    ASSUME SlotInv, UNCHANGED <<slotVars, optionVars, playing, ghostVars>>
    PROVE  SlotInv'
BY DEF SlotInv, SlotTyped, SlotIsEmpty, OwnSlot, Own, OwnValues, ChoicesAreMarked, ChoicesSurvive,
    FirstCounts, Shows, NewestWins, ShowsNewest, Both, Stamped, NewestOfBoth,
    slotVars, optionVars, guardVars, ghostVars

\* Nobody is in an empty slot, so whoever is authorized or in game is a player.
LEMMA SomeoneIsThere ==
    ASSUME SlotTyped, authenticated \/ inGame \/ owner # NoPlayer
    PROVE  owner \in Players
BY DEF SlotTyped, SlotIsEmpty

\* A player who connects finds the slot as Reset has left it.
LEMMA SlotConnect ==
    ASSUME SlotInv, NEW p \in Players, Connect(p)
    PROVE  SlotInv'
<1>1. /\ owner = NoPlayer /\ SlotIsEmpty /\ playing = StartPlaying
      /\ owner' = p /\ session' = session + 1
      /\ UNCHANGED <<authenticated, inGame, optionVars, playing, ghostVars>>
    BY DEF Connect, SlotInv, SlotTyped
<1>2. SlotTyped'
    BY <1>1, Domains DEF SlotInv, SlotTyped, optionVars, guardVars, ghostVars
<1>3. (owner # NoPlayer => OwnSlot(owner))'
    <2>1. prefKV' = StartPrefs /\ playing' = StartPlaying
        BY <1>1 DEF SlotIsEmpty, optionVars
    <2> QED BY <1>1, <2>1, StartIsOwn DEF OwnSlot, Own, OwnValues
<1> QED BY <1>1, <1>2, <1>3 DEF SlotInv, ChoicesAreMarked, ChoicesSurvive, FirstCounts, Shows,
            NewestWins, ShowsNewest, Both, Stamped, NewestOfBoth, optionVars, guardVars, ghostVars

\* The listeners apply what is there when the player is in game.
LEMMA SlotActive ==
    ASSUME SlotInv, OnPlayerActive
    PROVE  SlotInv'
<1>1. /\ inGame' = TRUE /\ owner \in Players /\ owner' = owner
      /\ UNCHANGED <<session, authenticated, dataState, loadedStamp, localLoaded, globalLoaded,
                     chosen, arrived>>
    BY DEF OnPlayerActive, SlotInv, SlotTyped, guardVars, ghostVars
<1>2. CASE currentState <= dataState
    <2>1. PreferencesLoaded(prefKV, dataState)
        BY <1>2 DEF OnPlayerActive
    <2>2. /\ prefKV \in Prefs /\ userSetPrefs \subseteq Keys
          /\ playing \in [mode : AllValues, styles : AllValues]
          /\ Own(owner, prefKV)
          /\ playing.mode \in OwnValues(owner) /\ playing.styles \in OwnValues(owner)
        BY <1>1, Domains DEF SlotInv, SlotTyped, OwnSlot
    <2>3. /\ currentState' = dataState
          /\ prefKV' \in Prefs /\ userSetPrefs' \subseteq Keys
          /\ playing' \in [mode : AllValues, styles : AllValues]
          /\ Own(owner, prefKV')
          /\ playing'.mode \in OwnValues(owner) /\ playing'.styles \in OwnValues(owner)
          /\ \A k \in Keys : prefKV[k] # Absent => prefKV'[k] = prefKV[k]
          /\ \A k \in OtherKeys : prefKV'[k] = prefKV[k]
          /\ userSetPrefs \subseteq userSetPrefs'
          /\ \A k \in OtherKeys : k \in userSetPrefs' => k \in userSetPrefs
        BY <1>1, <2>1, <2>2, LoadedKeeps
    <2>4. SlotTyped'
        BY <1>1, <2>3, Domains DEF SlotInv, SlotTyped
    <2>5. (owner # NoPlayer => OwnSlot(owner))'
        BY <1>1, <2>3 DEF OwnSlot, Own, OwnValues
    <2>6. ChoicesAreMarked' /\ ChoicesSurvive'
        BY <1>1, <2>3 DEF SlotInv, ChoicesAreMarked, ChoicesSurvive
    <2>7. FirstCounts'
        BY <1>1, <2>3 DEF SlotInv, FirstCounts, Shows
    <2>8. NewestWins'
        BY <1>1, <2>3 DEF SlotInv, NewestWins, ShowsNewest, Both, Stamped, NewestOfBoth
    <2> QED BY <2>4, <2>5, <2>6, <2>7, <2>8 DEF SlotInv
<1>3. CASE ~(currentState <= dataState)
    <2>1. UNCHANGED <<currentState, prefKV, userSetPrefs, playing>>
        BY <1>3 DEF OnPlayerActive
    <2> QED BY <1>1, <2>1, Domains DEF SlotInv, SlotTyped, OwnSlot, Own, OwnValues, ChoicesAreMarked,
                ChoicesSurvive, FirstCounts, Shows, NewestWins, ShowsNewest, Both, Stamped,
                NewestOfBoth
<1> QED BY <1>2, <1>3

\* A choice is one of the player's values, and is marked.
LEMMA SlotChoice ==
    ASSUME SlotInv, owner # NoPlayer, NEW k \in Keys, NEW v \in ValuesOf[owner], SetPreference(k, v)
    PROVE  SlotInv'
<1>1. /\ owner \in Players /\ owner' = owner
      /\ v \in AllValues /\ v # Absent /\ v \in OwnValues(owner)
    BY Domains DEF SetPreference, slotVars, SlotInv, SlotTyped, OwnValues
<1>2. /\ prefKV' = [prefKV EXCEPT ![k] = v] /\ userSetPrefs' = userSetPrefs \cup {k}
      /\ chosen' = [chosen EXCEPT ![k] = v]
      /\ UNCHANGED <<session, authenticated, inGame, dataState, currentState, loadedStamp,
                     localLoaded, globalLoaded, arrived>>
    BY DEF SetPreference, slotVars, guardVars
<1>3. /\ prefKV' \in Prefs /\ chosen' \in Prefs
      /\ \A j \in Keys : /\ prefKV'[j] = IF j = k THEN v ELSE prefKV[j]
                         /\ chosen'[j] = IF j = k THEN v ELSE chosen[j]
    BY <1>1, <1>2 DEF SlotInv, SlotTyped, Prefs, Values
<1>4. /\ playing' \in [mode : AllValues, styles : AllValues]
      /\ playing'.mode \in OwnValues(owner) /\ playing'.styles \in OwnValues(owner)
    <2>1. /\ playing \in [mode : AllValues, styles : AllValues]
          /\ playing.mode \in OwnValues(owner) /\ playing.styles \in OwnValues(owner)
        BY <1>1, Domains DEF SlotInv, SlotTyped, OwnSlot
    <2>2. \/ playing' = [playing EXCEPT !.mode = v]
          \/ playing' = [playing EXCEPT !.styles = v]
          \/ playing' = playing
        BY DEF SetPreference
    <2> QED BY <1>1, <2>1, <2>2
<1>5. SlotTyped'
    BY <1>1, <1>2, <1>3, <1>4, Domains DEF SlotInv, SlotTyped
<1>6. (owner # NoPlayer => OwnSlot(owner))'
    <2>1. Own(owner, prefKV)'
        BY <1>1, <1>3, Domains DEF SlotInv, OwnSlot, Own, OwnValues
    <2> QED BY <1>1, <1>4, <2>1 DEF OwnSlot, OwnValues
<1>7. ChoicesAreMarked' /\ ChoicesSurvive'
    BY <1>1, <1>2, <1>3, Domains DEF SlotInv, ChoicesAreMarked, ChoicesSurvive
<1>8. FirstCounts' /\ NewestWins'
    <2>1. \A j \in OtherKeys : chosen'[j] = Absent => chosen[j] = Absent /\ prefKV'[j] = prefKV[j]
        BY <1>1, <1>3, Domains
    <2> QED BY <1>2, <2>1 DEF SlotInv, FirstCounts, Shows, NewestWins, ShowsNewest, Both, Stamped,
                NewestOfBoth
<1> QED BY <1>5, <1>6, <1>7, <1>8 DEF SlotInv

\* Reset leaves nothing of the player in the slot.
LEMMA SlotDisconnect ==
    ASSUME SlotInv, Disconnect
    PROVE  SlotInv'
<1>1. /\ owner' = NoPlayer /\ session' = session
      /\ SlotIsEmpty' /\ playing' = StartPlaying /\ userSetPrefs' = StartUserSet
      /\ prefKV' = StartPrefs
    BY DEF Disconnect, Reset, SlotIsEmpty
<1>2. arrived' \in [local : Sets \cup {Nothing}, global : Sets \cup {Nothing}]
    BY <1>1 DEF SlotIsEmpty
<1>3. SlotTyped'
    <2>1. /\ authenticated' = FALSE /\ inGame' = FALSE /\ localLoaded' = FALSE
          /\ globalLoaded' = FALSE
        BY DEF Disconnect, Reset
    <2>2. /\ dataState' = NoneState /\ currentState' = NoneState /\ loadedStamp' = 0
          /\ chosen' = Nowhere
        BY <1>1 DEF SlotIsEmpty
    <2> QED BY <1>1, <1>2, <2>1, <2>2, StartIsOwn, EmptyIsOwn DEF SlotInv, SlotTyped
<1>4. /\ \A k \in Keys : chosen'[k] = Absent
      /\ arrived'.local = Nothing /\ arrived'.global = Nothing /\ dataState' = NoneState
    BY <1>1 DEF SlotIsEmpty, Nowhere
<1>5. ChoicesAreMarked' /\ ChoicesSurvive'
    BY <1>1, <1>4, StartIsOwn DEF ChoicesAreMarked, ChoicesSurvive
<1>6. FirstCounts' /\ NewestWins'
    BY <1>4 DEF FirstCounts, NewestWins, ShowsNewest, Both
<1> QED BY <1>1, <1>3, <1>5, <1>6 DEF SlotInv

(***************************************************************************)
(* The steps of the database and of the API.                               *)
(***************************************************************************)
\* Sessions are compared with the one the slot is in: a step that keeps the
\* session and the queues keeps what is known of them, and so does one that
\* leaves the slot empty.
LEMMA SessionsRest ==
    ASSUME SessionsAreOwn, UNCHANGED <<session, transactions, results>>,
           owner' = owner \/ owner' = NoPlayer
    PROVE  SessionsAreOwn'
BY DEF SessionsAreOwn, OwnSetup, OwnResult, OwnSet, Own

\* A step that keeps the tables and the queues.
LEMMA AwayRests ==
    ASSUME AwayInv, UNCHANGED <<session, dbVars, whenConnected, requests, acks, global, clock>>,
           owner' = owner \/ owner' = NoPlayer
    PROVE  AwayInv'
<1>1. SessionsAreOwn'
    BY SessionsRest DEF AwayInv, dbVars
<1> QED BY <1>1 DEF AwayInv, TablesOwn, QueuesOwn, dbVars

\* A new session has no setup under way.
LEMMA AwayConnect ==
    ASSUME SlotInv, AwayInv, NEW p \in Players, Connect(p)
    PROVE  AwayInv'
<1>1. session' = session + 1 /\ session \in Nat /\ UNCHANGED <<dbVars, apiVars, clock>>
    BY DEF Connect, SlotInv, SlotTyped
<1>2. \A i \in 1 .. Len(transactions) : transactions[i] \in Setups \cup Saves
    BY DEF AwayInv, QueuesOwn
<1>3. \A i \in 1 .. Len(results) : results[i].session \in Nat
    <2>1. \A i \in 1 .. Len(results) : results[i] \in Results
        BY DEF AwayInv, QueuesOwn
    <2> QED BY <2>1 DEF Results
<1>4. \A i \in 1 .. Len(transactions) :
         transactions[i].run = "setup" => /\ transactions[i].session <= session'
                                          /\ transactions[i].session # session'
    <2> TAKE i \in 1 .. Len(transactions)
    <2>1. transactions[i].run = "setup" => transactions[i].session \in Nat
        BY <1>2 DEF Setups, Saves
    <2>2. transactions[i].run = "setup" => transactions[i].session <= session
        BY DEF AwayInv, SessionsAreOwn, OwnSetup
    <2> QED BY <1>1, <2>1, <2>2
<1>5. \A i \in 1 .. Len(results) : results[i].session <= session' /\ results[i].session # session'
    BY <1>1, <1>3 DEF AwayInv, SessionsAreOwn, OwnResult
<1>6. SessionsAreOwn'
    BY <1>1, <1>4, <1>5 DEF SessionsAreOwn, OwnSetup, OwnResult, dbVars
<1> QED BY <1>1, <1>6 DEF AwayInv, TablesOwn, QueuesOwn, dbVars, apiVars

\* The setup asks for the player of the session, and so does the join.
LEMMA AwayAuthorized ==
    ASSUME SlotInv, AwayInv, OnAuthorized
    PROVE  AwayInv'
<1>1. /\ owner \in Players /\ session \in Nat
      /\ UNCHANGED <<session, owner, dbReady, isSetUp, results, stored, acks, global, clock>>
    BY DEF OnAuthorized, SlotInv, SlotTyped
<1>2. /\ transactions' \in Seq(Setups \cup Saves)
      /\ \A i \in 1 .. Len(transactions') : OwnSetup(transactions'[i])
    <2> DEFINE t == [run |-> "setup", session |-> session, player |-> owner]
    <2>1. t \in Setups \cup Saves /\ OwnSetup(t)
        BY <1>1 DEF Setups, OwnSetup
    <2>2. transactions' = Append(transactions, t) \/ transactions' = transactions
        BY DEF OnAuthorized, SetupClient
    <2> HIDE DEF t
    <2>3. /\ transactions \in Seq(Setups \cup Saves)
          /\ \A i \in 1 .. Len(transactions) : OwnSetup(transactions[i])
        BY DEF AwayInv, QueuesOwn, SessionsAreOwn
    <2>4. /\ Append(transactions, t) \in Seq(Setups \cup Saves)
          /\ \A i \in 1 .. Len(Append(transactions, t)) :
                \/ i \in 1 .. Len(transactions) /\ Append(transactions, t)[i] = transactions[i]
                \/ Append(transactions, t)[i] = t
        BY <2>1, <2>3, AppendAdds
    <2> QED BY <2>1, <2>2, <2>3, <2>4
<1>3. requests' \in Seq(Requests) /\ whenConnected' \in Seq(Requests)
    <2>1. Join(owner) \in Requests
        BY <1>1, EmptyIsOwn DEF Join, Requests
    <2>2. \/ requests' = Append(requests, Join(owner)) /\ whenConnected' = whenConnected
          \/ whenConnected' = Append(whenConnected, Join(owner)) /\ requests' = requests
          \/ UNCHANGED <<requests, whenConnected>>
        BY DEF OnAuthorized, OnPlayerAuthorized
    <2> QED BY <2>1, <2>2, AppendAdds DEF AwayInv, QueuesOwn
<1>4. SessionsAreOwn'
    BY <1>1, <1>2 DEF AwayInv, SessionsAreOwn, OwnSetup, OwnResult
<1> QED BY <1>1, <1>2, <1>3, <1>4 DEF AwayInv, TablesOwn, QueuesOwn

\* What is saved of a player is his own.
LEMMA AwayDisconnect ==
    ASSUME SlotInv, AwayInv, Disconnect
    PROVE  AwayInv'
<1>1. /\ owner \in Players /\ owner' = NoPlayer
      /\ UNCHANGED <<session, dbReady, isSetUp, results, stored, whenConnected, acks, global, clock>>
    BY DEF Disconnect, SlotInv, SlotTyped
<1>2. Saved \in Sets /\ Own(owner, Saved.values)
    BY <1>1, SetsHave, Domains DEF Saved, SlotInv, SlotTyped, OwnSlot, AwayInv, QueuesOwn
<1>3. /\ transactions' \in Seq(Setups \cup Saves)
      /\ \A i \in 1 .. Len(transactions') :
            transactions'[i].run = "setup" => transactions'[i].session <= session
    <2> DEFINE t == [run |-> "save", player |-> owner, set |-> Saved]
    <2>1. t \in Setups \cup Saves /\ t.run # "setup"
        BY <1>1, <1>2 DEF Saves
    <2>2. transactions' = Append(transactions, t) \/ transactions' = transactions
        BY DEF Disconnect, SaveLocalPrefs
    <2> HIDE DEF t
    <2>3. /\ transactions \in Seq(Setups \cup Saves)
          /\ \A i \in 1 .. Len(transactions) :
                transactions[i].run = "setup" => transactions[i].session <= session
        BY DEF AwayInv, QueuesOwn, SessionsAreOwn, OwnSetup
    <2>4. /\ Append(transactions, t) \in Seq(Setups \cup Saves)
          /\ \A i \in 1 .. Len(Append(transactions, t)) :
                \/ i \in 1 .. Len(transactions) /\ Append(transactions, t)[i] = transactions[i]
                \/ Append(transactions, t)[i] = t
        BY <2>1, <2>3, AppendAdds
    <2> QED BY <2>1, <2>2, <2>3, <2>4
<1>4. requests' \in Seq(Requests)
    <2>1. [event |-> "player-leave", player |-> owner, set |-> Saved] \in Requests
        BY <1>1, <1>2 DEF Requests
    <2> QED BY <2>1, AppendAdds DEF Disconnect, OnClientDisconnect, AwayInv, QueuesOwn
<1>5. SessionsAreOwn'
    BY <1>1, <1>3 DEF AwayInv, SessionsAreOwn, OwnSetup, OwnResult
<1> QED BY <1>1, <1>3, <1>4, <1>5 DEF AwayInv, TablesOwn, QueuesOwn

\* A transaction that ran or failed is gone; a setup that ran has the set of
\* its player for an answer, and a save has stored what is the player's own.
LEMMA AwayTransaction ==
    ASSUME SlotInv, AwayInv, RunTransaction \/ TransactionFails
    PROVE  AwayInv'
<1> DEFINE t == Head(transactions)
           answer == [session |-> t.session, set |-> stored[t.player]]
<1>1. /\ transactions # <<>> /\ transactions' = Tail(transactions)
      /\ UNCHANGED <<session, owner, dbReady, isSetUp, requests, whenConnected, acks, global, clock>>
    BY DEF RunTransaction, TransactionFails, slotVars, apiVars
<1>2. transactions \in Seq(Setups \cup Saves) /\ results \in Seq(Results)
    BY DEF AwayInv, QueuesOwn
<1>3. /\ t \in Setups \cup Saves /\ Tail(transactions) \in Seq(Setups \cup Saves)
      /\ 1 \in 1 .. Len(transactions) /\ t = transactions[1]
      /\ \A i \in 1 .. Len(Tail(transactions)) :
            i + 1 \in 1 .. Len(transactions) /\ Tail(transactions)[i] = transactions[i + 1]
    BY <1>1, <1>2, TailKeeps
<1>4. /\ \A i \in 1 .. Len(transactions) : OwnSetup(transactions[i])
      /\ \A i \in 1 .. Len(results) : OwnResult(results[i])
    BY DEF AwayInv, SessionsAreOwn
<1>5. \A i \in 1 .. Len(transactions') : OwnSetup(transactions'[i])
    BY <1>1, <1>3, <1>4
<1>6. CASE RunTransaction /\ t.run = "setup"
    <2>1. t \in Setups /\ results' = Append(results, answer) /\ stored' = stored
        BY <1>3, <1>6 DEF RunTransaction, Saves
    <2>2. answer \in Results /\ (owner \in Players => OwnSet(t.player, answer.set))
              /\ answer.session = t.session
        BY <2>1 DEF Setups, Results, AwayInv, TablesOwn
    <2>3. OwnResult(answer)
        <3>1. OwnSetup(t)
            BY <1>3, <1>4
        <3> QED BY <1>6, <2>2, <3>1, SomeoneIsThere DEF OwnSetup, OwnResult, SlotInv
    <2> HIDE DEF answer
    <2>4. /\ Append(results, answer) \in Seq(Results)
          /\ \A i \in 1 .. Len(Append(results, answer)) :
                \/ i \in 1 .. Len(results) /\ Append(results, answer)[i] = results[i]
                \/ Append(results, answer)[i] = answer
        BY <1>2, <2>2, AppendAdds
    <2>5. results' \in Seq(Results) /\ \A i \in 1 .. Len(results') : OwnResult(results'[i])
        BY <1>4, <2>1, <2>3, <2>4
    <2>6. SessionsAreOwn'
        BY <1>1, <1>5, <2>5 DEF SessionsAreOwn, OwnSetup, OwnResult
    <2> QED BY <1>1, <1>3, <2>1, <2>5, <2>6 DEF AwayInv, TablesOwn, QueuesOwn
<1>7. CASE RunTransaction /\ t.run # "setup"
    <2>1. t \in Saves /\ stored' = [stored EXCEPT ![t.player] = t.set] /\ results' = results
        BY <1>3, <1>7 DEF RunTransaction, Setups
    <2>2. t.player \in Players /\ t.set \in Legible /\ OwnSet(t.player, t.set)
        BY <2>1 DEF Saves, Legible, OwnSet
    <2>3. TablesOwn'
        BY <1>1, <2>1, <2>2 DEF AwayInv, TablesOwn, OwnSet, Own
    <2>4. SessionsAreOwn'
        BY <1>1, <1>4, <1>5, <2>1 DEF SessionsAreOwn, OwnSetup, OwnResult
    <2> QED BY <1>1, <1>3, <2>1, <2>3, <2>4 DEF AwayInv, QueuesOwn
<1>8. CASE TransactionFails
    <2>1. results' = results /\ stored' = stored
        BY <1>8 DEF TransactionFails
    <2>2. SessionsAreOwn'
        BY <1>1, <1>4, <1>5, <2>1 DEF SessionsAreOwn, OwnSetup, OwnResult
    <2> QED BY <1>1, <1>3, <2>1, <2>2 DEF AwayInv, TablesOwn, QueuesOwn
<1> QED BY <1>6, <1>7, <1>8

\* The answer to a setup counts in its session alone, for the player who asked.
LEMMA ClientIsSetupKeeps ==
    ASSUME SlotInv, AwayInv, ClientIsSetup
    PROVE  SlotInv' /\ AwayInv'
<1> DEFINE answer == Head(results)
<1>1. /\ results # <<>> /\ results' = Tail(results) /\ isSetUp' \in BOOLEAN
      /\ UNCHANGED <<session, owner, authenticated, inGame, dbReady, transactions, stored, requests,
                     whenConnected, acks, global, clock, chosen, choices>>
    BY DEF ClientIsSetup, slotVars, apiVars, AwayInv, QueuesOwn
<1>2. results \in Seq(Results)
    BY DEF AwayInv, QueuesOwn
<1>3. /\ answer \in Results /\ Tail(results) \in Seq(Results)
      /\ 1 \in 1 .. Len(results) /\ answer = results[1]
      /\ \A i \in 1 .. Len(Tail(results)) :
            i + 1 \in 1 .. Len(results) /\ Tail(results)[i] = results[i + 1]
    BY <1>1, <1>2, TailKeeps
<1>4. \A i \in 1 .. Len(results) : OwnResult(results[i])
    BY DEF AwayInv, SessionsAreOwn
<1>5. \A i \in 1 .. Len(results') : OwnResult(results'[i])
    BY <1>1, <1>3, <1>4
<1>6. SessionsAreOwn'
    BY <1>1, <1>5 DEF AwayInv, SessionsAreOwn, OwnSetup, OwnResult
<1>7. AwayInv'
    BY <1>1, <1>3, <1>6 DEF AwayInv, TablesOwn, QueuesOwn
<1>8. CASE authenticated /\ session = answer.session
    <2>1. owner \in Players /\ InitializeLocalPrefs(answer.set)
        BY <1>8, SomeoneIsThere DEF ClientIsSetup, SlotInv
    <2>2. answer.set \in Legible
        BY <1>3 DEF Results
    <2>3. OwnResult(answer)
        BY <1>3, <1>4
    <2>4. OwnSet(owner, answer.set)
        BY <1>8, <2>1, <2>3, Domains DEF OwnResult
    <2>5. SlotInv'
        BY <1>1, <2>1, <2>2, <2>4, LocalArrives
    <2> QED BY <1>7, <2>5
<1>9. CASE ~(authenticated /\ session = answer.session)
    <2>1. UNCHANGED <<slotVars, optionVars, playing, ghostVars>>
        BY <1>9 DEF ClientIsSetup, ghostVars
    <2> QED BY <1>7, <2>1, SlotRests
<1> QED BY <1>8, <1>9

\* The API's answer to a join counts for the player who joined.
LEMMA PlayerJoinAckKeeps ==
    ASSUME SlotInv, AwayInv, PlayerJoinAck
    PROVE  SlotInv' /\ AwayInv'
<1> DEFINE ack == Head(acks)
<1>1. /\ acks # <<>> /\ acks' = Tail(acks)
      /\ UNCHANGED <<session, owner, authenticated, inGame, dbVars, requests, whenConnected, global,
                     clock, chosen, choices>>
    BY DEF PlayerJoinAck, slotVars
<1>2. acks \in Seq(Acks)
    BY DEF AwayInv, QueuesOwn
<1>3. ack \in Acks /\ Tail(acks) \in Seq(Acks)
    BY <1>1, <1>2, TailKeeps
<1>4. SessionsAreOwn'
    BY <1>1, SessionsRest DEF AwayInv, dbVars
<1>5. AwayInv'
    BY <1>1, <1>3, <1>4 DEF AwayInv, TablesOwn, QueuesOwn, dbVars
<1>6. CASE authenticated /\ owner = ack.player
    <2>1. owner \in Players /\ InitializeGlobalPrefs(ack.set)
        BY <1>6, SomeoneIsThere DEF PlayerJoinAck, SlotInv
    <2>2. ack.set \in Legible /\ OwnSet(owner, ack.set)
        BY <1>3, <1>6 DEF Acks
    <2>3. SlotInv'
        BY <1>1, <2>1, <2>2, GlobalArrives
    <2> QED BY <1>5, <2>3
<1>7. CASE ~(authenticated /\ owner = ack.player)
    <2>1. UNCHANGED <<slotVars, optionVars, playing, ghostVars>>
        BY <1>7 DEF PlayerJoinAck, ghostVars
    <2> QED BY <1>5, <2>1, SlotRests
<1> QED BY <1>6, <1>7

\* Both requests concern what is the player's own.
LEMMA AwayHandles ==
    ASSUME AwayInv, ApiHandles
    PROVE  AwayInv'
<1> DEFINE r == Head(requests)
           ack == [player |-> r.player, set |-> global[r.player]]
<1>1. /\ requests # <<>> /\ requests' = Tail(requests)
      /\ UNCHANGED <<session, owner, dbVars, whenConnected, clock>>
    BY DEF ApiHandles, slotVars
<1>2. requests \in Seq(Requests) /\ acks \in Seq(Acks)
    BY DEF AwayInv, QueuesOwn
<1>3. r \in Requests /\ Tail(requests) \in Seq(Requests)
    BY <1>1, <1>2, TailKeeps
<1>4. r.player \in Players /\ r.set \in Sets /\ Own(r.player, r.set.values)
    BY <1>3 DEF Requests
<1>5. SessionsAreOwn'
    BY <1>1, SessionsRest DEF AwayInv, dbVars
<1>6. CASE r.event = "player-join"
    <2>1. acks' = Append(acks, ack) /\ global' = global
        BY <1>6 DEF ApiHandles
    <2>2. ack \in Acks
        BY <1>4 DEF Acks, AwayInv, TablesOwn
    <2>3. acks' \in Seq(Acks)
        BY <1>2, <2>1, <2>2, AppendAdds
    <2> QED BY <1>1, <1>3, <1>5, <2>1, <2>3 DEF AwayInv, TablesOwn, QueuesOwn, dbVars
<1>7. CASE r.event # "player-join"
    <2>1. global' = [global EXCEPT ![r.player] = r.set] /\ acks' = acks
        BY <1>7 DEF ApiHandles
    <2>2. r.set \in Legible /\ OwnSet(r.player, r.set)
        BY <1>4 DEF Legible, OwnSet
    <2>3. TablesOwn'
        BY <1>1, <1>4, <2>1, <2>2 DEF AwayInv, TablesOwn, OwnSet, Own, dbVars
    <2> QED BY <1>1, <1>3, <1>5, <2>1, <2>3 DEF AwayInv, QueuesOwn, dbVars
<1> QED BY <1>6, <1>7

\* The other steps of the database, of the link and of the clock.
LEMMA AwayOthers ==
    ASSUME AwayInv,
           \/ DatabaseReady \/ InitiateHandshake \/ CompleteHandshake \/ RunWhenConnected
           \/ LinkLost \/ Tick
    PROVE  AwayInv'
<1>1. UNCHANGED <<session, owner, isSetUp, transactions, results, stored, global>>
    BY DEF DatabaseReady, InitiateHandshake, CompleteHandshake, RunWhenConnected, LinkLost, Tick,
        slotVars, dbVars, apiVars
<1>2. SessionsAreOwn'
    BY <1>1, SessionsRest DEF AwayInv
<1>3. requests' \in Seq(Requests) /\ whenConnected' \in Seq(Requests) /\ acks' \in Seq(Acks)
    <2>1. requests \in Seq(Requests) /\ whenConnected \in Seq(Requests) /\ acks \in Seq(Acks)
        BY DEF AwayInv, QueuesOwn
    <2>2. CASE RunWhenConnected
        <3>1. /\ requests' = requests \o whenConnected /\ whenConnected' = <<>>
              /\ acks' = acks
            BY <2>2 DEF RunWhenConnected
        <3> QED BY <2>1, <3>1, JoinedKeeps
    <2>3. CASE LinkLost
        BY <2>1, <2>3 DEF LinkLost
    <2>4. CASE DatabaseReady \/ InitiateHandshake \/ CompleteHandshake \/ Tick
        <3>1. UNCHANGED <<requests, whenConnected, acks>>
            BY <2>4 DEF DatabaseReady, InitiateHandshake, CompleteHandshake, Tick, apiVars
        <3> QED BY <2>1, <3>1
    <2> QED BY <2>2, <2>3, <2>4
<1>4. clock' \in Nat /\ dbReady' \in BOOLEAN
    <2>1. clock \in Nat /\ dbReady \in BOOLEAN
        BY DEF AwayInv, QueuesOwn
    <2>2. CASE DatabaseReady
        BY <2>1, <2>2 DEF DatabaseReady
    <2>3. CASE Tick
        BY <2>1, <2>3 DEF Tick, dbVars
    <2>4. CASE InitiateHandshake \/ CompleteHandshake \/ RunWhenConnected \/ LinkLost
        BY <2>1, <2>4 DEF InitiateHandshake, CompleteHandshake, RunWhenConnected, LinkLost, dbVars
    <2> QED BY <2>2, <2>3, <2>4
<1> QED BY <1>1, <1>2, <1>3, <1>4 DEF AwayInv, TablesOwn, QueuesOwn

(***************************************************************************)
(* The theorems.                                                           *)
(***************************************************************************)
\* The server starts with an empty slot and what was saved of each player.
LEMMA PrefInit == Init => PrefInv
<1> SUFFICES ASSUME Init PROVE PrefInv
    OBVIOUS
<1>1. SlotInv
    <2>1. arrived \in [local : Sets \cup {Nothing}, global : Sets \cup {Nothing}]
        BY DEF Init
    <2>2. SlotTyped
        BY <2>1, StartIsOwn, EmptyIsOwn DEF Init, SlotTyped, SlotIsEmpty, NoneState
    <2>3. ChoicesAreMarked /\ ChoicesSurvive
        BY StartIsOwn, Domains DEF Init, ChoicesAreMarked, ChoicesSurvive, Nowhere
    <2>4. FirstCounts /\ NewestWins
        BY DEF Init, FirstCounts, NewestWins, ShowsNewest, Both
    <2> QED BY <2>2, <2>3, <2>4 DEF Init, SlotInv
<1>2. TablesOwn
    <2>1. /\ \A p \in Players : stored[p] \in FirstStored[p] /\ global[p] \in FirstGlobal[p]
          /\ stored = [p \in Players |-> stored[p]] /\ global = [p \in Players |-> global[p]]
        BY DEF Init, Tables
    <2>2. \A p \in Players : FirstStored[p] \subseteq Legible /\ FirstGlobal[p] \subseteq Legible
        BY PreferenceAssumption DEF Legible
    <2> QED BY <2>1, <2>2, OwnFirstAssumption DEF TablesOwn
<1>3. QueuesOwn /\ SessionsAreOwn
    <2>1. /\ clock = 1 /\ dbReady = FALSE /\ isSetUp = FALSE
          /\ transactions = <<>> /\ results = <<>>
          /\ requests = <<>> /\ whenConnected = <<>> /\ acks = <<>>
        BY DEF Init
    <2>2. QueuesOwn
        <3>1. transactions \in Seq(Setups \cup Saves) /\ results \in Seq(Results)
            BY <2>1
        <3>2. requests \in Seq(Requests) /\ whenConnected \in Seq(Requests) /\ acks \in Seq(Acks)
            BY <2>1
        <3> QED BY <2>1, <3>1, <3>2 DEF QueuesOwn
    <2>3. 1 .. Len(transactions) = {} /\ 1 .. Len(results) = {}
        BY <2>1
    <2> QED BY <2>2, <2>3 DEF SessionsAreOwn
<1> QED BY <1>1, <1>2, <1>3 DEF PrefInv, AwayInv

\* Every step keeps the invariant.
LEMMA PrefNext == PrefInv /\ [Next]_vars => PrefInv'
<1> SUFFICES ASSUME SlotInv, AwayInv, [Next]_vars PROVE SlotInv' /\ AwayInv'
    BY DEF PrefInv
<1>1. ASSUME NEW p \in Players, Connect(p) PROVE SlotInv' /\ AwayInv'
    BY <1>1, SlotConnect, AwayConnect
<1>2. CASE OnAuthorized
    <2>1. owner # NoPlayer /\ authenticated' = TRUE
          /\ UNCHANGED <<session, owner, inGame, optionVars, playing, ghostVars>>
        BY <1>2 DEF OnAuthorized
    <2>2. SlotInv'
        BY <2>1 DEF SlotInv, SlotTyped, OwnSlot, Own, OwnValues, ChoicesAreMarked, ChoicesSurvive,
            FirstCounts, Shows, NewestWins, ShowsNewest, Both, Stamped, NewestOfBoth,
            optionVars, guardVars, ghostVars
    <2> QED BY <1>2, <2>2, AwayAuthorized
<1>3. CASE OnPlayerActive
    <2>1. AwayInv'
        BY <1>3, AwayRests DEF OnPlayerActive, apiVars
    <2> QED BY <1>3, <2>1, SlotActive
<1>4. CASE Disconnect
    BY <1>4, SlotDisconnect, AwayDisconnect
<1>5. CASE owner # NoPlayer /\ Choice
    <2>1. PICK k \in Keys, v \in ValuesOf[owner] : SetPreference(k, v)
        BY <1>5 DEF Choice
    <2>2. SlotInv'
        BY <1>5, <2>1, SlotChoice
    <2>3. AwayInv'
        BY <2>1, AwayRests DEF SetPreference, slotVars, apiVars
    <2> QED BY <2>2, <2>3
<1>6. CASE RunTransaction \/ TransactionFails
    <2>1. UNCHANGED <<slotVars, optionVars, playing, ghostVars>>
        BY <1>6 DEF RunTransaction, TransactionFails
    <2> QED BY <1>6, <2>1, SlotRests, AwayTransaction
<1>7. CASE ClientIsSetup
    BY <1>7, ClientIsSetupKeeps
<1>8. CASE PlayerJoinAck
    BY <1>8, PlayerJoinAckKeeps
<1>9. CASE ApiHandles
    <2>1. UNCHANGED <<slotVars, optionVars, playing, ghostVars>>
        BY <1>9 DEF ApiHandles
    <2> QED BY <1>9, <2>1, SlotRests, AwayHandles
<1>10. CASE \/ DatabaseReady \/ InitiateHandshake \/ CompleteHandshake \/ RunWhenConnected
            \/ LinkLost \/ Tick
    <2>1. UNCHANGED <<slotVars, optionVars, playing, ghostVars>>
        BY <1>10 DEF DatabaseReady, InitiateHandshake, CompleteHandshake, RunWhenConnected, LinkLost,
            Tick
    <2> QED BY <1>10, <2>1, SlotRests, AwayOthers
<1>11. CASE UNCHANGED vars
    <2>1. UNCHANGED <<slotVars, optionVars, playing, ghostVars>>
        BY <1>11 DEF vars
    <2>2. AwayInv'
        BY <1>11, AwayRests DEF vars, slotVars, apiVars
    <2> QED BY <2>1, <2>2, SlotRests
<1> QED BY <1>1, <1>2, <1>3, <1>4, <1>5, <1>6, <1>7, <1>8, <1>9, <1>10, <1>11 DEF Next

LEMMA PrefAlways == Spec => []PrefInv
BY PrefInit, PrefNext, PTL DEF Spec

\* Every variable has its type, and nothing of a session is left in the slot
\* of a player who has gone (SurfPlayer::Reset).
THEOREM PreferencesTyped == Spec => []TypeOK
<1>1. PrefInv => TypeOK
    BY DEF PrefInv, SlotInv, SlotTyped, AwayInv, TablesOwn, QueuesOwn, TypeOK, Prefs, Values, Legible
<1> QED BY <1>1, PrefAlways, PTL

\* Whichever of the database and the API answers first, the set that was
\* saved last is the one that counts (ShouldApplyPrefs).
THEOREM NewestCounts == Spec => []NewestWins
<1>1. PrefInv => NewestWins
    BY DEF PrefInv, SlotInv
<1> QED BY <1>1, PrefAlways, PTL

\* No set that arrives later takes away what a player has set himself.
THEOREM ChoicesStay == Spec => []ChoicesSurvive
<1>1. PrefInv => ChoicesSurvive
    BY DEF PrefInv, SlotInv
<1> QED BY <1>1, PrefAlways, PTL

\* No player plays with, or is saved with, what belongs to another who had
\* the slot before him or who got the slot while an answer was on its way.
THEOREM PreferencesStayOwn == Spec => []OwnPreferences
<1>1. PrefInv => OwnPreferences
    <2> SUFFICES ASSUME PrefInv PROVE OwnPreferences
        OBVIOUS
    <2>1. TablesOwn /\ (owner # NoPlayer => OwnSlot(owner))
        BY DEF PrefInv, SlotInv, AwayInv
    <2> QED BY <2>1 DEF TablesOwn, OwnSlot, OwnValues, OwnPreferences
<1> QED BY <1>1, PrefAlways, PTL

(***************************************************************************)
(* PluginIDs: the inductive invariant.  Every entry of a registry, every   *)
(* query and every answer is accounted for.                                *)
(***************************************************************************)
\* The names; that the empty one is a string is beyond the provers.
Text     == STRING \cup {""}
Entry    == [loaded : BOOLEAN, short : Text, long : Text, databaseID : Int]
ARow     == [id : Int, long : Text, short : Text]
InsertQ  == [do : {"insert"}, kind : Kind, short : STRING, long : LongNames]
FetchQ   == [do : {"fetch"}, kind : Kind]
AdminQ   == [do : {"connect", "migrations", "migrate"}]
AQuery   == InsertQ \cup FetchQ \cup AdminQ
AnAnswer == [query : AQuery, ok : BOOLEAN, rows : Seq(ARow)]

TypesIDs ==
    /\ infos \in [Kind -> Seq(Entry)] /\ database \in Databases
    /\ queries \in Seq(AQuery) /\ answers \in Seq(AnAnswer)
    /\ tables \in [Kind -> Seq(TableRow)]
    /\ migrations \in 0 .. LastMigration + 1 /\ genuine \in BOOLEAN
    /\ pluginMoves \in 0 .. MaxPluginMoves /\ failures \in 0 .. MaxFailures
    /\ forgotten \subseteq Kind \X LongNames /\ lost \subseteq Kind \X LongNames

IsRow(kind, id, long) == id \in 1 .. Len(tables[kind]) /\ tables[kind][id].long = long

\* An entry the database named for lack of another.
NamedAfterRow(kind, e) ==
    /\ kind = "mode" /\ ~e.loaded /\ e.long = "" /\ e.databaseID = NoID
    /\ \E id \in 1 .. Len(tables.mode) : tables.mode[id].long = e.short

OfAPlugin(kind, e) ==
    \E p \in Files \cup {BuiltIn} : p.kind = kind /\ p.short = e.short /\ p.long = e.long

OwnNames(p, q) == p.short # q.short /\ p.long # q.long

\* An ID is that of a row with the name; the entry of a plugin shares no name
\* with the ones before it; any other came from the database.
EntryOK(kind, list, i) ==
    /\ list[i].databaseID # NoID => IsRow(kind, list[i].databaseID, list[i].long)
    /\ list[i].long # "" => OfAPlugin(kind, list[i]) /\ \A j \in 1 .. i - 1 : OwnNames(list[j], list[i])
    /\ list[i].long = "" => NamedAfterRow(kind, list[i]) /\ database = "ready"

ListOK(kind, list) == \A i \in 1 .. Len(list) : EntryOK(kind, list, i)

ShortTaken(kind, short, long) ==
    \E id \in 1 .. Len(tables[kind]) : tables[kind][id].short = short /\ tables[kind][id].long # long

\* What an answer says is true: its rows are there, and an insert that found no
\* row was refused for its short name.
AnswerOK(a) ==
    /\ a.query \in AdminQ => a.rows = <<>>
    /\ \A m \in 1 .. Len(a.rows) : IsRow(a.query.kind, a.rows[m].id, a.rows[m].long)
    /\ a.query \in InsertQ => \A m \in 1 .. Len(a.rows) : a.rows[m].long = a.query.long
    /\ a.query \in InsertQ /\ a.ok /\ a.rows = <<>> => ShortTaken(a.query.kind, a.query.short, a.query.long)

\* The connection is set up one question at a time; the plugins' come after.
OneByOne ==
    /\ database = "ready" =>
         /\ \A q \in ElementsOf(queries) : q \in InsertQ \cup FetchQ
         /\ \A a \in ElementsOf(answers) : a.query \in InsertQ \cup FetchQ
    /\ database # "ready" =>
         /\ Len(queries) + Len(answers) <= 1
         /\ \A q \in ElementsOf(queries) : q \in AdminQ
         /\ \A a \in ElementsOf(answers) : a.query \in AdminQ

\* What has been asked and not been heard.
Asked == ElementsOf(queries) \cup {a.query : a \in ElementsOf(answers)}

\* Who has no ID has asked for it, or there is a reason.
AllAsked(kind, list) ==
    \A i \in 1 .. Len(list) :
      list[i].long # "" /\ list[i].databaseID = NoID => Insert(kind, list[i]) \in Asked \/ LeftWithout(kind, list[i])

IDInv ==
    /\ TypesIDs /\ OneByOne
    /\ \A kind \in Kind : ListOK(kind, infos[kind])
    /\ \A a \in ElementsOf(answers) : AnswerOK(a)
    /\ database = "ready" => \A kind \in Kind : AllAsked(kind, infos[kind])

(***************************************************************************)
(* What the rows of an answer do to a registry.                            *)
(***************************************************************************)
SameNames(e, f) == e.loaded = f.loaded /\ e.short = f.short /\ e.long = f.long

\* Entries keep their names and their places; an ID is kept or replaced by that
\* of a row of the name, and what is new was named by the database.
Refined(kind, list) ==
    {s \in Seq(Entry) :
        /\ Len(s) >= Len(list)
        /\ \A i \in 1 .. Len(list) :
             /\ SameNames(s[i], list[i])
             /\ s[i].databaseID = list[i].databaseID \/ IsRow(kind, s[i].databaseID, s[i].long)
        /\ \A i \in 1 .. Len(s) : i > Len(list) => NamedAfterRow(kind, s[i])}

LEMMA RowIsNamed ==
    ASSUME NEW kind \in Kind, NEW id, NEW long, tables \in [Kind -> Seq(TableRow)], IsRow(kind, id, long)
    PROVE  id \in Nat /\ id # NoID /\ long \in Text /\ long # ""
<1>1. tables[kind] \in Seq(TableRow)
    OBVIOUS
<1>2. id \in 1 .. Len(tables[kind]) /\ tables[kind][id].long = long
    BY DEF IsRow
<1>3. tables[kind][id] \in TableRow
    BY <1>1, <1>2, ElementOfSeq
<1>4. id \in Nat /\ id # -1
    BY <1>1, <1>2
<1>5. tables[kind][id].long \in STRING /\ tables[kind][id].long # ""
    BY <1>3 DEF TableRow
<1> QED BY <1>2, <1>4, <1>5 DEF NoID, Text

LEMMA UpdateOne ==
    ASSUME NEW kind \in Kind, NEW list \in Seq(Entry), NEW s \in Refined(kind, list), NEW row \in ARow,
           tables \in [Kind -> Seq(TableRow)], IsRow(kind, row.id, row.long)
    PROVE  /\ UpdateDatabaseID(kind, s, row) \in Refined(kind, list)
           /\ \A i \in 1 .. Len(list) :
                /\ s[i].databaseID # NoID => UpdateDatabaseID(kind, s, row)[i].databaseID # NoID
                /\ s[i].long = row.long /\ (\A j \in 1 .. i - 1 : s[j].long # row.long)
                     => UpdateDatabaseID(kind, s, row)[i].databaseID # NoID
<1> DEFINE places == {i \in DOMAIN s : s[i].long = row.long}
           k == PlaceOfRow(s, row)
<1>1. /\ s \in Seq(Entry) /\ Len(s) \in Nat /\ Len(list) \in Nat /\ Len(s) >= Len(list) /\ DOMAIN s = 1 .. Len(s)
      /\ \A i \in 1 .. Len(list) :
           /\ SameNames(s[i], list[i])
           /\ s[i].databaseID = list[i].databaseID \/ IsRow(kind, s[i].databaseID, s[i].long)
      /\ \A i \in 1 .. Len(s) : i > Len(list) => NamedAfterRow(kind, s[i])
      /\ \A i \in 1 .. Len(s) : s[i] \in Entry
    BY DEF Refined
<1>2. row.id \in Int /\ row.long \in Text /\ row.id # NoID /\ row.long # ""
    <2>1. row.id \in Int /\ row.long \in Text
        BY DEF ARow
    <2>2. row.id # NoID /\ row.long # ""
        BY RowIsNamed
    <2> QED BY <2>1, <2>2
<1>3. /\ k = 0 => \A i \in 1 .. Len(s) : s[i].long # row.long
      /\ k # 0 => k \in 1 .. Len(s) /\ s[k].long = row.long /\ \A i \in 1 .. Len(s) : s[i].long = row.long => k <= i
    <2>1. places \in SUBSET (Nat \ {0}) /\ k = FirstOf(places)
        BY <1>1 DEF PlaceOfRow
    <2>2. places = {i \in 1 .. Len(s) : s[i].long = row.long}
        BY <1>1
    <2> HIDE DEF places, k
    <2>3. (k = 0 <=> places = {}) /\ (places # {} => k \in places /\ \A i \in places : k <= i)
        BY <2>1, FirstOfIs
    <2> QED BY <2>2, <2>3
<1>4. CASE k # 0
    <2> DEFINE new == WithID(s, row)
    <2>1. UpdateDatabaseID(kind, s, row) = new
        BY <1>4 DEF UpdateDatabaseID, UpdateModeDatabaseID, UpdateStyleDatabaseID
    <2>2. new = [s EXCEPT ![k] = [s[k] EXCEPT !.databaseID = row.id]]
        BY DEF WithID
    <2> HIDE DEF k, new
    <2> DEFINE e == [s[k] EXCEPT !.databaseID = row.id]
    <2>3. e \in Entry /\ SameNames(e, s[k]) /\ e.databaseID = row.id
        <3>1. s[k] \in [loaded : BOOLEAN, short : Text, long : Text, databaseID : Int]
            BY <1>1, <1>3, <1>4 DEF Entry
        <3> QED BY <3>1, <1>2 DEF SameNames, Entry
    <2> HIDE DEF e
    <2>4. new = [s EXCEPT ![k] = e]
        BY <2>2 DEF e
    <2>5. /\ new \in Seq(Entry) /\ Len(new) = Len(s) /\ new[k] = e
          /\ \A i \in 1 .. Len(s) : i # k => new[i] = s[i]
        BY <1>1, <1>3, <1>4, <2>3, <2>4
    <2>6. IsRow(kind, e.databaseID, e.long) /\ e.databaseID # NoID
        BY <1>2, <1>3, <1>4, <2>3 DEF SameNames
    <2>7. ASSUME NEW i \in 1 .. Len(list)
          PROVE  /\ SameNames(new[i], list[i])
                 /\ new[i].databaseID = list[i].databaseID \/ IsRow(kind, new[i].databaseID, new[i].long)
        <3>1. CASE i = k
            BY <1>1, <2>3, <2>5, <2>6, <3>1 DEF SameNames
        <3>2. CASE i # k
            <4>1. i \in 1 .. Len(s)
                BY <1>1
            <4>2. new[i] = s[i]
                BY <2>5, <3>2, <4>1
            <4>3. /\ SameNames(s[i], list[i])
                  /\ s[i].databaseID = list[i].databaseID \/ IsRow(kind, s[i].databaseID, s[i].long)
                BY <1>1
            <4> QED BY <4>2, <4>3
        <3> QED BY <3>1, <3>2
    <2>8. ASSUME NEW i \in 1 .. Len(new), i > Len(list)
          PROVE  NamedAfterRow(kind, new[i])
        <3>1. NamedAfterRow(kind, s[i])
            BY <1>1, <2>5, <2>8
        <3>2. i # k
            BY <1>2, <1>3, <1>4, <3>1 DEF NamedAfterRow
        <3> QED BY <2>5, <2>8, <3>1, <3>2
    <2>9. new \in Refined(kind, list)
        BY <1>1, <2>5, <2>7, <2>8 DEF Refined
    <2>10. ASSUME NEW i \in 1 .. Len(list)
           PROVE  /\ s[i].databaseID # NoID => new[i].databaseID # NoID
                  /\ s[i].long = row.long /\ (\A j \in 1 .. i - 1 : s[j].long # row.long) => new[i].databaseID # NoID
        <3>1. CASE i = k
            BY <2>5, <2>6, <3>1
        <3>2. CASE i # k
            <4>1. new[i] = s[i]
                BY <1>1, <2>5, <3>2
            <4>2. s[i].long = row.long => k \in 1 .. i - 1
                BY <1>1, <1>3, <1>4, <3>2
            <4> QED BY <1>3, <1>4, <4>1, <4>2
        <3> QED BY <3>1, <3>2
    <2> QED BY <2>1, <2>9, <2>10
<1>5. CASE k = 0 /\ kind = "mode"
    <2> DEFINE e == NamedByDatabase(row.long)
               new == Append(s, e)
    <2>1. UpdateDatabaseID(kind, s, row) = new
        BY <1>5 DEF UpdateDatabaseID, UpdateModeDatabaseID
    <2>2. e \in Entry
        <3>1. "" \in Text
            BY DEF Text
        <3>2. NoID \in Int
            BY DEF NoID
        <3> QED BY <1>2, <3>1, <3>2 DEF NamedByDatabase, Entry
    <2>3. NamedAfterRow(kind, e)
        BY <1>5 DEF NamedAfterRow, NamedByDatabase, IsRow
    <2> HIDE DEF e, k
    <2>4. /\ new \in Seq(Entry) /\ Len(new) = Len(s) + 1 /\ new[Len(s) + 1] = e
          /\ \A i \in 1 .. Len(s) : new[i] = s[i]
        BY <1>1, <2>2, AppendProperties
    <2> HIDE DEF new
    <2>5. \A i \in 1 .. Len(list) : i \in 1 .. Len(s) /\ new[i] = s[i]
        BY <1>1, <2>4
    <2>6. ASSUME NEW i \in 1 .. Len(new), i > Len(list)
          PROVE  NamedAfterRow(kind, new[i])
        <3>1. CASE i = Len(s) + 1
            BY <2>3, <2>4, <3>1
        <3>2. CASE i # Len(s) + 1
            BY <1>1, <2>4, <2>6, <3>2
        <3> QED BY <3>1, <3>2
    <2>7. new \in Refined(kind, list)
        <3>1. Len(new) >= Len(list)
            BY <1>1, <2>4
        <3>2. \A i \in 1 .. Len(list) :
                /\ SameNames(new[i], list[i])
                /\ new[i].databaseID = list[i].databaseID \/ IsRow(kind, new[i].databaseID, new[i].long)
            BY <1>1, <2>5
        <3> QED BY <2>4, <2>6, <3>1, <3>2 DEF Refined
    <2>8. \A i \in 1 .. Len(list) : s[i].long # row.long
        BY <1>3, <1>5, <2>5
    <2> QED BY <2>1, <2>5, <2>7, <2>8
<1>6. CASE k = 0 /\ kind # "mode"
    <2>1. UpdateDatabaseID(kind, s, row) = s
        BY <1>6 DEF UpdateDatabaseID, UpdateStyleDatabaseID
    <2>2. \A i \in 1 .. Len(list) : s[i].long # row.long
        BY <1>1, <1>3, <1>6
    <2> QED BY <2>1, <2>2
<1> QED BY <1>4, <1>5, <1>6

LEMMA UpdatedIs ==
    ASSUME NEW kind \in Kind, NEW list \in Seq(Entry), NEW rows \in Seq(ARow),
           tables \in [Kind -> Seq(TableRow)],
           \A m \in 1 .. Len(rows) : IsRow(kind, rows[m].id, rows[m].long)
    PROVE  /\ Updated(kind, list, rows) \in Refined(kind, list)
           /\ \A i \in 1 .. Len(list) :
                (\E m \in 1 .. Len(rows) : rows[m].long = list[i].long)
                /\ (\A j \in 1 .. i - 1 : list[j].long # list[i].long)
                  => Updated(kind, list, rows)[i].databaseID # NoID
<1> DEFINE n == Len(rows)
           X == Refined(kind, list)
           G(f) == [i \in 0 .. n |-> IF i = 0 THEN list ELSE UpdateDatabaseID(kind, f[i - 1], rows[i])]
           move == [i \in 1 .. n |-> [s \in X |-> UpdateDatabaseID(kind, s, rows[i])]]
           after == CHOOSE f : f = G(f)
<1>1. n \in Nat /\ \A i \in 1 .. n : rows[i] \in ARow /\ IsRow(kind, rows[i].id, rows[i].long)
    BY ElementOfSeq
<1>2. Updated(kind, list, rows) = after[n]
    BY DEF Updated
<1>3. list \in X
    <2>1. \A i \in 1 .. Len(list) : SameNames(list[i], list[i])
        BY DEF SameNames
    <2>2. \A i \in 1 .. Len(list) : ~(i > Len(list))
        OBVIOUS
    <2>3. Len(list) >= Len(list)
        OBVIOUS
    <2> QED BY <2>1, <2>2, <2>3 DEF Refined
<1>4. \A i \in 1 .. n : \A s \in X : UpdateDatabaseID(kind, s, rows[i]) \in X
    BY <1>1, UpdateOne
<1> HIDE DEF n, X
<1>5. \E f : f = G(f)
    <2>1. move \in NextSteps(n, X)
        BY <1>4 DEF NextSteps
    <2>2. \A i \in 1 .. n : \A s \in X : move[i][s] = UpdateDatabaseID(kind, s, rows[i])
        OBVIOUS
    <2> HIDE DEF move
    <2>3. PICK f \in Walks(n, X) : \A i \in 0 .. n : f[i] = IF i = 0 THEN list ELSE move[i][f[i - 1]]
        BY <1>1, <1>3, <2>1, WalkSteps
    <2>4. \A i \in 1 .. n : move[i][f[i - 1]] = UpdateDatabaseID(kind, f[i - 1], rows[i])
        BY <1>1, <2>2, <2>3 DEF Walks
    <2>5. \A i \in 0 .. n : f[i] = IF i = 0 THEN list ELSE UpdateDatabaseID(kind, f[i - 1], rows[i])
        BY <1>1, <2>3, <2>4
    <2>6. f = [i \in 0 .. n |-> f[i]]
        BY <2>3 DEF Walks
    <2> QED BY <2>5, <2>6
<1>6. after = G(after)
    BY <1>5
<1> HIDE DEF after
<1>7. after[0] = list /\ \A i \in 1 .. n : after[i] = UpdateDatabaseID(kind, after[i - 1], rows[i])
    <2>1. \A i \in 0 .. n : after[i] = IF i = 0 THEN list ELSE UpdateDatabaseID(kind, after[i - 1], rows[i])
        BY <1>6
    <2> QED BY <1>1, <2>1
<1>8. after[n] \in X
    <2>1. after[0] \in X /\ \A i \in 1 .. n : after[i - 1] \in X => after[i] \in X
        BY <1>3, <1>4, <1>7
    <2> QED BY <1>1, <2>1, WalkStays
<1>9. ASSUME NEW i \in 1 .. Len(list),
             \E m \in 1 .. n : rows[m].long = list[i].long,
             \A j \in 1 .. i - 1 : list[j].long # list[i].long
      PROVE  after[n][i].databaseID # NoID
    <2> DEFINE good == [k \in 0 .. n |->
                          {s \in X : (\E m \in 1 .. k : rows[m].long = list[i].long) => s[i].databaseID # NoID}]
    <2>1. after[0] \in good[0]
        BY <1>1, <1>3, <1>7
    <2>2. ASSUME NEW k \in 1 .. n, after[k - 1] \in good[k - 1]
          PROVE  after[k] \in good[k]
        <3> DEFINE s == after[k - 1]
        <3>1. k - 1 \in 0 .. n /\ k \in 0 .. n
            BY <1>1
        <3>2. s \in X /\ ((\E m \in 1 .. k - 1 : rows[m].long = list[i].long) => s[i].databaseID # NoID)
            BY <2>2, <3>1
        <3>3. after[k] = UpdateDatabaseID(kind, s, rows[k])
            BY <1>7
        <3> HIDE DEF s, good
        <3>4. \A j \in 1 .. Len(list) : s[j].long = list[j].long
            BY <3>2 DEF X, Refined, SameNames
        <3>5. /\ after[k] \in X
              /\ s[i].databaseID # NoID => after[k][i].databaseID # NoID
              /\ s[i].long = rows[k].long /\ (\A j \in 1 .. i - 1 : s[j].long # rows[k].long)
                     => after[k][i].databaseID # NoID
            <4>1. rows[k] \in ARow /\ IsRow(kind, rows[k].id, rows[k].long)
                BY <1>1
            <4> QED BY <3>2, <3>3, <4>1, UpdateOne DEF X
        <3>6. ASSUME NEW m \in 1 .. k, rows[m].long = list[i].long
              PROVE  after[k][i].databaseID # NoID
            <4>1. CASE m = k
                <5>1. \A j \in 1 .. i - 1 : j \in 1 .. Len(list)
                    OBVIOUS
                <5> QED BY <1>9, <3>4, <3>5, <3>6, <4>1, <5>1
            <4>2. CASE m # k
                <5>1. m \in 1 .. k - 1
                    BY <1>1, <4>2
                <5> QED BY <3>2, <3>5, <3>6, <5>1
            <4> QED BY <4>1, <4>2
        <3> QED BY <3>1, <3>5, <3>6 DEF good
    <2>3. \A k \in 0 .. n : after[k] \in good[k]
        <3> HIDE DEF good
        <3> QED BY <1>1, <2>1, <2>2, WalkKeeps
    <2>4. after[n] \in good[n] /\ n \in 0 .. n
        BY <1>1, <2>3
    <2> QED BY <1>9, <2>4
<1> QED BY <1>2, <1>8, <1>9 DEF n, X

(***************************************************************************)
(* What is registered when the server starts.                              *)
(***************************************************************************)
\* Plugins of a kind, of which no two share a name.
Apart(kind, ps) ==
    /\ ps \in Seq(NamedPlugin)
    /\ \A i \in 1 .. Len(ps) : ps[i].kind = kind /\ ps[i] \in Files \cup {BuiltIn}
    /\ \A i \in 1 .. Len(ps) : \A j \in 1 .. i - 1 : OwnNames(ps[j], ps[i])

\* A registry of which nothing has come from the database.
Fresh(kind, list) ==
    /\ list \in Seq(Entry)
    /\ \A i \in 1 .. Len(list) :
         /\ list[i].databaseID = NoID /\ list[i].long # ""
         /\ OfAPlugin(kind, list[i])
         /\ \A j \in 1 .. i - 1 : OwnNames(list[j], list[i])

LEMMA RegisteredIs ==
    ASSUME NEW p \in NamedPlugin
    PROVE  /\ Registered(p) \in Entry /\ Registered(p).loaded /\ Registered(p).databaseID = NoID
           /\ Registered(p).short = p.short /\ Registered(p).long = p.long
           /\ p.long # "" /\ p.long \in Text /\ p.short \in Text
<1>1. p.short \in Text /\ p.long \in Text /\ p.long # ""
    BY DEF NamedPlugin, Text
<1>2. NoID \in Int
    BY DEF NoID
<1> QED BY <1>1, <1>2 DEF Registered, Entry

LEMMA ApartAreFresh ==
    ASSUME NEW kind \in Kind, NEW ps, Apart(kind, ps)
    PROVE  Fresh(kind, RegisteredAll(ps))
<1> DEFINE list == RegisteredAll(ps)
<1>1. ps \in Seq(NamedPlugin) /\ Len(ps) \in Nat /\ DOMAIN ps = 1 .. Len(ps)
    BY DEF Apart
<1>2. \A i \in 1 .. Len(ps) : ps[i] \in NamedPlugin
    BY <1>1, ElementOfSeq
<1>3. list = [i \in 1 .. Len(ps) |-> Registered(ps[i])]
    BY <1>1 DEF RegisteredAll
<1>4. \A i \in 1 .. Len(ps) : Registered(ps[i]) \in Entry
    BY <1>2, RegisteredIs
<1>5. list \in Seq(Entry) /\ Len(list) = Len(ps)
    BY <1>1, <1>3, <1>4
<1>6. \A i \in 1 .. Len(ps) : list[i] = Registered(ps[i])
    BY <1>3
<1> HIDE DEF list
<1>7. ASSUME NEW i \in 1 .. Len(ps)
      PROVE  /\ list[i].databaseID = NoID /\ list[i].long # ""
             /\ list[i].short = ps[i].short /\ list[i].long = ps[i].long
    <2>1. list[i] = Registered(ps[i]) /\ ps[i] \in NamedPlugin
        BY <1>2, <1>6
    <2> DEFINE p == ps[i]
    <2> HIDE DEF p
    <2>2. p \in NamedPlugin
        BY <2>1 DEF p
    <2>3. /\ Registered(p).databaseID = NoID /\ p.long # ""
          /\ Registered(p).short = p.short /\ Registered(p).long = p.long
        BY <2>2, RegisteredIs
    <2> QED BY <2>1, <2>3 DEF p
<1>8. ASSUME NEW i \in 1 .. Len(ps), NEW j \in 1 .. i - 1
      PROVE  OwnNames(list[j], list[i])
    <2>1. j \in 1 .. Len(ps)
        BY <1>1
    <2>2. OwnNames(ps[j], ps[i])
        BY DEF Apart
    <2> QED BY <1>7, <2>1, <2>2 DEF OwnNames
<1>9. \A i \in 1 .. Len(ps) : ps[i].kind = kind /\ ps[i] \in Files \cup {BuiltIn}
    BY DEF Apart
<1> QED BY <1>5, <1>7, <1>8, <1>9 DEF Fresh, OfAPlugin, list

LEMMA FilesAreApart ==
    ASSUME NEW kind \in Kind, NEW loaded
    PROVE  /\ Apart(kind, FilesOf(kind, loaded))
           /\ \A i \in 1 .. Len(FilesOf(kind, loaded)) : \E k \in 1 .. Len(PluginFiles) : FilesOf(kind, loaded)[i] = PluginFiles[k]
<1> DEFINE S == {i \in DOMAIN PluginFiles : PluginFiles[i].kind = kind /\ PluginFiles[i] \in loaded}
           ps == FilesOf(kind, loaded)
           n == Len(PluginFiles)
<1>1. PluginFiles \in Seq(NamedPlugin) /\ n \in Nat /\ DOMAIN PluginFiles = 1 .. n
    BY PluginAssumption
<1>2. ps = Chosen(PluginFiles, S)
    BY DEF FilesOf
<1>3. \A k \in S : k \in 1 .. n /\ PluginFiles[k].kind = kind
    BY <1>1
<1> HIDE DEF S, ps
<1>4. ps \in KeptUpto(NamedPlugin, PluginFiles, S, n)
    BY <1>1, <1>2, ChosenIs
<1> DEFINE at(k) == CountUpto(S, k)
<1>5. /\ ps \in Seq(NamedPlugin)
      /\ \A m \in 1 .. Len(ps) : \E k \in 1 .. n : k \in S /\ m = at(k) /\ ps[m] = PluginFiles[k]
    BY <1>4 DEF KeptUpto
<1> HIDE DEF at
<1>6. ASSUME NEW i \in 1 .. Len(ps)
      PROVE  ps[i].kind = kind /\ ps[i] \in Files \cup {BuiltIn}
    BY <1>1, <1>3, <1>5 DEF Files
<1>7. ASSUME NEW i \in 1 .. Len(ps), NEW j \in 1 .. i - 1
      PROVE  OwnNames(ps[j], ps[i])
    <2>1. PICK k \in 1 .. n : k \in S /\ i = at(k) /\ ps[i] = PluginFiles[k]
        BY <1>5
    <2>2. j \in 1 .. Len(ps) /\ j # i
        BY <1>5
    <2>3. PICK m \in 1 .. n : m \in S /\ j = at(m) /\ ps[j] = PluginFiles[m]
        BY <1>5, <2>2
    <2>4. m # k
        BY <2>1, <2>2, <2>3
    <2>5. Differ(PluginFiles[m], PluginFiles[k])
        BY <1>1, <2>4, PluginAssumption
    <2> QED BY <1>3, <2>1, <2>3, <2>5 DEF Differ, OwnNames
<1> QED BY <1>5, <1>6, <1>7 DEF Apart, ps

LEMMA LoadedIsFresh ==
    ASSUME NEW loaded
    PROVE  Fresh("mode", ModesLoaded(loaded)) /\ Fresh("style", StylesLoaded(loaded))
<1> DEFINE f == FilesOf("mode", loaded)
           ps == <<BuiltIn>> \o f
<1>1. "mode" \in Kind /\ "style" \in Kind
    BY DEF Kind
<1>2. Apart("mode", f) /\ Apart("style", FilesOf("style", loaded))
    BY <1>1, FilesAreApart
<1>3. \A i \in 1 .. Len(f) : \E k \in 1 .. Len(PluginFiles) : f[i] = PluginFiles[k]
    BY <1>1, FilesAreApart
<1> HIDE DEF f
<1>4. BuiltIn \in NamedPlugin /\ BuiltIn.kind = "mode"
    BY PluginAssumption
<1>5. f \in Seq(NamedPlugin) /\ Len(f) \in Nat /\ \A i \in 1 .. Len(f) : f[i].kind = "mode" /\ f[i] \in Files \cup {BuiltIn}
    BY <1>2 DEF Apart
<1>6. /\ ps \in Seq(NamedPlugin) /\ Len(ps) = Len(f) + 1 /\ ps[1] = BuiltIn
      /\ \A i \in 2 .. Len(f) + 1 : i - 1 \in 1 .. Len(f) /\ ps[i] = f[i - 1]
    BY <1>4, <1>5
<1> HIDE DEF ps
<1>7. ASSUME NEW i \in 1 .. Len(ps)
      PROVE  ps[i].kind = "mode" /\ ps[i] \in Files \cup {BuiltIn}
    <2>1. CASE i = 1
        BY <1>4, <1>6, <2>1
    <2>2. CASE i # 1
        <3>1. i \in 2 .. Len(f) + 1
            BY <1>5, <1>6, <2>2
        <3> QED BY <1>5, <1>6, <3>1
    <2> QED BY <2>1, <2>2
<1>8. ASSUME NEW i \in 1 .. Len(ps), NEW j \in 1 .. i - 1
      PROVE  OwnNames(ps[j], ps[i])
    <2>1. i \in 2 .. Len(f) + 1
        BY <1>5, <1>6
    <2>2. i - 1 \in 1 .. Len(f) /\ ps[i] = f[i - 1]
        BY <1>6, <2>1
    <2>3. CASE j = 1
        <3>1. PICK k \in 1 .. Len(PluginFiles) : f[i - 1] = PluginFiles[k]
            BY <1>3, <2>2
        <3>2. Differ(PluginFiles[k], BuiltIn)
            BY PluginAssumption
        <3> QED BY <1>4, <1>5, <1>6, <2>2, <2>3, <3>1, <3>2 DEF Differ, OwnNames
    <2>4. CASE j # 1
        <3>1. j \in 2 .. Len(f) + 1 /\ j - 1 \in 1 .. (i - 1) - 1
            BY <1>5, <1>6, <2>1, <2>4
        <3>2. ps[j] = f[j - 1]
            BY <1>6, <3>1
        <3>3. OwnNames(f[j - 1], f[i - 1])
            BY <1>2, <2>2, <3>1 DEF Apart
        <3> QED BY <2>2, <3>2, <3>3
    <2> QED BY <2>3, <2>4
<1>9. Apart("mode", ps)
    BY <1>6, <1>7, <1>8 DEF Apart
<1> QED BY <1>1, <1>2, <1>9, ApartAreFresh DEF ModesLoaded, StylesLoaded, ps, f

(***************************************************************************)
(* What stays true while rows are only added.                              *)
(***************************************************************************)
RowsKept ==
    \A kind \in Kind :
      /\ Len(tables[kind]) <= Len(tables'[kind])
      /\ \A id \in 1 .. Len(tables[kind]) : tables'[kind][id] = tables[kind][id]

LEMMA RowsStay ==
    ASSUME TypesIDs, TypesIDs', RowsKept, NEW kind \in Kind
    PROVE  \A id \in 1 .. Len(tables[kind]) : id \in 1 .. Len(tables'[kind]) /\ tables'[kind][id] = tables[kind][id]
<1>1. tables[kind] \in Seq(TableRow) /\ tables'[kind] \in Seq(TableRow)
    BY DEF TypesIDs
<1>2. Len(tables[kind]) \in Nat /\ Len(tables'[kind]) \in Nat
    BY <1>1
<1> QED BY <1>2 DEF RowsKept

LEMMA IsRowStays ==
    ASSUME TypesIDs, TypesIDs', RowsKept, NEW kind \in Kind, NEW id, NEW long, IsRow(kind, id, long)
    PROVE  IsRow(kind, id, long)'
BY RowsStay DEF IsRow

LEMMA ShortTakenStays ==
    ASSUME TypesIDs, TypesIDs', RowsKept, NEW kind \in Kind, NEW short, NEW long, ShortTaken(kind, short, long)
    PROVE  ShortTaken(kind, short, long)'
BY RowsStay DEF ShortTaken

LEMMA NamedStays ==
    ASSUME TypesIDs, TypesIDs', RowsKept, NEW kind \in Kind, NEW e, NamedAfterRow(kind, e)
    PROVE  NamedAfterRow(kind, e)'
<1>1. "mode" \in Kind
    BY DEF Kind
<1> QED BY <1>1, RowsStay DEF NamedAfterRow

LEMMA ListStays ==
    ASSUME TypesIDs, TypesIDs', RowsKept, database = "ready" => database' = "ready",
           NEW kind \in Kind, NEW list, ListOK(kind, list)
    PROVE  ListOK(kind, list)'
<1>1. SUFFICES ASSUME NEW i \in 1 .. Len(list)
               PROVE  EntryOK(kind, list, i)'
    BY DEF ListOK
<1>2. EntryOK(kind, list, i)
    BY DEF ListOK
<1>3. list[i].databaseID # NoID => IsRow(kind, list[i].databaseID, list[i].long)'
    BY <1>2, IsRowStays DEF EntryOK
<1>4. list[i].long = "" => NamedAfterRow(kind, list[i])' /\ database' = "ready"
    BY <1>2, NamedStays DEF EntryOK
<1> QED BY <1>2, <1>3, <1>4 DEF EntryOK, OfAPlugin

LEMMA LeftStays ==
    ASSUME TypesIDs, TypesIDs', RowsKept, lost \subseteq lost', forgotten \subseteq forgotten',
           NEW kind \in Kind, NEW e, NEW f, e.short = f.short, e.long = f.long, LeftWithout(kind, e)
    PROVE  LeftWithout(kind, f)'
<1>1. "mode" \in Kind
    BY DEF Kind
<1>2. tables[kind] \in Seq(TableRow) /\ tables'[kind] \in Seq(TableRow)
      /\ tables["mode"] \in Seq(TableRow) /\ tables'["mode"] \in Seq(TableRow)
    BY <1>1 DEF TypesIDs
<1>3. /\ DOMAIN tables[kind] = 1 .. Len(tables[kind]) /\ DOMAIN tables'[kind] = 1 .. Len(tables'[kind])
      /\ DOMAIN tables["mode"] = 1 .. Len(tables["mode"]) /\ DOMAIN tables'["mode"] = 1 .. Len(tables'["mode"])
    BY <1>2
<1>4. \A id \in DOMAIN tables[kind] : id \in DOMAIN tables'[kind] /\ tables'[kind][id] = tables[kind][id]
    BY <1>3, RowsStay
<1>5. \A id \in DOMAIN tables["mode"] : id \in DOMAIN tables'["mode"] /\ tables'["mode"][id] = tables["mode"][id]
    BY <1>1, <1>3, RowsStay
<1> QED BY <1>4, <1>5 DEF LeftWithout

\* An answer and a query by their kinds.
LEMMA ByKind ==
    /\ \A q \in InsertQ : q.do = "insert" /\ q.kind \in Kind /\ q.long \in LongNames /\ q \in AQuery
    /\ \A q \in FetchQ : q.do = "fetch" /\ q.kind \in Kind /\ q \in AQuery
    /\ \A q \in AdminQ : q.do \in {"connect", "migrations", "migrate"} /\ q \in AQuery
    /\ \A q \in AQuery : q \in InsertQ \/ q \in FetchQ \/ q \in AdminQ
<1>1. \A q \in InsertQ : q.do = "insert" /\ q.kind \in Kind /\ q.long \in LongNames /\ q \in AQuery
    BY DEF InsertQ, AQuery
<1>2. \A q \in FetchQ : q.do = "fetch" /\ q.kind \in Kind /\ q \in AQuery
    BY DEF FetchQ, AQuery
<1>3. \A q \in AdminQ : q.do \in {"connect", "migrations", "migrate"} /\ q \in AQuery
    BY DEF AdminQ, AQuery
<1> QED BY <1>1, <1>2, <1>3 DEF AQuery

LEMMA QueriesMade ==
    /\ \A kind \in Kind : FetchAll(kind) \in FetchQ
    /\ \A kind \in Kind : \A e : e.short \in STRING /\ e.long \in LongNames => Insert(kind, e) \in InsertQ
    /\ \A what \in {"connect", "migrations", "migrate"} : Query(what) \in AdminQ
BY DEF FetchAll, FetchQ, Insert, InsertQ, Query, AdminQ

LEMMA AnswerStays ==
    ASSUME TypesIDs, TypesIDs', RowsKept, NEW a \in AnAnswer, AnswerOK(a)
    PROVE  AnswerOK(a)'
<1>1. a.query \in AQuery
    BY DEF AnAnswer
<1>2. CASE a.query \in AdminQ
    <2>1. a.rows = <<>> /\ a.query \notin InsertQ
        BY <1>2, ByKind DEF AnswerOK
    <2>2. Len(a.rows) = 0
        BY <2>1
    <2> QED BY <2>1, <2>2 DEF AnswerOK
<1>3. CASE a.query \notin AdminQ
    <2>1. a.query.kind \in Kind
        BY <1>1, <1>3, ByKind
    <2> DEFINE kind == a.query.kind
    <2> HIDE DEF kind
    <2>2. \A m \in 1 .. Len(a.rows) : IsRow(kind, a.rows[m].id, a.rows[m].long)'
        <3> SUFFICES ASSUME NEW m \in 1 .. Len(a.rows)
                     PROVE  IsRow(kind, a.rows[m].id, a.rows[m].long)'
            OBVIOUS
        <3>1. IsRow(kind, a.rows[m].id, a.rows[m].long)
            BY DEF AnswerOK, kind
        <3> QED BY <2>1, <3>1, IsRowStays DEF kind
    <2>3. ASSUME a.query \in InsertQ, a.ok, a.rows = <<>>
          PROVE  ShortTaken(kind, a.query.short, a.query.long)'
        <3>1. ShortTaken(kind, a.query.short, a.query.long)
            BY <2>3 DEF AnswerOK, kind
        <3> QED BY <2>1, <3>1, ShortTakenStays DEF kind
    <2> QED BY <1>3, <2>2, <2>3 DEF AnswerOK, kind
<1> QED BY <1>2, <1>3

(***************************************************************************)
(* The start.                                                              *)
(***************************************************************************)
LEMMA FreshIsOK ==
    ASSUME NEW kind \in Kind, NEW list, Fresh(kind, list)
    PROVE  ListOK(kind, list) /\ ListOK(kind, list)' /\ list \in Seq(Entry)
<1>1. ASSUME NEW i \in 1 .. Len(list)
      PROVE  EntryOK(kind, list, i) /\ EntryOK(kind, list, i)'
    <2>1. /\ list[i].databaseID = NoID /\ list[i].long # "" /\ OfAPlugin(kind, list[i])
          /\ \A j \in 1 .. i - 1 : OwnNames(list[j], list[i])
        BY DEF Fresh
    <2> QED BY <2>1 DEF EntryOK, OfAPlugin
<1> QED BY <1>1 DEF ListOK, Fresh

LEMMA StartIDs ==
    InitIDs => IDInv
<1> SUFFICES ASSUME InitIDs PROVE IDInv
    OBVIOUS
<1>1. \A kind \in Kind : Fresh(kind, infos[kind])
    <2>1. infos["mode"] = ModesLoaded({}) /\ infos["style"] = StylesLoaded({})
        BY DEF InitIDs
    <2> QED BY <2>1, LoadedIsFresh DEF Kind
<1>2. \A kind \in Kind : ListOK(kind, infos[kind]) /\ infos[kind] \in Seq(Entry)
    BY <1>1, FreshIsOK
<1>3. TypesIDs
    <2>1. infos \in [Kind -> Seq(Entry)]
        <3>1. infos = [kind \in Kind |-> infos[kind]]
            <4>1. infos = [mode |-> ModesLoaded({}), style |-> StylesLoaded({})]
                BY DEF InitIDs
            <4> QED BY <4>1 DEF Kind
        <3> QED BY <1>2, <3>1
    <2>2. database \in Databases /\ queries \in Seq(AQuery) /\ answers \in Seq(AnAnswer)
        BY DEF InitIDs, Databases
    <2>3. tables \in [Kind -> Seq(TableRow)]
        BY PluginAssumption DEF InitIDs
    <2>4. /\ pluginMoves \in 0 .. MaxPluginMoves /\ failures \in 0 .. MaxFailures
          /\ forgotten \subseteq Kind \X LongNames /\ lost \subseteq Kind \X LongNames
        BY PluginAssumption DEF InitIDs
    <2> QED BY <2>1, <2>2, <2>3, <2>4 DEF TypesIDs, InitIDs
<1>4. ElementsOf(queries) = {} /\ ElementsOf(answers) = {} /\ Len(queries) = 0 /\ Len(answers) = 0 /\ database = "none"
    BY ElementsOfNone DEF InitIDs
<1>5. OneByOne
    BY <1>4 DEF OneByOne
<1> QED BY <1>2, <1>3, <1>4, <1>5 DEF IDInv

LEMMA LoadedAgain ==
    ASSUME IDInv, AllPluginsLoaded
    PROVE  IDInv'
<1>1. PICK loaded \in SUBSET Files : infos' = [mode |-> ModesLoaded(loaded), style |-> StylesLoaded(loaded)]
    BY DEF AllPluginsLoaded
<1>2. \A kind \in Kind : Fresh(kind, infos'[kind])
    <2>1. infos'["mode"] = ModesLoaded(loaded) /\ infos'["style"] = StylesLoaded(loaded)
        BY <1>1
    <2> QED BY <2>1, LoadedIsFresh DEF Kind
<1>3. ASSUME NEW kind \in Kind
      PROVE  ListOK(kind, infos[kind])' /\ infos'[kind] \in Seq(Entry)
    <2> DEFINE list == infos'[kind]
    <2> HIDE DEF list
    <2>1. Fresh(kind, list)
        BY <1>2 DEF list
    <2>2. /\ list \in Seq(Entry)
          /\ \A i \in 1 .. Len(list) : /\ list[i].databaseID = NoID /\ list[i].long # "" /\ OfAPlugin(kind, list[i])
                                       /\ \A j \in 1 .. i - 1 : OwnNames(list[j], list[i])
        BY <2>1 DEF Fresh
    <2> QED BY <2>2 DEF list, ListOK, EntryOK, OfAPlugin
<1>4. /\ answers' = <<>> /\ database' \in {"connecting", "none"}
      /\ queries' = <<Query("connect")>> \/ queries' = <<>>
    BY DEF AllPluginsLoaded, SetupDatabase
<1>5. Query("connect") \in AdminQ /\ Query("connect") \in AQuery
    BY QueriesMade, ByKind
<1>6. queries' \in Seq(AQuery) /\ Len(queries') <= 1 /\ \A q \in ElementsOf(queries') : q \in AdminQ
    <2>1. CASE queries' = <<>>
        BY <2>1, ElementsOfNone
    <2>2. CASE queries' = <<Query("connect")>>
        <3>1. ElementsOf(queries') = {Query("connect")}
            BY <2>2, ElementsOfOne
        <3> QED BY <1>5, <2>2, <3>1
    <2> QED BY <1>4, <2>1, <2>2
<1>7. ElementsOf(answers') = {} /\ Len(answers') = 0 /\ answers' \in Seq(AnAnswer)
    BY <1>4, ElementsOfNone
<1>8. TypesIDs'
    <2>1. infos' \in [Kind -> Seq(Entry)]
        <3>1. infos' = [kind \in Kind |-> infos'[kind]]
            BY <1>1 DEF Kind
        <3> QED BY <1>3, <3>1
    <2>2. /\ pluginMoves' \in 0 .. MaxPluginMoves
          /\ forgotten' \subseteq Kind \X LongNames /\ lost' \subseteq Kind \X LongNames
        BY PluginAssumption DEF AllPluginsLoaded
    <2>3. UNCHANGED <<tables, migrations, genuine, failures>>
        BY DEF AllPluginsLoaded, onDisk
    <2>4. database' \in Databases
        BY <1>4 DEF Databases
    <2> QED BY <1>6, <1>7, <2>1, <2>2, <2>3, <2>4 DEF TypesIDs, IDInv
<1>9. OneByOne'
    <2>1. \A q \in ElementsOf(queries)' : q \in AdminQ
        BY <1>6 DEF ElementsOf
    <2>2. \A a \in ElementsOf(answers)' : FALSE
        BY <1>7 DEF ElementsOf
    <2>3. Len(queries') + Len(answers') <= 1
        BY <1>6, <1>7
    <2> QED BY <1>4, <2>1, <2>2, <2>3 DEF OneByOne
<1>10. \A a \in ElementsOf(answers)' : FALSE
    BY <1>7 DEF ElementsOf
<1> QED BY <1>3, <1>4, <1>8, <1>9, <1>10 DEF IDInv

(***************************************************************************)
(* The database's thread.                                                  *)
(***************************************************************************)
LEMMA AnswerGiven ==
    ASSUME IDInv, queries # <<>>, NEW a \in AnAnswer, a.query = Head(queries),
           queries' = Tail(queries), answers' = Append(answers, a), database' = database
    PROVE  /\ queries' \in Seq(AQuery) /\ answers' \in Seq(AnAnswer)
           /\ OneByOne' /\ Asked' = Asked
           /\ ElementsOf(answers)' = ElementsOf(answers) \cup {a}
<1>1. queries \in Seq(AQuery) /\ answers \in Seq(AnAnswer) /\ OneByOne
    BY DEF IDInv, TypesIDs
<1>2. /\ queries' \in Seq(AQuery) /\ Len(queries') = Len(queries) - 1
      /\ ElementsOf(queries) = {a.query} \cup ElementsOf(queries')
    BY <1>1, ElementsTaken
<1>3. answers' \in Seq(AnAnswer) /\ ElementsOf(answers') = ElementsOf(answers) \cup {a}
    BY <1>1, ElementsAppended
<1>4. Len(answers') = Len(answers) + 1
    BY <1>1, AppendProperties
<1>5. Len(queries) \in Nat /\ Len(answers) \in Nat
    BY <1>1
<1>6. ElementsOf(queries)' = ElementsOf(queries') /\ ElementsOf(answers)' = ElementsOf(answers')
    BY DEF ElementsOf
<1>7. Asked' = ElementsOf(queries') \cup {b.query : b \in ElementsOf(answers')}
    BY <1>6 DEF Asked
<1>8. {b.query : b \in ElementsOf(answers')} = {a.query} \cup {b.query : b \in ElementsOf(answers)}
    BY <1>3
<1>9. Asked' = Asked
    BY <1>2, <1>7, <1>8 DEF Asked
<1>10. CASE database = "ready"
    <2>1. \A q \in ElementsOf(queries') : q \in InsertQ \cup FetchQ
        BY <1>1, <1>2, <1>10 DEF OneByOne
    <2>2. \A b \in ElementsOf(answers') : b.query \in InsertQ \cup FetchQ
        BY <1>1, <1>2, <1>3, <1>10 DEF OneByOne
    <2> QED BY <1>2, <1>3, <1>6, <1>9, <1>10, <2>1, <2>2 DEF OneByOne
<1>11. CASE database # "ready"
    <2>1. \A q \in ElementsOf(queries') : q \in AdminQ
        BY <1>1, <1>2, <1>11 DEF OneByOne
    <2>2. \A b \in ElementsOf(answers') : b.query \in AdminQ
        BY <1>1, <1>2, <1>3, <1>11 DEF OneByOne
    <2>3. Len(queries') + Len(answers') <= 1
        BY <1>1, <1>2, <1>4, <1>5, <1>11 DEF OneByOne
    <2> QED BY <1>2, <1>3, <1>6, <1>9, <1>11, <2>1, <2>2, <2>3 DEF OneByOne
<1> QED BY <1>10, <1>11

LEMMA AskedStays ==
    ASSUME TypesIDs, TypesIDs', RowsKept, Asked \subseteq Asked', lost \subseteq lost', forgotten \subseteq forgotten',
           NEW kind \in Kind, NEW list, AllAsked(kind, list)
    PROVE  AllAsked(kind, list)'
<1>1. ASSUME NEW i \in 1 .. Len(list), list[i].long # "", list[i].databaseID = NoID
      PROVE  Insert(kind, list[i]) \in Asked' \/ LeftWithout(kind, list[i])'
    <2>1. PICK e : e = list[i]
        OBVIOUS
    <2>2. Insert(kind, e) \in Asked \/ LeftWithout(kind, e)
        BY <1>1, <2>1 DEF AllAsked
    <2>3. LeftWithout(kind, e) => LeftWithout(kind, e)'
        BY LeftStays
    <2> QED BY <2>1, <2>2, <2>3
<1> QED BY <1>1 DEF AllAsked

\* Nothing but rows and answers changes.
LEMMA AnswerKeeps ==
    ASSUME IDInv, TypesIDs', RowsKept, OneByOne', Asked \subseteq Asked',
           UNCHANGED <<infos, database, forgotten, lost>>,
           \A a \in ElementsOf(answers)' : a \in ElementsOf(answers) \/ AnswerOK(a)'
    PROVE  IDInv'
<1>1. TypesIDs
    BY DEF IDInv
<1>2. ASSUME NEW a \in ElementsOf(answers)' PROVE AnswerOK(a)'
    <2>1. CASE a \in ElementsOf(answers)
        <3>1. a \in AnAnswer /\ AnswerOK(a)
            <4>1. answers \in Seq(AnAnswer)
                BY <1>1 DEF TypesIDs
            <4>2. \A i \in 1 .. Len(answers) : answers[i] \in AnAnswer
                BY <4>1, ElementOfSeq
            <4> QED BY <2>1, <4>2 DEF IDInv, ElementsOf
        <3> QED BY <1>1, <3>1, AnswerStays
    <2> QED BY <2>1
<1>3. ASSUME NEW kind \in Kind PROVE ListOK(kind, infos[kind])'
    <2>1. PICK list : list = infos[kind]
        OBVIOUS
    <2>2. ListOK(kind, list)
        BY <2>1 DEF IDInv
    <2>3. ListOK(kind, list)'
        BY <1>1, <2>2, ListStays
    <2> QED BY <2>1, <2>3
<1>4. ASSUME NEW kind \in Kind, database' = "ready" PROVE AllAsked(kind, infos[kind])'
    <2>1. PICK list : list = infos[kind]
        OBVIOUS
    <2>2. AllAsked(kind, list)
        BY <1>4, <2>1 DEF IDInv
    <2>3. AllAsked(kind, list)'
        BY <1>1, <2>2, AskedStays
    <2> QED BY <2>1, <2>3
<1> QED BY <1>2, <1>3, <1>4 DEF IDInv

LEMMA FailKeeps ==
    ASSUME IDInv, Fail
    PROVE  IDInv'
<1>0. PICK a : a = [query |-> Head(queries), ok |-> FALSE, rows |-> <<>>]
    OBVIOUS
<1>1. TypesIDs /\ queries # <<>> /\ queries \in Seq(AQuery)
    BY DEF IDInv, TypesIDs, Fail
<1>2. Head(queries) \in AQuery
    BY <1>1, ElementsTaken
<1>3. a \in AnAnswer /\ a.query = Head(queries) /\ a.rows = <<>> /\ ~a.ok
    BY <1>0, <1>2 DEF AnAnswer
<1>4. queries' = Tail(queries) /\ answers' = Append(answers, a) /\ database' = database
    BY <1>0 DEF Fail
<1>5. /\ queries' \in Seq(AQuery) /\ answers' \in Seq(AnAnswer)
      /\ OneByOne' /\ Asked' = Asked
      /\ ElementsOf(answers)' = ElementsOf(answers) \cup {a}
    BY <1>1, <1>3, <1>4, AnswerGiven
<1>6. AnswerOK(a)'
    <2>1. Len(a.rows) = 0
        BY <1>3
    <2> QED BY <1>3, <2>1 DEF AnswerOK
<1>7. UNCHANGED <<infos, database, tables, migrations, genuine, pluginMoves, forgotten, lost>> /\ failures' \in 0 .. MaxFailures
    <2>1. failures \in 0 .. MaxFailures
        BY <1>1 DEF TypesIDs
    <2> QED BY <2>1, PluginAssumption DEF Fail, onDisk
<1>8. TypesIDs'
    BY <1>1, <1>5, <1>7 DEF TypesIDs
<1>9. RowsKept
    BY <1>1, <1>7 DEF RowsKept, TypesIDs
<1> QED BY <1>5, <1>6, <1>7, <1>8, <1>9, AnswerKeeps

LEMMA RowsOfIs ==
    ASSUME NEW table \in Seq(TableRow)
    PROVE  /\ RowsOf(table) \in Seq(ARow) /\ Len(RowsOf(table)) = Len(table)
           /\ \A i \in 1 .. Len(table) : RowsOf(table)[i].id = i /\ RowsOf(table)[i].long = table[i].long
<1> DEFINE row(i) == [id |-> i, long |-> table[i].long, short |-> table[i].short]
<1>1. DOMAIN table = 1 .. Len(table) /\ Len(table) \in Nat
    OBVIOUS
<1>2. ASSUME NEW i \in 1 .. Len(table)
      PROVE  row(i) \in ARow /\ row(i).id = i /\ row(i).long = table[i].long
    <2>1. table[i] \in TableRow
        BY ElementOfSeq
    <2>2. table[i].short \in Text /\ table[i].long \in Text
        BY <2>1 DEF TableRow, Text
    <2>3. i \in Int
        BY <1>1
    <2> QED BY <2>2, <2>3 DEF ARow
<1>3. RowsOf(table) = [i \in 1 .. Len(table) |-> row(i)]
    BY <1>1 DEF RowsOf
<1> HIDE DEF row
<1> QED BY <1>1, <1>2, <1>3

LEMMA PluginNames ==
    /\ \A long \in LongNames : long \in STRING /\ long # ""
    /\ \A kind \in Kind : \A e : OfAPlugin(kind, e) => e.short \in STRING /\ e.long \in LongNames
<1>1. \A p \in Files \cup {BuiltIn} : p \in NamedPlugin
    <2>1. \A i \in 1 .. Len(PluginFiles) : PluginFiles[i] \in NamedPlugin
        BY PluginAssumption, ElementOfSeq
    <2>2. DOMAIN PluginFiles = 1 .. Len(PluginFiles)
        BY PluginAssumption
    <2> QED BY <2>1, <2>2, PluginAssumption DEF Files
<1>2. \A p \in NamedPlugin : p.short \in STRING /\ p.long \in STRING /\ p.long # ""
    BY DEF NamedPlugin
<1> QED BY <1>1, <1>2 DEF OfAPlugin, LongNames

LEMMA InsertedIs ==
    ASSUME TypesIDs, NEW q \in InsertQ
    PROVE  /\ Inserted(q) \in [Kind -> Seq(TableRow)]
           /\ \A kind \in Kind :
                /\ Len(tables[kind]) <= Len(Inserted(q)[kind])
                /\ \A id \in 1 .. Len(tables[kind]) : Inserted(q)[kind][id] = tables[kind][id]
           /\ (\A id \in 1 .. Len(Inserted(q)[q.kind]) : Inserted(q)[q.kind][id].long # q.long)
                => Inserted(q) = tables /\ ShortTaken(q.kind, q.short, q.long)
<1> DEFINE table == tables[q.kind]
           row == [long |-> q.long, short |-> q.short]
<1>1. q.kind \in Kind /\ q.short \in STRING /\ q.long \in LongNames
    BY DEF InsertQ
<1>2. row \in TableRow
    BY <1>1, PluginNames DEF TableRow
<1>3. table \in Seq(TableRow) /\ DOMAIN table = 1 .. Len(table) /\ Len(table) \in Nat
      /\ tables \in [Kind -> Seq(TableRow)]
    BY <1>1 DEF TypesIDs
<1>4. \A kind \in Kind : Len(tables[kind]) <= Len(tables[kind])
    <2>1. \A kind \in Kind : Len(tables[kind]) \in Nat
        BY <1>3
    <2> QED BY <2>1
<1>5. CASE \E i \in DOMAIN table : table[i].long = q.long \/ table[i].short = q.short
    <2>1. Inserted(q) = tables
        BY <1>5 DEF Inserted
    <2>2. (\A id \in 1 .. Len(table) : table[id].long # q.long) => ShortTaken(q.kind, q.short, q.long)
        BY <1>3, <1>5 DEF ShortTaken
    <2> QED BY <1>3, <1>4, <2>1, <2>2
<1>6. CASE ~\E i \in DOMAIN table : table[i].long = q.long \/ table[i].short = q.short
    <2> DEFINE new == Append(table, row)
    <2>1. Inserted(q) = [tables EXCEPT ![q.kind] = new]
        BY <1>6 DEF Inserted
    <2> HIDE DEF table, row
    <2>2. /\ new \in Seq(TableRow) /\ Len(new) = Len(table) + 1 /\ new[Len(table) + 1] = row
          /\ \A i \in 1 .. Len(table) : new[i] = table[i]
        BY <1>2, <1>3, AppendProperties
    <2> HIDE DEF new
    <2>3. Inserted(q)[q.kind] = new /\ \A kind \in Kind : kind # q.kind => Inserted(q)[kind] = tables[kind]
        BY <1>1, <1>3, <2>1
    <2>4. Inserted(q) \in [Kind -> Seq(TableRow)]
        BY <1>1, <1>3, <2>1, <2>2
    <2>5. ASSUME NEW kind \in Kind
          PROVE  /\ Len(tables[kind]) <= Len(Inserted(q)[kind])
                 /\ \A id \in 1 .. Len(tables[kind]) : Inserted(q)[kind][id] = tables[kind][id]
        <3>1. CASE kind = q.kind
            BY <1>3, <2>2, <2>3, <3>1 DEF table
        <3>2. CASE kind # q.kind
            BY <1>4, <2>3, <3>2
        <3> QED BY <3>1, <3>2
    <2>6. Len(new) \in 1 .. Len(new) /\ new[Len(new)].long = q.long
        BY <1>3, <2>2 DEF row
    <2> QED BY <2>3, <2>4, <2>5, <2>6
<1> QED BY <1>5, <1>6

LEMMA InsertAnswered ==
    ASSUME TypesIDs, NEW q \in InsertQ, tables' = Inserted(q),
           NEW rows, rows = RowsFor(q), NEW a, a.query = q, a.rows = rows
    PROVE  rows \in Seq(ARow) /\ AnswerOK(a)'
<1>1. q.do = "insert" /\ q.kind \in Kind /\ q \notin AdminQ
    BY ByKind
<1>2. PICK table : table = Inserted(q)[q.kind]
    OBVIOUS
<1> DEFINE S == {i \in DOMAIN table : table[i].long = q.long}
<1>3. table \in Seq(TableRow) /\ DOMAIN table = 1 .. Len(table) /\ tables'[q.kind] = table
    BY <1>1, <1>2, InsertedIs
<1>4. rows = Chosen(RowsOf(table), S)
    BY <1>1, <1>2 DEF RowsFor
<1>5. \A i \in 1 .. Len(table) : i \in S <=> table[i].long = q.long
    BY <1>3
<1>6. PICK list : list = RowsOf(table)
    OBVIOUS
<1>7. /\ list \in Seq(ARow) /\ Len(list) = Len(table)
      /\ \A i \in 1 .. Len(table) : list[i].id = i /\ list[i].long = table[i].long
    BY <1>3, <1>6, RowsOfIs
<1> HIDE DEF S
<1>8. /\ rows \in Seq(ARow)
      /\ \A m \in 1 .. Len(rows) : \E j \in 1 .. Len(list) : j \in S /\ rows[m] = list[j]
      /\ \A j \in 1 .. Len(list) : j \in S => \E m \in 1 .. Len(rows) : rows[m] = list[j]
    <2>1. rows = Chosen(list, S)
        BY <1>4, <1>6
    <2>2. list \in Seq(ARow)
        BY <1>7
    <2>3. /\ Chosen(list, S) \in Seq(ARow)
          /\ \A m \in 1 .. Len(Chosen(list, S)) : \E j \in 1 .. Len(list) : j \in S /\ Chosen(list, S)[m] = list[j]
          /\ \A j \in 1 .. Len(list) : j \in S => \E m \in 1 .. Len(Chosen(list, S)) : Chosen(list, S)[m] = list[j]
        BY <2>2, ChosenElements
    <2> QED BY <2>1, <2>3
<1>9. ASSUME NEW m \in 1 .. Len(rows)
      PROVE  rows[m].long = q.long /\ IsRow(q.kind, rows[m].id, rows[m].long)'
    <2>1. PICK j \in 1 .. Len(list) : j \in S /\ rows[m] = list[j]
        BY <1>8
    <2>2. j \in 1 .. Len(table) /\ table[j].long = q.long /\ rows[m].id = j /\ rows[m].long = q.long
        BY <1>5, <1>7, <2>1
    <2> QED BY <1>3, <2>2 DEF IsRow
<1>10. ASSUME rows = <<>>
       PROVE  ShortTaken(q.kind, q.short, q.long)'
    <2>1. Len(rows) = 0
        BY <1>10
    <2>2. \A j \in 1 .. Len(table) : table[j].long # q.long
        BY <1>5, <1>7, <1>8, <2>1
    <2>3. Inserted(q) = tables /\ ShortTaken(q.kind, q.short, q.long)
        BY <1>2, <2>2, InsertedIs
    <2> QED BY <2>3 DEF ShortTaken
<1> QED BY <1>1, <1>8, <1>9, <1>10 DEF AnswerOK

LEMMA FetchAnswered ==
    ASSUME TypesIDs, NEW q \in FetchQ, tables' = tables,
           NEW rows, rows = RowsFor(q), NEW a, a.query = q, a.rows = rows
    PROVE  rows \in Seq(ARow) /\ AnswerOK(a)'
<1>1. q.do = "fetch" /\ q.kind \in Kind /\ q \notin AdminQ /\ q \notin InsertQ
    BY ByKind
<1>2. PICK table : table = tables[q.kind]
    OBVIOUS
<1>3. table \in Seq(TableRow)
    BY <1>1, <1>2 DEF TypesIDs
<1>4. rows = RowsOf(table)
    BY <1>1, <1>2 DEF RowsFor
<1>5. /\ rows \in Seq(ARow) /\ Len(rows) = Len(table)
      /\ \A i \in 1 .. Len(table) : rows[i].id = i /\ rows[i].long = table[i].long
    BY <1>3, <1>4, RowsOfIs
<1>6. \A m \in 1 .. Len(rows) : IsRow(q.kind, rows[m].id, rows[m].long)'
    BY <1>2, <1>5 DEF IsRow
<1> QED BY <1>1, <1>5, <1>6 DEF AnswerOK

LEMMA ExecuteKeeps ==
    ASSUME IDInv, Execute
    PROVE  IDInv'
<1>1. TypesIDs /\ queries # <<>> /\ queries \in Seq(AQuery)
    BY DEF IDInv, TypesIDs, Execute
<1>2. PICK q : q = Head(queries)
    OBVIOUS
<1>3. q \in AQuery
    BY <1>1, <1>2, ElementsTaken
<1>4. PICK rows : rows = RowsFor(q)
    OBVIOUS
<1>5. PICK a : a = [query |-> q, ok |-> TRUE, rows |-> rows]
    OBVIOUS
<1>6. a.query = q /\ a.rows = rows
    BY <1>5
<1>7. /\ queries' = Tail(queries) /\ answers' = Append(answers, a) /\ database' = database
      /\ tables' = TablesAfter(q) /\ migrations' = MigrationsAfter(q)
      /\ UNCHANGED <<infos, database, genuine, pluginMoves, failures, forgotten, lost>>
    BY <1>2, <1>4, <1>5 DEF Execute
<1>8. /\ rows \in Seq(ARow) /\ AnswerOK(a)'
      /\ tables' \in [Kind -> Seq(TableRow)] /\ RowsKept
    <2>1. CASE q \in InsertQ
        <3>1. tables' = Inserted(q)
            BY <1>7, <2>1, ByKind DEF TablesAfter
        <3>2. tables' \in [Kind -> Seq(TableRow)] /\ RowsKept
            BY <1>1, <2>1, <3>1, InsertedIs DEF RowsKept
        <3> QED BY <1>1, <1>4, <1>6, <2>1, <3>1, <3>2, InsertAnswered
    <2>2. CASE q \notin InsertQ
        <3>1. q.do # "insert"
            BY <1>3, <2>2, ByKind
        <3>2. tables' = tables
            BY <1>7, <3>1 DEF TablesAfter
        <3>3. tables \in [Kind -> Seq(TableRow)]
            BY <1>1 DEF TypesIDs
        <3>4. RowsKept
            <4>1. \A kind \in Kind : Len(tables[kind]) \in Nat
                BY <3>3
            <4> QED BY <3>2, <4>1 DEF RowsKept
        <3>5. CASE q \in FetchQ
            BY <1>1, <1>4, <1>6, <3>2, <3>3, <3>4, <3>5, FetchAnswered
        <3>6. CASE q \in AdminQ
            <4>1. q.do # "insert" /\ q.do # "fetch" /\ q \notin InsertQ
                BY <2>2, <3>6, ByKind
            <4>2. rows = <<>>
                BY <1>4, <4>1 DEF RowsFor
            <4>3. Len(a.rows) = 0 /\ rows \in Seq(ARow)
                BY <1>6, <4>2
            <4>4. AnswerOK(a)'
                BY <1>6, <4>1, <4>2, <4>3 DEF AnswerOK
            <4> QED BY <3>2, <3>3, <3>4, <4>3, <4>4
        <3> QED BY <1>3, <2>2, <3>5, <3>6, ByKind
    <2> QED BY <2>1, <2>2
<1>9. a \in AnAnswer
    BY <1>3, <1>5, <1>8 DEF AnAnswer
<1>10. /\ queries' \in Seq(AQuery) /\ answers' \in Seq(AnAnswer)
       /\ OneByOne' /\ Asked' = Asked
       /\ ElementsOf(answers)' = ElementsOf(answers) \cup {a}
    BY <1>1, <1>2, <1>6, <1>7, <1>9, AnswerGiven
<1>11. migrations' \in 0 .. LastMigration + 1
    BY <1>1, <1>7, PluginAssumption DEF MigrationsAfter, TypesIDs
<1>12. TypesIDs'
    BY <1>1, <1>7, <1>8, <1>10, <1>11 DEF TypesIDs
<1> QED BY <1>7, <1>8, <1>10, <1>12, AnswerKeeps

(***************************************************************************)
(* Plugins come and go.                                                    *)
(***************************************************************************)
LEMMA RegistryKeeps ==
    ASSUME IDInv, NEW kind \in Kind, NEW new \in Seq(Entry), infos' = [infos EXCEPT ![kind] = new],
           ListOK(kind, new), database = "ready" => AllAsked(kind, new)',
           UNCHANGED <<database, answers, lost, tables, migrations, genuine, failures>>,
           pluginMoves' \in 0 .. MaxPluginMoves,
           forgotten \subseteq forgotten', forgotten' \subseteq Kind \X LongNames,
           queries' = queries \/ (database = "ready" /\ \E q \in InsertQ : queries' = Append(queries, q))
    PROVE  IDInv'
<1>1. /\ TypesIDs /\ queries \in Seq(AQuery) /\ answers \in Seq(AnAnswer)
      /\ infos \in [Kind -> Seq(Entry)] /\ tables \in [Kind -> Seq(TableRow)]
    BY DEF IDInv, TypesIDs
<1>2. infos' \in [Kind -> Seq(Entry)] /\ infos'[kind] = new /\ \A k \in Kind : k # kind => infos'[k] = infos[k]
    BY <1>1
<1>3. /\ queries' \in Seq(AQuery) /\ ElementsOf(queries) \subseteq ElementsOf(queries')
      /\ queries' = queries \/ (database = "ready" /\ \A q \in ElementsOf(queries') : q \in ElementsOf(queries) \/ q \in InsertQ)
    <2>1. CASE queries' = queries
        BY <1>1, <2>1
    <2>2. CASE queries' # queries
        <3>1. PICK q \in InsertQ : queries' = Append(queries, q)
            BY <2>2
        <3>2. q \in AQuery
            BY ByKind
        <3> QED BY <1>1, <2>2, <3>1, <3>2, ElementsAppended
    <2> QED BY <2>1, <2>2
<1>4. TypesIDs'
    BY <1>1, <1>2, <1>3 DEF TypesIDs
<1>5. RowsKept
    <2>1. \A k \in Kind : Len(tables[k]) \in Nat
        BY <1>1
    <2> QED BY <2>1 DEF RowsKept
<1>6. ElementsOf(queries)' = ElementsOf(queries') /\ ElementsOf(answers)' = ElementsOf(answers)
    BY DEF ElementsOf
<1>7. Asked \subseteq Asked'
    BY <1>3, <1>6 DEF Asked
<1>8. OneByOne'
    <2>1. CASE queries' = queries
        BY <1>6, <2>1 DEF IDInv, OneByOne
    <2>2. CASE database = "ready" /\ \A q \in ElementsOf(queries') : q \in ElementsOf(queries) \/ q \in InsertQ
        BY <1>6, <2>2 DEF IDInv, OneByOne
    <2> QED BY <1>3, <2>1, <2>2
<1>9. \A a \in ElementsOf(answers)' : AnswerOK(a)'
    <2>1. SUFFICES ASSUME NEW a \in ElementsOf(answers)
                   PROVE  AnswerOK(a)'
        BY <1>6
    <2>2. AnswerOK(a)
        BY DEF IDInv
    <2>3. a \in AnAnswer
        <3>1. \A i \in 1 .. Len(answers) : answers[i] \in AnAnswer
            BY <1>1, ElementOfSeq
        <3> QED BY <3>1 DEF ElementsOf
    <2> QED BY <1>1, <1>4, <1>5, <2>2, <2>3, AnswerStays
<1>10. ASSUME NEW k \in Kind PROVE ListOK(k, infos[k])'
    <2>1. PICK list : list = infos'[k]
        OBVIOUS
    <2>2. ListOK(k, list)
        BY <1>2, <2>1 DEF IDInv
    <2>3. ListOK(k, list)'
        BY <1>1, <1>4, <1>5, <2>2, ListStays
    <2> QED BY <2>1, <2>3
<1>11. ASSUME NEW k \in Kind, database' = "ready" PROVE AllAsked(k, infos[k])'
    <2>1. CASE k = kind
        BY <1>2, <1>11, <2>1
    <2>2. CASE k # kind
        <3>1. PICK list : list = infos[k]
            OBVIOUS
        <3>2. AllAsked(k, list)
            BY <1>11, <3>1 DEF IDInv
        <3>3. AllAsked(k, list)'
            BY <1>1, <1>4, <1>5, <1>7, <3>2, AskedStays
        <3> QED BY <1>2, <2>2, <3>1, <3>3
    <2> QED BY <2>1, <2>2
<1> QED BY <1>4, <1>8, <1>9, <1>10, <1>11 DEF IDInv

LEMMA FileIs ==
    ASSUME NEW p \in Files
    PROVE  /\ p \in NamedPlugin /\ p.kind \in Kind /\ p.short \in STRING /\ p.long \in LongNames /\ p.long # ""
           /\ OfAPlugin(p.kind, Registered(p))
           /\ \A q \in Files \cup {BuiltIn} : q.kind = p.kind => q = p \/ OwnNames(q, p)
<1>1. PICK i \in 1 .. Len(PluginFiles) : p = PluginFiles[i]
    BY PluginAssumption DEF Files
<1>2. p \in NamedPlugin
    BY <1>1, PluginAssumption, ElementOfSeq
<1>3. p.kind \in Kind /\ p.short \in STRING /\ p.long # "" /\ p.long \in LongNames
    BY <1>2 DEF NamedPlugin, LongNames
<1>4. OfAPlugin(p.kind, Registered(p))
    BY <1>2, RegisteredIs DEF OfAPlugin
<1>5. ASSUME NEW q \in Files \cup {BuiltIn}, q.kind = p.kind, q # p
      PROVE  OwnNames(q, p)
    <2>1. CASE q = BuiltIn
        <3>1. Differ(p, q)
            BY <1>1, <2>1, PluginAssumption
        <3> QED BY <1>5, <3>1 DEF Differ, OwnNames
    <2>2. CASE q \in Files
        <3>1. PICK j \in 1 .. Len(PluginFiles) : q = PluginFiles[j]
            BY <2>2, PluginAssumption DEF Files
        <3>2. Differ(p, q)
            BY <1>1, <1>5, <3>1, PluginAssumption
        <3> QED BY <1>5, <3>2 DEF Differ, OwnNames
    <2> QED BY <2>1, <2>2
<1> QED BY <1>2, <1>3, <1>4, <1>5

\* The first entry that shares a name with a plugin.
LEMMA PlaceIs ==
    ASSUME NEW p \in Files, NEW list \in Seq(Entry), list = infos[p.kind]
    PROVE  /\ PlaceOfPlugin(p) = 0 => \A i \in 1 .. Len(list) : OwnNames(list[i], p)
           /\ PlaceOfPlugin(p) # 0 =>
                /\ PlaceOfPlugin(p) \in 1 .. Len(list)
                /\ ~OwnNames(list[PlaceOfPlugin(p)], p)
                /\ \A i \in 1 .. Len(list) : i < PlaceOfPlugin(p) => OwnNames(list[i], p)
<1> DEFINE S == {i \in DOMAIN list : list[i].short = p.short \/ list[i].long = p.long}
<1>1. DOMAIN list = 1 .. Len(list) /\ Len(list) \in Nat
    OBVIOUS
<1>2. PlaceOfPlugin(p) = FirstOf(S)
    BY DEF PlaceOfPlugin
<1>3. S = {i \in 1 .. Len(list) : ~OwnNames(list[i], p)}
    BY <1>1 DEF OwnNames
<1> HIDE DEF S
<1>4. S \in SUBSET (Nat \ {0})
    BY <1>3
<1>5. PICK k : k = FirstOf(S)
    OBVIOUS
<1>6. (k = 0 <=> S = {}) /\ (S # {} => k \in S /\ \A i \in S : k <= i)
    BY <1>4, <1>5, FirstOfIs
<1>7. k = 0 => \A i \in 1 .. Len(list) : OwnNames(list[i], p)
    BY <1>3, <1>6
<1>8. ASSUME k # 0
      PROVE  k \in 1 .. Len(list) /\ ~OwnNames(list[k], p) /\ \A i \in 1 .. Len(list) : i < k => OwnNames(list[i], p)
    <2>1. k \in S /\ \A i \in S : k <= i
        BY <1>6, <1>8
    <2> QED BY <1>3, <2>1
<1> QED BY <1>2, <1>5, <1>7, <1>8

\* The list of a kind: its types and its entries.
LEMMA ListIs ==
    ASSUME IDInv, NEW kind \in Kind
    PROVE  \E list \in Seq(Entry) : list = infos[kind] /\ ListOK(kind, list) /\ (database = "ready" => AllAsked(kind, list))
<1>1. infos[kind] \in Seq(Entry)
    BY DEF IDInv, TypesIDs
<1> QED BY <1>1 DEF IDInv

LEMMA NewKeeps ==
    ASSUME IDInv, NEW p \in Files, RegisterNew(p), pluginMoves' \in 0 .. MaxPluginMoves,
           UNCHANGED <<database, answers, lost, tables, migrations, genuine, failures>>
    PROVE  IDInv'
<1>1. p \in NamedPlugin /\ p.kind \in Kind /\ p.short \in STRING /\ p.long \in LongNames /\ p.long # ""
    BY FileIs
<1>2. PICK kind \in Kind : kind = p.kind
    BY <1>1
<1>3. PICK list \in Seq(Entry) : list = infos[kind] /\ ListOK(kind, list) /\ (database = "ready" => AllAsked(kind, list))
    BY ListIs
<1>4. PICK e : e = Registered(p)
    OBVIOUS
<1>5. e \in Entry /\ e.databaseID = NoID /\ e.short = p.short /\ e.long = p.long /\ OfAPlugin(kind, e)
    BY <1>1, <1>2, <1>4, RegisteredIs, FileIs
<1>6. PICK new : new = Append(list, e)
    OBVIOUS
<1>7. Len(list) \in Nat /\ new \in Seq(Entry) /\ Len(new) = Len(list) + 1 /\ new[Len(list) + 1] = e
      /\ \A i \in 1 .. Len(list) : new[i] = list[i]
    BY <1>5, <1>6, AppendProperties
<1>8. \A i \in 1 .. Len(list) : OwnNames(list[i], p)
    BY <1>2, <1>3, PlaceIs DEF RegisterNew
<1>9. infos' = [infos EXCEPT ![kind] = new]
    BY <1>2, <1>3, <1>4, <1>6 DEF RegisterNew
<1>10. ListOK(kind, new)
    <2>1. SUFFICES ASSUME NEW i \in 1 .. Len(new) PROVE EntryOK(kind, new, i)
        BY DEF ListOK
    <2>2. CASE i \in 1 .. Len(list)
        <3>1. EntryOK(kind, list, i)
            BY <1>3, <2>2 DEF ListOK
        <3>2. new[i] = list[i] /\ \A j \in 1 .. i - 1 : new[j] = list[j]
            BY <1>7, <2>2
        <3> QED BY <3>1, <3>2 DEF EntryOK
    <2>3. CASE i = Len(list) + 1
        <3>1. new[i] = e /\ \A j \in 1 .. i - 1 : new[j] = list[j] /\ OwnNames(list[j], p)
            BY <1>7, <1>8, <2>3
        <3>2. \A j \in 1 .. i - 1 : OwnNames(new[j], new[i])
            BY <1>5, <3>1 DEF OwnNames
        <3> QED BY <1>1, <1>5, <3>1, <3>2 DEF EntryOK
    <2> QED BY <1>7, <2>2, <2>3
<1>11. Insert(kind, p) \in InsertQ /\ Insert(kind, p) = Insert(kind, e)
    BY <1>1, <1>2, <1>5, QueriesMade DEF Insert
<1>12. queries' = IF database = "ready" THEN Append(queries, Insert(kind, p)) ELSE queries
    BY <1>2 DEF RegisterNew
<1>13. ASSUME database = "ready" PROVE AllAsked(kind, new)'
    <2>1. queries \in Seq(AQuery) /\ Insert(kind, e) \in AQuery
        BY <1>11, ByKind DEF IDInv, TypesIDs
    <2>2. ElementsOf(queries') = ElementsOf(queries) \cup {Insert(kind, e)}
        BY <1>11, <1>12, <1>13, <2>1, ElementsAppended
    <2>3. Asked' = Asked \cup {Insert(kind, e)}
        <3>1. ElementsOf(queries)' = ElementsOf(queries') /\ ElementsOf(answers)' = ElementsOf(answers)
            BY DEF ElementsOf
        <3> QED BY <2>2, <3>1 DEF Asked
    <2>4. ASSUME NEW i \in 1 .. Len(new), new[i].long # "", new[i].databaseID = NoID
          PROVE  Insert(kind, new[i]) \in Asked' \/ LeftWithout(kind, new[i])'
        <3>1. CASE i = Len(list) + 1
            BY <1>7, <2>3, <3>1
        <3>2. CASE i # Len(list) + 1
            <4>1. i \in 1 .. Len(list) /\ new[i] = list[i]
                BY <1>7, <3>2
            <4>2. Insert(kind, list[i]) \in Asked \/ LeftWithout(kind, list[i])
                BY <1>3, <1>13, <2>4, <4>1 DEF AllAsked
            <4>3. UNCHANGED <<tables, lost, forgotten>>
                BY DEF RegisterNew
            <4>4. LeftWithout(kind, list[i]) => LeftWithout(kind, list[i])'
                BY <4>3 DEF LeftWithout
            <4> QED BY <2>3, <4>1, <4>2, <4>4
        <3> QED BY <3>1, <3>2
    <2> QED BY <2>4 DEF AllAsked
<1>14. forgotten' = forgotten /\ forgotten \subseteq Kind \X LongNames
    BY DEF RegisterNew, IDInv, TypesIDs
<1> QED BY <1>7, <1>9, <1>10, <1>11, <1>12, <1>13, <1>14, RegistryKeeps

LEMMA AgainKeeps ==
    ASSUME IDInv, NEW p \in Files, RegisterAgain(p), pluginMoves' \in 0 .. MaxPluginMoves,
           UNCHANGED <<database, answers, lost, tables, migrations, genuine, failures>>
    PROVE  IDInv'
<1>1. p \in NamedPlugin /\ p.kind \in Kind /\ p.short \in STRING /\ p.long \in LongNames /\ p.long # ""
    BY FileIs
<1>2. PICK kind \in Kind : kind = p.kind
    BY <1>1
<1>3. PICK list \in Seq(Entry) : list = infos[kind] /\ ListOK(kind, list) /\ (database = "ready" => AllAsked(kind, list))
    BY ListIs
<1>4. PICK e : e = Registered(p)
    OBVIOUS
<1>5. e \in Entry /\ e.databaseID = NoID /\ e.short = p.short /\ e.long = p.long /\ OfAPlugin(kind, e)
    BY <1>1, <1>2, <1>4, RegisteredIs, FileIs
<1>6. PICK i \in 1 .. Len(list) : i = PlaceOfPlugin(p) /\ ~OwnNames(list[i], p) /\ \A j \in 1 .. Len(list) : j < i => OwnNames(list[j], p)
    BY <1>2, <1>3, PlaceIs DEF RegisterAgain
<1>7. PICK new : new = [list EXCEPT ![i] = e]
    OBVIOUS
<1>8. /\ new \in Seq(Entry) /\ Len(new) = Len(list) /\ Len(list) \in Nat /\ new[i] = e
      /\ \A k \in 1 .. Len(list) : k # i => new[k] = list[k]
    BY <1>5, <1>6, <1>7
<1>9. infos' = [infos EXCEPT ![kind] = new]
    <2>1. infos' = [infos EXCEPT ![kind] = [infos[kind] EXCEPT ![i] = e]]
        BY <1>2, <1>4, <1>6 DEF RegisterAgain
    <2> QED BY <1>3, <1>7, <2>1
<1>10. ASSUME NEW k \in 1 .. Len(list), list[k].long # ""
       PROVE  /\ (list[k].short = p.short /\ list[k].long = p.long) \/ OwnNames(list[k], p)
              /\ OfAPlugin(kind, list[k])
    <2>1. OfAPlugin(kind, list[k])
        BY <1>3, <1>10 DEF ListOK, EntryOK
    <2>2. PICK q \in Files \cup {BuiltIn} : q.kind = kind /\ q.short = list[k].short /\ q.long = list[k].long
        BY <2>1 DEF OfAPlugin
    <2>3. q = p \/ OwnNames(q, p)
        BY <1>2, <2>2, FileIs
    <2> QED BY <2>1, <2>2, <2>3 DEF OwnNames
<1>11. ListOK(kind, new)
    <2>1. SUFFICES ASSUME NEW k \in 1 .. Len(new) PROVE EntryOK(kind, new, k)
        BY DEF ListOK
    <2>2. CASE k = i
        <3>1. \A j \in 1 .. i - 1 : j \in 1 .. Len(list) /\ j < i /\ j # i
            BY <1>8
        <3>2. \A j \in 1 .. i - 1 : OwnNames(new[j], e)
            BY <1>5, <1>6, <1>8, <3>1 DEF OwnNames
        <3> QED BY <1>1, <1>5, <1>8, <2>2, <3>2 DEF EntryOK
    <2>3. CASE k # i
        <3>1. k \in 1 .. Len(list) /\ new[k] = list[k]
            BY <1>8, <2>3
        <3>2. EntryOK(kind, list, k)
            BY <1>3, <3>1 DEF ListOK
        <3>3. ASSUME list[k].long # "", NEW j \in 1 .. k - 1
              PROVE  OwnNames(new[j], list[k])
            <4>1. j \in 1 .. Len(list) /\ OwnNames(list[j], list[k])
                <5>1. OwnNames(list[j], list[k])
                    BY <3>2, <3>3 DEF EntryOK
                <5>2. j \in 1 .. Len(list)
                    BY <1>8, <3>1
                <5> QED BY <5>1, <5>2
            <4>2. CASE j # i
                BY <1>8, <4>1, <4>2
            <4>3. CASE j = i
                <5>1. OwnNames(list[k], p)
                    BY <1>6, <1>10, <3>1, <3>3, <4>1, <4>3 DEF OwnNames
                <5> QED BY <1>5, <1>8, <4>3, <5>1 DEF OwnNames
            <4> QED BY <4>2, <4>3
        <3> QED BY <3>1, <3>2, <3>3 DEF EntryOK
    <2> QED BY <2>2, <2>3
<1>12. /\ forgotten' = IF list[i].databaseID = NoID THEN forgotten ELSE forgotten \cup {<<kind, p.long>>}
       /\ queries' = queries /\ forgotten \subseteq Kind \X LongNames
    BY <1>2, <1>3, <1>6 DEF RegisterAgain, IDInv, TypesIDs
<1>13. forgotten \subseteq forgotten' /\ forgotten' \subseteq Kind \X LongNames
    <2>1. <<kind, p.long>> \in Kind \X LongNames
        BY <1>1
    <2> QED BY <1>12, <2>1
<1>14. Asked' = Asked
    BY <1>12 DEF Asked, ElementsOf
<1>15. ASSUME NEW f, LeftWithout(kind, f) PROVE LeftWithout(kind, f)'
    BY <1>13, <1>15 DEF LeftWithout
<1>16. ASSUME database = "ready" PROVE AllAsked(kind, new)'
    <2>1. ASSUME NEW k \in 1 .. Len(list), list[k].long # "", list[k].databaseID = NoID
          PROVE  Insert(kind, list[k]) \in Asked' \/ LeftWithout(kind, list[k])'
        <3>1. PICK f : f = list[k]
            OBVIOUS
        <3>2. Insert(kind, f) \in Asked \/ LeftWithout(kind, f)
            BY <1>3, <1>16, <2>1, <3>1 DEF AllAsked
        <3>3. LeftWithout(kind, f) => LeftWithout(kind, f)'
            BY <1>15
        <3> QED BY <1>14, <3>1, <3>2, <3>3
    <2>2. Insert(kind, e) \in Asked' \/ LeftWithout(kind, e)'
        <3>1. CASE list[i].databaseID # NoID
            <4>1. <<kind, e.long>> \in forgotten'
                BY <1>5, <1>12, <3>1
            <4> QED BY <4>1 DEF LeftWithout
        <3>2. CASE list[i].databaseID = NoID /\ list[i].long = ""
            <4>1. NamedAfterRow(kind, list[i])
                BY <1>3, <3>2 DEF ListOK, EntryOK
            <4>2. list[i].short = e.short
                BY <1>1, <1>5, <1>6, <3>2 DEF OwnNames
            <4>3. kind = "mode" /\ \E id \in 1 .. Len(tables["mode"]) : tables["mode"][id].long = e.short
                BY <4>1, <4>2 DEF NamedAfterRow
            <4>4. tables' = tables /\ DOMAIN tables["mode"] = 1 .. Len(tables["mode"])
                <5>1. "mode" \in Kind
                    BY DEF Kind
                <5> QED BY <5>1 DEF IDInv, TypesIDs
            <4> QED BY <4>3, <4>4 DEF LeftWithout
        <3>3. CASE list[i].databaseID = NoID /\ list[i].long # ""
            <4>1. list[i].short = e.short /\ list[i].long = e.long
                BY <1>5, <1>6, <1>10, <3>3
            <4>2. Insert(kind, list[i]) = Insert(kind, e)
                BY <4>1 DEF Insert
            <4>3. LeftWithout(kind, list[i])' => LeftWithout(kind, e)'
                BY <4>1 DEF LeftWithout
            <4> QED BY <2>1, <3>3, <4>2, <4>3
        <3> QED BY <3>1, <3>2, <3>3
    <2>3. ASSUME NEW k \in 1 .. Len(new), new[k].long # "", new[k].databaseID = NoID
          PROVE  Insert(kind, new[k]) \in Asked' \/ LeftWithout(kind, new[k])'
        BY <1>8, <2>1, <2>2, <2>3
    <2> QED BY <2>3 DEF AllAsked
<1> QED BY <1>8, <1>9, <1>11, <1>12, <1>13, <1>16, RegistryKeeps

LEMMA UnregisterKeeps ==
    ASSUME IDInv, NEW p, Unregister(p), pluginMoves' \in 0 .. MaxPluginMoves
    PROVE  IDInv'
<1>1. "style" \in Kind
    BY DEF Kind
<1>2. PICK list \in Seq(Entry) : list = infos["style"] /\ ListOK("style", list) /\ (database = "ready" => AllAsked("style", list))
    BY <1>1, ListIs
<1>3. DOMAIN list = 1 .. Len(list) /\ Len(list) \in Nat
    OBVIOUS
<1>4. PICK i \in 1 .. Len(list) : infos' = [infos EXCEPT !["style"][i].loaded = FALSE]
    BY <1>2, <1>3 DEF Unregister
<1>5. list[i] \in [loaded : BOOLEAN, short : Text, long : Text, databaseID : Int]
    BY ElementOfSeq DEF Entry
<1>6. PICK e : e = [list[i] EXCEPT !.loaded = FALSE]
    OBVIOUS
<1>7. e \in Entry /\ e.short = list[i].short /\ e.long = list[i].long /\ e.databaseID = list[i].databaseID /\ ~e.loaded
    BY <1>5, <1>6 DEF Entry
<1>8. PICK new : new = [list EXCEPT ![i] = e]
    OBVIOUS
<1>9. /\ new \in Seq(Entry) /\ Len(new) = Len(list) /\ new[i] = e
      /\ \A k \in 1 .. Len(list) : k # i => new[k] = list[k]
    BY <1>7, <1>8
<1>10. infos' = [infos EXCEPT !["style"] = new]
    BY <1>2, <1>4, <1>6, <1>8
<1>11. \A k \in 1 .. Len(list) : new[k].short = list[k].short /\ new[k].long = list[k].long /\ new[k].databaseID = list[k].databaseID
    BY <1>7, <1>9
<1>12. ListOK("style", new)
    <2>1. SUFFICES ASSUME NEW k \in 1 .. Len(list) PROVE EntryOK("style", new, k)
        BY <1>9 DEF ListOK
    <2>2. EntryOK("style", list, k)
        BY <1>2 DEF ListOK
    <2>3. list[k].long # ""
        BY <2>2 DEF EntryOK, NamedAfterRow
    <2>4. OfAPlugin("style", new[k])
        BY <1>11, <2>2, <2>3 DEF EntryOK, OfAPlugin
    <2>5. \A j \in 1 .. k - 1 : OwnNames(new[j], new[k])
        <3>1. \A j \in 1 .. k - 1 : j \in 1 .. Len(list) /\ OwnNames(list[j], list[k])
            <4>1. \A j \in 1 .. k - 1 : OwnNames(list[j], list[k])
                BY <2>2, <2>3 DEF EntryOK
            <4>2. \A j \in 1 .. k - 1 : j \in 1 .. Len(list)
                BY <1>3
            <4> QED BY <4>1, <4>2
        <3> QED BY <1>11, <3>1 DEF OwnNames
    <2>6. new[k].databaseID # NoID => IsRow("style", new[k].databaseID, new[k].long)
        BY <1>11, <2>2 DEF EntryOK
    <2> QED BY <1>11, <2>3, <2>4, <2>5, <2>6 DEF EntryOK
<1>13. /\ UNCHANGED <<database, queries, answers, forgotten, lost, tables, migrations, genuine, failures>>
       /\ forgotten \subseteq Kind \X LongNames
    BY DEF Unregister, onDisk, IDInv, TypesIDs
<1>14. ASSUME database = "ready" PROVE AllAsked("style", new)'
    <2>1. ASSUME NEW k \in 1 .. Len(list), new[k].long # "", new[k].databaseID = NoID
          PROVE  Insert("style", new[k]) \in Asked' \/ LeftWithout("style", new[k])'
        <3>1. Insert("style", list[k]) \in Asked \/ LeftWithout("style", list[k])
            BY <1>2, <1>11, <1>14, <2>1 DEF AllAsked
        <3>2. Insert("style", new[k]) = Insert("style", list[k]) /\ Asked' = Asked
            BY <1>11, <1>13 DEF Insert, Asked, ElementsOf
        <3>3. LeftWithout("style", list[k]) => LeftWithout("style", new[k])'
            BY <1>11, <1>13 DEF LeftWithout
        <3> QED BY <3>1, <3>2, <3>3
    <2> QED BY <1>9, <2>1 DEF AllAsked
<1> QED BY <1>1, <1>9, <1>10, <1>12, <1>13, <1>14, RegistryKeeps

LEMMA MovesKeep ==
    ASSUME IDInv, MovePlugins
    PROVE  IDInv'
<1>1. pluginMoves' \in 0 .. MaxPluginMoves
    <2>1. pluginMoves \in 0 .. MaxPluginMoves
        BY DEF IDInv, TypesIDs
    <2> QED BY <2>1, PluginAssumption DEF MovePlugins
<1>2. PICK p \in Files : LoadPlugin(p) \/ Unregister(p) \/ UnregisterMode(p)
    BY DEF MovePlugins
<1>3. CASE LoadPlugin(p)
    <2>1. UNCHANGED <<database, answers, lost, tables, migrations, genuine, failures>>
        BY <1>3 DEF LoadPlugin, onDisk
    <2>2. RegisterNew(p) \/ RegisterAgain(p)
        BY <1>3 DEF LoadPlugin
    <2> QED BY <1>1, <2>1, <2>2, NewKeeps, AgainKeeps
<1>4. CASE Unregister(p)
    BY <1>1, <1>4, UnregisterKeeps
<1>5. CASE UnregisterMode(p)
    <2>1. UNCHANGED <<infos, database, queries, answers, forgotten, lost, tables, migrations, genuine, failures>>
        BY <1>5 DEF UnregisterMode, inMemory, onDisk
    <2>2. TypesIDs'
        BY <1>1, <2>1 DEF IDInv, TypesIDs
    <2>3. RowsKept
        <3>1. \A k \in Kind : Len(tables[k]) \in Nat
            BY DEF IDInv, TypesIDs
        <3> QED BY <2>1, <3>1 DEF RowsKept
    <2>4. OneByOne'
        BY <2>1 DEF IDInv, OneByOne, ElementsOf
    <2>5. Asked' = Asked /\ ElementsOf(answers)' = ElementsOf(answers)
        BY <2>1 DEF Asked, ElementsOf
    <2> QED BY <2>1, <2>2, <2>3, <2>4, <2>5, AnswerKeeps
<1> QED BY <1>2, <1>3, <1>4, <1>5

(***************************************************************************)
(* The connection is set up.                                               *)
(***************************************************************************)
\* One of the questions that set it up was answered; no mode was named by the
\* database; one more is asked, or nothing is any more.
SetupHeard ==
    /\ answers # <<>> /\ answers' = Tail(answers)
    /\ Head(answers).query.do \in {"connect", "migrations", "migrate"}

NoneNamed(kind) == \A i \in 1 .. Len(infos[kind]) : infos[kind][i].long # ""

OneMore == queries' = <<>> \/ queries' = queries \/ \E q \in AdminQ : queries' = Append(queries, q)

LEMMA AnswersAre ==
    ASSUME IDInv, answers # <<>>
    PROVE  /\ Head(answers) \in AnAnswer /\ Head(answers) \in ElementsOf(answers) /\ AnswerOK(Head(answers))
           /\ Tail(answers) \in Seq(AnAnswer) /\ Len(Tail(answers)) = Len(answers) - 1 /\ Len(answers) >= 1
           /\ ElementsOf(answers) = {Head(answers)} \cup ElementsOf(Tail(answers))
<1>1. answers \in Seq(AnAnswer)
    BY DEF IDInv, TypesIDs
<1>2. /\ Head(answers) \in AnAnswer /\ Tail(answers) \in Seq(AnAnswer)
      /\ Len(Tail(answers)) = Len(answers) - 1 /\ Len(answers) >= 1
      /\ ElementsOf(answers) = {Head(answers)} \cup ElementsOf(Tail(answers))
    BY <1>1, ElementsTaken
<1> QED BY <1>2 DEF IDInv

LEMMA AdminHeard ==
    ASSUME IDInv, SetupHeard
    PROVE  /\ database # "ready" /\ queries = <<>> /\ answers' = <<>>
           /\ \A kind \in Kind : NoneNamed(kind)
<1>0. answers # <<>> /\ answers' = Tail(answers) /\ Head(answers).query.do \in {"connect", "migrations", "migrate"}
    BY DEF SetupHeard
<1>1. /\ Head(answers) \in AnAnswer /\ Head(answers) \in ElementsOf(answers)
      /\ Tail(answers) \in Seq(AnAnswer) /\ Len(Tail(answers)) = Len(answers) - 1 /\ Len(answers) >= 1
    BY <1>0, AnswersAre
<1>2. Head(answers).query \notin InsertQ \cup FetchQ
    BY <1>0, ByKind
<1>3. database # "ready"
    BY <1>1, <1>2 DEF IDInv, OneByOne
<1>4. Len(queries) + Len(answers) <= 1 /\ queries \in Seq(AQuery) /\ answers \in Seq(AnAnswer)
    BY <1>3 DEF IDInv, OneByOne, TypesIDs
<1>5. Len(queries) \in Nat /\ Len(answers) \in Nat
    BY <1>4
<1>6. Len(queries) = 0 /\ Len(Tail(answers)) = 0
    BY <1>1, <1>4, <1>5
<1>7. queries = <<>> /\ Tail(answers) = <<>>
    BY <1>1, <1>4, <1>6
<1>8. \A kind \in Kind : NoneNamed(kind)
    <2>1. SUFFICES ASSUME NEW kind \in Kind, NEW i \in 1 .. Len(infos[kind])
                   PROVE  infos[kind][i].long # ""
        BY DEF NoneNamed
    <2>2. EntryOK(kind, infos[kind], i)
        BY DEF IDInv, ListOK
    <2> QED BY <1>3, <2>2 DEF EntryOK
<1> QED BY <1>0, <1>3, <1>7, <1>8

\* The registries and the tables stay as they are, and no answer is left.
LEMMA HeardKeeps ==
    ASSUME IDInv, TypesIDs', OneByOne', database # "ready", answers' = <<>>,
           UNCHANGED <<infos, forgotten, lost, tables>>,
           database' = "ready" => \A kind \in Kind : AllAsked(kind, infos[kind])'
    PROVE  IDInv'
<1>1. TypesIDs
    BY DEF IDInv
<1>2. RowsKept
    <2>1. \A kind \in Kind : Len(tables[kind]) \in Nat
        BY <1>1 DEF TypesIDs
    <2> QED BY <2>1 DEF RowsKept
<1>3. \A a \in ElementsOf(answers)' : FALSE
    BY ElementsOfNone DEF ElementsOf
<1>4. ASSUME NEW kind \in Kind PROVE ListOK(kind, infos[kind])'
    <2>1. PICK list : list = infos[kind]
        OBVIOUS
    <2>2. ListOK(kind, list)
        BY <2>1 DEF IDInv
    <2>3. ListOK(kind, list)'
        BY <1>1, <1>2, <2>2, ListStays
    <2> QED BY <2>1, <2>3
<1> QED BY <1>3, <1>4 DEF IDInv

LEMMA ConnectKeeps ==
    ASSUME IDInv, SetupHeard, database' \in Databases \ {"ready"}, OneMore,
           UNCHANGED <<infos, forgotten, lost, tables, migrations, genuine, pluginMoves, failures>>
    PROVE  IDInv'
<1>1. database # "ready" /\ queries = <<>> /\ answers' = <<>>
    BY AdminHeard
<1>2. queries' = <<>> \/ \E q \in AdminQ : queries' = <<q>>
    BY <1>1 DEF OneMore
<1>3. queries' \in Seq(AQuery) /\ Len(queries') <= 1 /\ \A q \in ElementsOf(queries') : q \in AdminQ
    <2>1. CASE queries' = <<>>
        BY <2>1, ElementsOfNone
    <2>2. ASSUME NEW q \in AdminQ, queries' = <<q>>
          PROVE  queries' \in Seq(AQuery) /\ Len(queries') <= 1 /\ \A r \in ElementsOf(queries') : r \in AdminQ
        <3>1. ElementsOf(queries') = {q} /\ q \in AQuery
            BY <2>2, ElementsOfOne, ByKind
        <3> QED BY <2>2, <3>1
    <2> QED BY <1>2, <2>1, <2>2
<1>4. answers' \in Seq(AnAnswer) /\ Len(answers') = 0 /\ \A a \in ElementsOf(answers)' : FALSE
    <2>1. answers' \in Seq(AnAnswer) /\ Len(answers') = 0 /\ ElementsOf(answers') = {}
        BY <1>1, ElementsOfNone
    <2> QED BY <2>1 DEF ElementsOf
<1>5. TypesIDs'
    BY <1>3, <1>4 DEF IDInv, TypesIDs
<1>6. OneByOne'
    <2>1. \A q \in ElementsOf(queries)' : q \in AdminQ
        BY <1>3 DEF ElementsOf
    <2>2. Len(queries') + Len(answers') <= 1
        BY <1>3, <1>4
    <2> QED BY <1>4, <2>1, <2>2 DEF OneByOne
<1> QED BY <1>1, <1>5, <1>6, HeardKeeps

LEMMA SetupIs ==
    ASSUME IDInv, NEW kind \in Kind, NoneNamed(kind)
    PROVE  /\ Setup(kind) \in Seq(InsertQ \cup FetchQ)
           /\ \A i \in 1 .. Len(infos[kind]) :
                infos[kind][i].databaseID = NoID => Insert(kind, infos[kind][i]) \in ElementsOf(Setup(kind))
<1>1. PICK list \in Seq(Entry) : list = infos[kind] /\ ListOK(kind, list)
    BY ListIs
<1> DEFINE S == {i \in DOMAIN list : list[i].databaseID = NoID}
           X == InsertQ \cup FetchQ
<1>2. PICK without : without = WithoutID(kind)
    OBVIOUS
<1>3. without = Chosen(list, S)
    BY <1>1, <1>2 DEF WithoutID
<1>4. \A i \in 1 .. Len(list) : i \in S <=> list[i].databaseID = NoID
    <2>1. DOMAIN list = 1 .. Len(list)
        OBVIOUS
    <2> QED BY <2>1
<1> HIDE DEF S
<1>5. /\ without \in Seq(Entry)
      /\ \A m \in 1 .. Len(without) : \E j \in 1 .. Len(list) : j \in S /\ without[m] = list[j]
      /\ \A j \in 1 .. Len(list) : j \in S => \E m \in 1 .. Len(without) : without[m] = list[j]
    <2>0. list \in Seq(Entry)
        OBVIOUS
    <2>1. /\ Chosen(list, S) \in Seq(Entry)
          /\ \A m \in 1 .. Len(Chosen(list, S)) : \E j \in 1 .. Len(list) : j \in S /\ Chosen(list, S)[m] = list[j]
          /\ \A j \in 1 .. Len(list) : j \in S => \E m \in 1 .. Len(Chosen(list, S)) : Chosen(list, S)[m] = list[j]
        BY <2>0, ChosenElements
    <2> QED BY <1>3, <2>1
<1>6. ASSUME NEW j \in 1 .. Len(list) PROVE Insert(kind, list[j]) \in X
    <2>1. list[j].long # ""
        BY <1>1 DEF NoneNamed
    <2>2. OfAPlugin(kind, list[j])
        BY <1>1, <2>1 DEF ListOK, EntryOK
    <2> QED BY <2>2, PluginNames, QueriesMade
<1>7. PICK asks : asks = [i \in 1 .. Len(without) |-> Insert(kind, without[i])]
    OBVIOUS
<1>8. \A m \in 1 .. Len(without) : Insert(kind, without[m]) \in X
    BY <1>5, <1>6
<1>9. Len(without) \in Nat /\ DOMAIN without = 1 .. Len(without)
    <2>1. without \in Seq(Entry)
        BY <1>5
    <2> QED BY <2>1
<1> HIDE DEF X
<1>10. asks \in Seq(X) /\ Len(asks) = Len(without) /\ \A i \in 1 .. Len(without) : asks[i] = Insert(kind, without[i])
    <2>1. asks \in [1 .. Len(without) -> X]
        BY <1>7, <1>8
    <2>2. asks \in Seq(X)
        BY <1>9, <2>1
    <2>3. DOMAIN asks = 1 .. Len(without)
        BY <1>7
    <2>4. Len(asks) = Len(without)
        BY <1>9, <2>2, <2>3
    <2> QED BY <1>7, <2>2, <2>4
<1>11. Setup(kind) = asks \o <<FetchAll(kind)>>
    BY <1>2, <1>7, <1>9 DEF Setup
<1>12. FetchAll(kind) \in X
    BY QueriesMade DEF X
<1>13. PICK last : last = <<FetchAll(kind)>>
    OBVIOUS
<1>14. last \in Seq(X)
    <2>1. PICK q \in X : q = FetchAll(kind)
        BY <1>12
    <2>2. <<q>> \in Seq(X)
        OBVIOUS
    <2> QED BY <1>13, <2>1, <2>2
<1>15. asks \o last \in Seq(X) /\ ElementsOf(asks) \subseteq ElementsOf(asks \o last)
    <2>1. asks \in Seq(X)
        BY <1>10
    <2>2. asks \o last \in Seq(X) /\ ElementsOf(asks \o last) = ElementsOf(asks) \cup ElementsOf(last)
        BY <1>14, <2>1, ElementsConcatenated
    <2> QED BY <2>2
<1>16. ASSUME NEW i \in 1 .. Len(list), list[i].databaseID = NoID
       PROVE  Insert(kind, list[i]) \in ElementsOf(asks)
    <2>1. PICK m \in 1 .. Len(without) : without[m] = list[i]
        BY <1>4, <1>5, <1>16
    <2> QED BY <1>10, <2>1 DEF ElementsOf
<1> QED BY <1>1, <1>11, <1>13, <1>15, <1>16 DEF X

LEMMA ReadyKeeps ==
    ASSUME IDInv, SetupHeard, OnDatabaseSetup,
           UNCHANGED <<infos, forgotten, lost, tables, migrations, genuine, pluginMoves, failures>>
    PROVE  IDInv'
<1> DEFINE X == InsertQ \cup FetchQ
<1>1. /\ database # "ready" /\ queries = <<>> /\ answers' = <<>>
      /\ \A kind \in Kind : NoneNamed(kind)
    BY AdminHeard
<1>2. "mode" \in Kind /\ "style" \in Kind
    BY DEF Kind
<1>3. PICK forModes : forModes = Setup("mode")
    OBVIOUS
<1>4. PICK forStyles : forStyles = Setup("style")
    OBVIOUS
<1>5. forModes \in Seq(X) /\ forStyles \in Seq(X)
    BY <1>1, <1>2, <1>3, <1>4, SetupIs
<1>6. ASSUME NEW kind \in Kind, NEW i \in 1 .. Len(infos[kind]), infos[kind][i].databaseID = NoID
      PROVE  Insert(kind, infos[kind][i]) \in ElementsOf(forModes) \cup ElementsOf(forStyles)
    <2>1. Insert(kind, infos[kind][i]) \in ElementsOf(Setup(kind))
        BY <1>1, <1>6, SetupIs
    <2> QED BY <1>3, <1>4, <2>1 DEF Kind
<1> HIDE DEF X
<1>7. queries' = forModes \o forStyles
    <2>1. queries' = (queries \o forModes) \o forStyles
        BY <1>3, <1>4 DEF OnDatabaseSetup
    <2>2. <<>> \o forModes = forModes
        BY <1>5
    <2> QED BY <1>1, <2>1, <2>2
<1>8. queries' \in Seq(X) /\ ElementsOf(queries') = ElementsOf(forModes) \cup ElementsOf(forStyles)
    BY <1>5, <1>7, ElementsConcatenated
<1>9. \A q \in ElementsOf(queries') : q \in X
    <2>1. \A i \in 1 .. Len(queries') : queries'[i] \in X
        BY <1>8, ElementOfSeq
    <2> QED BY <2>1 DEF ElementsOf
<1>10. queries' \in Seq(AQuery)
    <2>1. X \subseteq AQuery
        BY ByKind DEF X
    <2> QED BY <1>8, <2>1
<1>11. answers' \in Seq(AnAnswer) /\ \A a \in ElementsOf(answers)' : FALSE
    <2>1. answers' = <<>>
        BY <1>1
    <2>2. answers' \in Seq(AnAnswer) /\ ElementsOf(answers') = {}
        BY <2>1, ElementsOfNone
    <2> QED BY <2>2 DEF ElementsOf
<1>12. database' = "ready" /\ database' \in Databases
    BY DEF OnDatabaseSetup, Databases
<1>13. TypesIDs'
    BY <1>10, <1>11, <1>12 DEF IDInv, TypesIDs
<1>14. ElementsOf(queries)' = ElementsOf(queries')
    BY DEF ElementsOf
<1>15. OneByOne'
    BY <1>9, <1>11, <1>12, <1>14 DEF OneByOne, X
<1>16. ASSUME NEW kind \in Kind PROVE AllAsked(kind, infos[kind])'
    <2>1. ElementsOf(queries') \subseteq Asked'
        BY <1>14 DEF Asked
    <2>2. ASSUME NEW i \in 1 .. Len(infos[kind]), infos[kind][i].databaseID = NoID
          PROVE  Insert(kind, infos[kind][i]) \in Asked'
        BY <1>6, <1>8, <2>1, <2>2
    <2> QED BY <2>2 DEF AllAsked, Insert
<1> QED BY <1>1, <1>13, <1>15, <1>16, HeardKeeps

LEMMA AdminKeeps ==
    ASSUME IDInv, OnDatabaseConnected \/ CheckMigrations \/ OnMigrated
    PROVE  IDInv'
<1>1. UNCHANGED <<infos, forgotten, lost, tables, migrations, genuine, pluginMoves, failures>>
    BY DEF OnDatabaseConnected, CheckMigrations, OnMigrated, onDisk
<1>2. SetupHeard
    BY DEF OnDatabaseConnected, CheckMigrations, OnMigrated, AnswerTo, SetupHeard
<1>3. database # "ready" /\ database \in Databases
    BY <1>2, AdminHeard DEF IDInv, TypesIDs
<1>4. CASE OnDatabaseSetup
    BY <1>1, <1>2, <1>4, ReadyKeeps
<1>5. CASE database' \in Databases \ {"ready"} /\ OneMore
    BY <1>1, <1>2, <1>5, ConnectKeeps
<1>6. CloseDatabase => database' \in Databases \ {"ready"} /\ queries' = <<>>
    BY DEF CloseDatabase, Databases
<1>7. Query("migrations") \in AdminQ /\ Query("migrate") \in AdminQ
    BY QueriesMade
<1>8. CASE OnDatabaseConnected
    BY <1>5, <1>6, <1>7, <1>8 DEF OnDatabaseConnected, OneMore, Databases
<1>9. CASE CheckMigrations
    BY <1>3, <1>4, <1>5, <1>6, <1>7, <1>9 DEF CheckMigrations, OneMore
<1>10. CASE OnMigrated
    BY <1>4, <1>5, <1>6, <1>10 DEF OnMigrated, OneMore
<1> QED BY <1>8, <1>9, <1>10

(***************************************************************************)
(* IDs arrive.                                                             *)
(***************************************************************************)
LEMMA UpdatedIsOK ==
    ASSUME IDInv, database = "ready", NEW kind \in Kind, NEW list \in Seq(Entry), ListOK(kind, list),
           NEW new \in Refined(kind, list)
    PROVE  ListOK(kind, new)
<1>1. /\ new \in Seq(Entry) /\ Len(new) >= Len(list)
      /\ \A i \in 1 .. Len(list) :
           /\ SameNames(new[i], list[i])
           /\ new[i].databaseID = list[i].databaseID \/ IsRow(kind, new[i].databaseID, new[i].long)
      /\ \A i \in 1 .. Len(new) : i > Len(list) => NamedAfterRow(kind, new[i])
    BY DEF Refined
<1>2. Len(list) \in Nat /\ Len(new) \in Nat
    <2>1. list \in Seq(Entry) /\ new \in Seq(Entry)
        BY <1>1
    <2> QED BY <2>1
<1>3. SUFFICES ASSUME NEW i \in 1 .. Len(new) PROVE EntryOK(kind, new, i)
    BY DEF ListOK
<1>4. CASE i \in 1 .. Len(list)
    <2>1. EntryOK(kind, list, i)
        BY <1>4 DEF ListOK
    <2>2. new[i].long = list[i].long /\ new[i].short = list[i].short /\ new[i].loaded = list[i].loaded
        BY <1>1, <1>4 DEF SameNames
    <2>3. new[i].databaseID # NoID => IsRow(kind, new[i].databaseID, new[i].long)
        BY <1>1, <1>4, <2>1, <2>2 DEF EntryOK
    <2>4. ASSUME new[i].long # ""
          PROVE  OfAPlugin(kind, new[i]) /\ \A j \in 1 .. i - 1 : OwnNames(new[j], new[i])
        <3>1. OfAPlugin(kind, list[i]) /\ \A j \in 1 .. i - 1 : OwnNames(list[j], list[i])
            BY <2>1, <2>2, <2>4 DEF EntryOK
        <3>2. \A j \in 1 .. i - 1 : j \in 1 .. Len(list)
            BY <1>2, <1>4
        <3>3. \A j \in 1 .. i - 1 : new[j].short = list[j].short /\ new[j].long = list[j].long
            BY <1>1, <3>2 DEF SameNames
        <3> QED BY <2>2, <3>1, <3>3 DEF OwnNames, OfAPlugin
    <2>5. ASSUME new[i].long = ""
          PROVE  NamedAfterRow(kind, new[i])
        <3>1. NamedAfterRow(kind, list[i])
            BY <2>1, <2>2, <2>5 DEF EntryOK
        <3>2. new[i].databaseID = NoID
            <4>1. ~IsRow(kind, new[i].databaseID, new[i].long)
                BY <2>5, RowIsNamed DEF IDInv, TypesIDs
            <4> QED BY <1>1, <1>4, <3>1, <4>1 DEF NamedAfterRow
        <3> QED BY <2>2, <3>1, <3>2 DEF NamedAfterRow
    <2> QED BY <2>3, <2>4, <2>5 DEF EntryOK
<1>5. CASE i \notin 1 .. Len(list)
    <2>1. i > Len(list)
        BY <1>2, <1>5
    <2>2. NamedAfterRow(kind, new[i])
        BY <1>1, <2>1
    <2> QED BY <2>2 DEF EntryOK, NamedAfterRow
<1> QED BY <1>4, <1>5

\* The answer that is heard, and what it brings.
IDsHeard(a) ==
    /\ answers # <<>> /\ a = Head(answers) /\ answers' = Tail(answers)
    /\ a.query.do \in {"insert", "fetch"}
    /\ infos' = [infos EXCEPT ![a.query.kind] = Updated(a.query.kind, infos[a.query.kind], a.rows)]
    /\ lost' = IF a.query.do = "insert" /\ ~a.ok THEN lost \cup {<<a.query.kind, a.query.long>>} ELSE lost
    /\ UNCHANGED <<database, queries, forgotten, tables, migrations, genuine, pluginMoves, failures>>

LEMMA QueryHeard ==
    ASSUME IDInv, NEW a, IDsHeard(a)
    PROVE  /\ a \in AnAnswer /\ AnswerOK(a) /\ a.query \in InsertQ \cup FetchQ /\ a.query.kind \in Kind /\ database = "ready"
           /\ answers' \in Seq(AnAnswer) /\ ElementsOf(answers)' \subseteq ElementsOf(answers)
           /\ Asked = {a.query} \cup Asked'
<1>1. answers # <<>> /\ a = Head(answers) /\ answers' = Tail(answers) /\ queries' = queries
    BY DEF IDsHeard
<1>2. /\ a \in AnAnswer /\ a \in ElementsOf(answers) /\ AnswerOK(a)
      /\ answers' \in Seq(AnAnswer) /\ ElementsOf(answers) = {a} \cup ElementsOf(answers')
    BY <1>1, AnswersAre
<1>3. a.query \in AQuery /\ a.query.do \in {"insert", "fetch"}
    BY <1>2 DEF AnAnswer, IDsHeard
<1>4. a.query \notin AdminQ
    BY <1>3, ByKind
<1>5. database = "ready" /\ a.query \in InsertQ \cup FetchQ /\ a.query.kind \in Kind
    BY <1>2, <1>3, <1>4, ByKind DEF IDInv, OneByOne
<1>6. ElementsOf(answers)' = ElementsOf(answers') /\ ElementsOf(queries)' = ElementsOf(queries)
    BY <1>1 DEF ElementsOf
<1>7. {b.query : b \in ElementsOf(answers)} = {a.query} \cup {b.query : b \in ElementsOf(answers')}
    BY <1>2
<1>8. Asked = {a.query} \cup Asked'
    BY <1>6, <1>7 DEF Asked
<1> QED BY <1>2, <1>5, <1>6, <1>8

LEMMA IDsKeep ==
    ASSUME IDInv, OnIDs
    PROVE  IDInv'
<1>1. PICK a : a = Head(answers)
    OBVIOUS
<1>2. IDsHeard(a)
    BY <1>1 DEF OnIDs, AnswerTo, AnsweredOK, IDsHeard, onDisk
<1>3. /\ a \in AnAnswer /\ AnswerOK(a) /\ a.query \in InsertQ \cup FetchQ /\ a.query.kind \in Kind /\ database = "ready"
      /\ answers' \in Seq(AnAnswer) /\ ElementsOf(answers)' \subseteq ElementsOf(answers)
      /\ Asked = {a.query} \cup Asked'
    BY <1>2, QueryHeard
<1>4. PICK kind \in Kind : kind = a.query.kind
    BY <1>3
<1>5. PICK rows : rows = a.rows
    OBVIOUS
<1>6. rows \in Seq(ARow)
    BY <1>3, <1>5 DEF AnAnswer
<1>7. PICK list \in Seq(Entry) : list = infos[kind] /\ ListOK(kind, list) /\ (database = "ready" => AllAsked(kind, list))
    BY ListIs
<1>8. PICK new : new = Updated(kind, list, rows)
    OBVIOUS
<1>9. TypesIDs
    BY DEF IDInv
<1>10. /\ new \in Refined(kind, list)
       /\ \A i \in 1 .. Len(list) :
            (\E m \in 1 .. Len(rows) : rows[m].long = list[i].long) /\ (\A j \in 1 .. i - 1 : list[j].long # list[i].long)
              => new[i].databaseID # NoID
    <2>1. tables \in [Kind -> Seq(TableRow)]
        BY <1>9 DEF TypesIDs
    <2>2. \A m \in 1 .. Len(rows) : IsRow(kind, rows[m].id, rows[m].long)
        BY <1>3, <1>4, <1>5 DEF AnswerOK
    <2>3. list \in Seq(Entry)
        OBVIOUS
    <2> QED BY <1>6, <1>8, <2>1, <2>2, <2>3, UpdatedIs
<1>11. ListOK(kind, new)
    BY <1>3, <1>7, <1>10, UpdatedIsOK
<1>12. new \in Seq(Entry)
    BY <1>10 DEF Refined
<1>13. /\ infos' = [infos EXCEPT ![kind] = new]
       /\ UNCHANGED <<database, queries, forgotten, tables, migrations, genuine, pluginMoves, failures>>
       /\ lost' = IF a.query.do = "insert" /\ ~a.ok THEN lost \cup {<<a.query.kind, a.query.long>>} ELSE lost
    BY <1>2, <1>4, <1>5, <1>7, <1>8 DEF IDsHeard
<1>14. /\ infos' \in [Kind -> Seq(Entry)] /\ infos'[kind] = new
       /\ \A k \in Kind : k # kind => infos'[k] = infos[k]
    BY <1>9, <1>12, <1>13 DEF TypesIDs
<1>15. lost \subseteq lost' /\ lost' \subseteq Kind \X LongNames
    <2>1. a.query.do = "insert" => <<a.query.kind, a.query.long>> \in Kind \X LongNames
        BY <1>3, ByKind
    <2>2. lost \subseteq Kind \X LongNames
        BY <1>9 DEF TypesIDs
    <2> QED BY <1>13, <2>1, <2>2
<1>16. TypesIDs'
    BY <1>3, <1>9, <1>13, <1>14, <1>15 DEF TypesIDs
<1>17. RowsKept
    <2>1. \A k \in Kind : Len(tables[k]) \in Nat
        BY <1>9 DEF TypesIDs
    <2> QED BY <1>13, <2>1 DEF RowsKept
<1>18. OneByOne'
    <2>1. ElementsOf(queries)' = ElementsOf(queries)
        BY <1>13 DEF ElementsOf
    <2> QED BY <1>3, <1>13, <2>1 DEF IDInv, OneByOne
<1>19. ASSUME NEW b \in ElementsOf(answers)' PROVE AnswerOK(b)'
    <2>1. b \in AnAnswer /\ AnswerOK(b)
        <3>1. \A i \in 1 .. Len(answers) : answers[i] \in AnAnswer
            BY <1>9, ElementOfSeq DEF TypesIDs
        <3> QED BY <1>3, <3>1 DEF IDInv, ElementsOf
    <2> QED BY <1>9, <1>16, <1>17, <2>1, AnswerStays
<1>20. ASSUME NEW k \in Kind PROVE ListOK(k, infos[k])'
    <2>1. PICK l : l = infos'[k]
        OBVIOUS
    <2>2. ListOK(k, l)
        <3>1. CASE k = kind
            BY <1>11, <1>14, <2>1, <3>1
        <3>2. CASE k # kind
            BY <1>14, <2>1, <3>2 DEF IDInv
        <3> QED BY <3>1, <3>2
    <2>3. ListOK(k, l)'
        BY <1>9, <1>13, <1>16, <1>17, <2>2, ListStays
    <2> QED BY <2>1, <2>3
\* Who has still no ID after the answer.
<1>21. ASSUME NEW k \in Kind, NEW e, NEW f, SameNames(f, e), e.databaseID = NoID,
              Insert(k, e) \in Asked \/ LeftWithout(k, e),
              ~(k = kind /\ e.long = a.query.long /\ a.query \in InsertQ /\ rows # <<>>)
       PROVE  Insert(k, f) \in Asked' \/ LeftWithout(k, f)'
    <2>1. f.short = e.short /\ f.long = e.long
        BY <1>21 DEF SameNames
    <2>2. Insert(k, f) = Insert(k, e)
        BY <2>1 DEF Insert
    <2>3. CASE LeftWithout(k, e)
        BY <1>9, <1>13, <1>15, <1>16, <1>17, <2>1, <2>3, LeftStays
    <2>4. CASE Insert(k, e) = a.query
        <3>1. /\ Insert(k, e).do = "insert" /\ Insert(k, e).kind = k
              /\ Insert(k, e).short = e.short /\ Insert(k, e).long = e.long
            BY DEF Insert
        <3>2. a.query.do = "insert" /\ a.query.kind = k /\ a.query.short = e.short /\ a.query.long = e.long
            BY <2>4, <3>1
        <3>3. a.query \in InsertQ
            BY <1>3, <3>2, ByKind
        <3>4. CASE ~a.ok
            <4>1. <<k, f.long>> \in lost'
                BY <1>13, <2>1, <3>2, <3>4
            <4> QED BY <4>1 DEF LeftWithout
        <3>5. CASE a.ok
            <4>1. rows = <<>>
                BY <1>4, <1>21, <3>2, <3>3
            <4>2. ShortTaken(k, f.short, f.long)
                BY <1>3, <1>5, <2>1, <3>2, <3>3, <3>5, <4>1 DEF AnswerOK
            <4>3. tables' = tables /\ DOMAIN tables[k] = 1 .. Len(tables[k])
                BY <1>9, <1>13 DEF TypesIDs
            <4> QED BY <4>2, <4>3 DEF ShortTaken, LeftWithout
        <3> QED BY <3>4, <3>5
    <2> QED BY <1>3, <1>21, <2>2, <2>3, <2>4
<1>22. ASSUME NEW k \in Kind PROVE AllAsked(k, infos[k])'
    <2>1. CASE k # kind
        <3>1. PICK l : l = infos[k]
            OBVIOUS
        <3>2. AllAsked(k, l)
            BY <1>3, <3>1 DEF IDInv
        <3>3. ASSUME NEW i \in 1 .. Len(l), l[i].long # "", l[i].databaseID = NoID
              PROVE  Insert(k, l[i]) \in Asked' \/ LeftWithout(k, l[i])'
            <4>1. Insert(k, l[i]) \in Asked \/ LeftWithout(k, l[i])
                BY <3>2, <3>3 DEF AllAsked
            <4>2. SameNames(l[i], l[i])
                BY DEF SameNames
            <4> QED BY <1>21, <2>1, <3>3, <4>1, <4>2
        <3>4. AllAsked(k, l)'
            BY <3>3 DEF AllAsked
        <3> QED BY <1>14, <2>1, <3>1, <3>4
    <2>2. CASE k = kind
        <3>1. /\ Len(new) >= Len(list) /\ Len(list) \in Nat /\ Len(new) \in Nat
              /\ \A i \in 1 .. Len(list) :
                   /\ SameNames(new[i], list[i])
                   /\ new[i].databaseID = list[i].databaseID \/ IsRow(kind, new[i].databaseID, new[i].long)
              /\ \A i \in 1 .. Len(new) : i > Len(list) => NamedAfterRow(kind, new[i])
            <4>1. Len(new) >= Len(list)
                BY <1>10 DEF Refined
            <4>2. Len(list) \in Nat /\ Len(new) \in Nat
                BY <1>12
            <4> QED BY <1>10, <4>1, <4>2 DEF Refined
        <3>2. ASSUME NEW i \in 1 .. Len(new), new[i].long # "", new[i].databaseID = NoID
              PROVE  Insert(kind, new[i]) \in Asked' \/ LeftWithout(kind, new[i])'
            <4>1. i \in 1 .. Len(list)
                <5>1. ~(i > Len(list))
                    BY <3>1, <3>2 DEF NamedAfterRow
                <5> QED BY <3>1, <5>1
            <4>2. SameNames(new[i], list[i]) /\ list[i].long # ""
                BY <3>1, <3>2, <4>1 DEF SameNames
            <4>3. list[i].databaseID = NoID
                <5>1. ~IsRow(kind, new[i].databaseID, new[i].long)
                    BY <1>9, <3>2, RowIsNamed DEF TypesIDs
                <5> QED BY <3>1, <3>2, <4>1, <5>1
            <4>4. Insert(kind, list[i]) \in Asked \/ LeftWithout(kind, list[i])
                BY <1>3, <1>7, <4>1, <4>2, <4>3 DEF AllAsked
            <4>5. ASSUME list[i].long = a.query.long, a.query \in InsertQ, rows # <<>>
                  PROVE  FALSE
                <5>1. 1 \in 1 .. Len(rows)
                    BY <1>6, <4>5
                <5>2. rows[1].long = a.query.long
                    BY <1>3, <1>5, <4>5, <5>1 DEF AnswerOK
                <5>3. \A j \in 1 .. i - 1 : list[j].long # list[i].long
                    BY <1>7, <4>1, <4>2 DEF ListOK, EntryOK, OwnNames
                <5> QED BY <1>10, <3>2, <4>1, <4>5, <5>1, <5>2, <5>3
            <4> QED BY <1>21, <4>2, <4>3, <4>4, <4>5
        <3>3. AllAsked(kind, new)'
            BY <3>2 DEF AllAsked
        <3> QED BY <1>14, <2>2, <3>3
    <2> QED BY <2>1, <2>2
<1> QED BY <1>16, <1>18, <1>19, <1>20, <1>22 DEF IDInv

(***************************************************************************)
(* The theorems.                                                           *)
(***************************************************************************)
LEMMA StutterKeepsIDs ==
    ASSUME IDInv, UNCHANGED idVars
    PROVE  IDInv'
<1>1. UNCHANGED <<infos, database, queries, answers, forgotten, lost, tables, migrations, genuine, pluginMoves, failures>>
    BY DEF idVars, inMemory, onDisk
<1>2. TypesIDs'
    BY <1>1 DEF IDInv, TypesIDs
<1>3. RowsKept
    <2>1. \A k \in Kind : Len(tables[k]) \in Nat
        BY DEF IDInv, TypesIDs
    <2> QED BY <1>1, <2>1 DEF RowsKept
<1>4. OneByOne' /\ Asked' = Asked /\ ElementsOf(answers)' = ElementsOf(answers)
    BY <1>1 DEF IDInv, OneByOne, Asked, ElementsOf
<1> QED BY <1>1, <1>2, <1>3, <1>4, AnswerKeeps

LEMMA IDInvAlways ==
    SpecIDs => []IDInv
<1>1. IDInv /\ [NextIDs]_idVars => IDInv'
    BY LoadedAgain, MovesKeep, ExecuteKeeps, FailKeeps, AdminKeeps, IDsKeep, StutterKeepsIDs DEF NextIDs
<1> QED BY <1>1, StartIDs, PTL DEF SpecIDs

\* The types of the registries, the connection and the tables.
THEOREM IDsTyped ==
    SpecIDs => []TypeOKIDs
<1>1. IDInv => TypeOKIDs
    <2> SUFFICES ASSUME IDInv PROVE TypeOKIDs
        OBVIOUS
    <2>1. ASSUME NEW kind \in Kind, NEW i \in DOMAIN infos[kind]
          PROVE  infos[kind][i].loaded \in BOOLEAN /\ infos[kind][i].databaseID \in {NoID} \cup DOMAIN tables[kind]
        <3>1. PICK list \in Seq(Entry) : list = infos[kind] /\ ListOK(kind, list)
            BY ListIs
        <3>2. DOMAIN list = 1 .. Len(list)
            OBVIOUS
        <3>3. i \in 1 .. Len(list)
            BY <2>1, <3>1, <3>2
        <3>4. list[i] \in Entry
            BY <3>3, ElementOfSeq
        <3>5. list[i].loaded \in BOOLEAN
            BY <3>4 DEF Entry
        <3>6. DOMAIN tables[kind] = 1 .. Len(tables[kind])
            BY DEF IDInv, TypesIDs
        <3>7. list[i].databaseID # NoID => list[i].databaseID \in DOMAIN tables[kind]
            BY <3>1, <3>3, <3>6 DEF ListOK, EntryOK, IsRow
        <3> QED BY <3>1, <3>5, <3>7
    <2> QED BY <2>1 DEF TypeOKIDs, IDInv, TypesIDs
<1> QED BY <1>1, IDInvAlways, PTL

\* However plugins come and go while the database connects, answers, fails and
\* the server stops: an ID is that of the row with the name, no two entries
\* answer to one name, and when the database has answered everything, whoever is
\* loaded has an ID unless one of the reasons of LeftWithout holds
\* (setup_modes.cpp, setup_styles.cpp, surf_mode_manager.cpp, surf_style_manager.cpp).
THEOREM IDsAreGiven ==
    SpecIDs => []PluginsHaveTheirIDs
<1>1. IDInv => PluginsHaveTheirIDs
    <2> SUFFICES ASSUME IDInv, NEW kind \in Kind, NEW i \in DOMAIN infos[kind]
                 PROVE  /\ IDIsOfItsRow(kind, infos[kind][i])
                        /\ infos[kind][i].loaded => \A j \in DOMAIN infos[kind] : infos[kind][j].long = infos[kind][i].long => j = i
                        /\ database = "ready" /\ Quiet /\ infos[kind][i].loaded /\ infos[kind][i].databaseID = NoID
                             => LeftWithout(kind, infos[kind][i])
        BY DEF PluginsHaveTheirIDs
    <2>1. PICK list \in Seq(Entry) : list = infos[kind] /\ ListOK(kind, list) /\ (database = "ready" => AllAsked(kind, list))
        BY ListIs
    <2>2. DOMAIN list = 1 .. Len(list) /\ Len(list) \in Nat
        OBVIOUS
    <2>3. i \in 1 .. Len(list)
        BY <2>1, <2>2
    <2>4. EntryOK(kind, list, i)
        BY <2>1, <2>3 DEF ListOK
    <2>5. IDIsOfItsRow(kind, list[i])
        BY <2>4 DEF EntryOK, IsRow, IDIsOfItsRow
    <2>6. list[i].loaded => list[i].long # ""
        BY <2>4 DEF EntryOK, NamedAfterRow
    <2>7. ASSUME list[i].loaded, NEW j \in 1 .. Len(list), list[j].long = list[i].long, j # i
          PROVE  FALSE
        <3>1. EntryOK(kind, list, j)
            BY <2>1 DEF ListOK
        <3>2. CASE j < i
            <4>1. j \in 1 .. i - 1
                BY <2>2, <2>3, <3>2
            <4> QED BY <2>4, <2>6, <2>7, <4>1 DEF EntryOK, OwnNames
        <3>3. CASE i < j
            <4>1. i \in 1 .. j - 1
                BY <2>2, <2>3, <3>3
            <4> QED BY <2>6, <2>7, <3>1, <4>1 DEF EntryOK, OwnNames
        <3> QED BY <2>2, <2>3, <2>7, <3>2, <3>3
    <2>8. ASSUME database = "ready", Quiet, list[i].loaded, list[i].databaseID = NoID
          PROVE  LeftWithout(kind, list[i])
        <3>1. queries = <<>> /\ answers = <<>>
            BY <2>8 DEF Quiet
        <3>2. ElementsOf(queries) = {} /\ ElementsOf(answers) = {}
            BY <3>1, ElementsOfNone
        <3>3. Asked = {}
            BY <3>2 DEF Asked
        <3> QED BY <2>1, <2>3, <2>6, <2>8, <3>3 DEF AllAsked
    <2> QED BY <2>1, <2>2, <2>5, <2>7, <2>8
<1> QED BY <1>1, IDInvAlways, PTL
=============================================================================
