----------------------------- MODULE PluginIDs -----------------------------
(***************************************************************************)
(* The registries of modes and styles (surf_mode_manager.cpp,              *)
(* surf_style_manager.cpp) and the IDs the local database gives them       *)
(* (surf/db: setup_database.cpp, migrations.cpp, setup_modes.cpp,          *)
(* setup_styles.cpp).  A run is saved, and a record asked for, under the   *)
(* IDs of its mode and its styles: one without an ID is not saved at all.  *)
(*                                                                         *)
(* The database has a thread of its own that answers in the order it was   *)
(* asked; an answer is heard a frame or more after it was given.  Plugins  *)
(* come and go meanwhile, and the server may stop.  The other queries of   *)
(* the server, which share this connection, are the business of MapSetup   *)
(* and Preferences.                                                        *)
(*                                                                         *)
(* A definition marked "Defect" is not part of the model: it is the next   *)
(* definition with a bug in it, which the properties must tell apart.      *)
(***************************************************************************)
EXTENDS Integers, Lists

CONSTANTS
    BuiltIn,        \* the mode that is no plugin of its own
    PluginFiles,    \* the plugins of modes and styles, in the order of their directories
    TablesBefore,   \* what the tables Modes and Styles may hold at the first start
    LastMigration,  \* how many migrations this version knows
    MaxPluginMoves, \* bound: how often plugins come or go while the server is up
    MaxFailures     \* bound: how many queries fail

Kind == {"mode", "style"}
NamedPlugin == [kind : Kind, short : STRING, long : STRING \ {""}]
TableRow == [short : STRING, long : STRING \ {""}]

Differ(p, q) == p.kind = q.kind => p.short # q.short /\ p.long # q.long

\* RegisterMode and RegisterStyle refuse an empty name, and one that is taken:
\* of two plugins that share a name one would not be there.
ASSUME PluginAssumption ==
    /\ BuiltIn \in NamedPlugin /\ BuiltIn.kind = "mode"
    /\ PluginFiles \in Seq(NamedPlugin)
    /\ \A i, j \in DOMAIN PluginFiles : i # j => Differ(PluginFiles[i], PluginFiles[j])
    /\ \A i \in DOMAIN PluginFiles : Differ(PluginFiles[i], BuiltIn)
    /\ TablesBefore \subseteq [Kind -> Seq(TableRow)]
    /\ LastMigration \in Nat /\ MaxPluginMoves \in Nat /\ MaxFailures \in Nat

VARIABLES
    infos,          \* modeInfos and styleInfos
    database,       \* databaseConnection and localDBConnected
    queries,        \* what the database was asked and has not done
    answers,        \* what it has done and nobody has heard
    tables,         \* the tables Modes and Styles: the ID of a row is its place
    migrations,     \* how many migrations the table Migrations lists
    genuine,        \* each of them is the one this version knows by that number
    pluginMoves, failures,
    forgotten,      \* history: whose ID was dropped when their plugin came back
    lost            \* history: whose own query failed

inMemory == <<infos, database, queries, answers, forgotten, lost>>
onDisk   == <<tables, migrations, genuine>>
idVars   == <<inMemory, onDisk, pluginMoves, failures>>

Files == {PluginFiles[i] : i \in DOMAIN PluginFiles}

NoID == -1
Databases == {"none", "connecting", "open", "ready", "closed"}

\* What is registered of a plugin: RegisterMode and RegisterStyle write the
\* whole record, the ID with it.
Registered(p) == [loaded |-> TRUE, short |-> p.short, long |-> p.long, databaseID |-> NoID]

\* A mode the database names and nobody has registered: its name goes into the
\* first field of the record, and its ID into none.
NamedByDatabase(name) == [loaded |-> FALSE, short |-> name, long |-> "", databaseID |-> NoID]

Insert(kind, info) == [do |-> "insert", kind |-> kind, short |-> info.short, long |-> info.long]
FetchAll(kind)     == [do |-> "fetch", kind |-> kind]
Query(what)        == [do |-> what]

FilesOf(kind, loaded) ==
    Chosen(PluginFiles, {i \in DOMAIN PluginFiles : PluginFiles[i].kind = kind /\ PluginFiles[i] \in loaded})
RegisteredAll(ps) == [i \in DOMAIN ps |-> Registered(ps[i])]

\* InitModeManager registers the built-in mode, LoadModePlugins and
\* LoadStylePlugins those whose files are there.
ModesLoaded(loaded)  == RegisteredAll(<<BuiltIn>> \o FilesOf("mode", loaded))
StylesLoaded(loaded) == RegisteredAll(FilesOf("style", loaded))

InitIDs ==
    /\ infos = [mode |-> ModesLoaded({}), style |-> StylesLoaded({})]
    /\ database = "none" /\ queries = <<>> /\ answers = <<>>
    /\ forgotten = {} /\ lost = {}
    /\ tables \in TablesBefore
    /\ migrations \in 0 .. LastMigration + 1
    /\ genuine \in BOOLEAN
    /\ migrations = 0 => genuine /\ \A kind \in Kind : tables[kind] = <<>>
    /\ pluginMoves = 0 /\ failures = 0

\* Without a configuration or the plugin that connects there is no database.
SetupDatabase ==
    /\ \/ database' = "connecting" /\ queries' = <<Query("connect")>>
       \/ database' = "none" /\ queries' = <<>>
    /\ answers' = <<>>

\* The server starts, for the first time or after it stopped at any point.
\* What the database has done stays done, what it had only been asked is
\* forgotten.
AllPluginsLoaded ==
    /\ SetupDatabase
    /\ \E loaded \in SUBSET Files :
         infos' = [mode |-> ModesLoaded(loaded), style |-> StylesLoaded(loaded)]
    /\ forgotten' = {} /\ lost' = {}
    /\ pluginMoves' = 0
    /\ UNCHANGED <<onDisk, failures>>

(***************************************************************************)
(* The registries.                                                         *)
(***************************************************************************)
\* The first entry that has either name of a plugin, 0 for none.
PlaceOfPlugin(p) ==
    FirstOf({i \in DOMAIN infos[p.kind] :
               infos[p.kind][i].short = p.short \/ infos[p.kind][i].long = p.long})

\* RegisterMode and RegisterStyle: a new entry asks for its ID; an entry that
\* was there is written anew, and nobody asks.
RegisterNew(p) ==
    /\ PlaceOfPlugin(p) = 0
    /\ infos' = [infos EXCEPT ![p.kind] = Append(@, Registered(p))]
    /\ queries' = IF database = "ready" THEN Append(queries, Insert(p.kind, p)) ELSE queries
    /\ UNCHANGED forgotten

RegisterAgain(p) ==
    LET i == PlaceOfPlugin(p) IN
    /\ i # 0 /\ ~infos[p.kind][i].loaded
    /\ infos' = [infos EXCEPT ![p.kind][i] = Registered(p)]
    /\ forgotten' = IF infos[p.kind][i].databaseID = NoID THEN forgotten
                    ELSE forgotten \cup {<<p.kind, p.long>>}
    /\ UNCHANGED queries

\* A plugin is loaded, or goes on after a pause.
LoadPlugin(p) ==
    /\ RegisterNew(p) \/ RegisterAgain(p)
    /\ UNCHANGED <<database, answers, lost, onDisk, failures>>

\* A plugin of a style is unloaded or paused.
Unregister(p) ==
    /\ p.kind = "style"
    /\ \E i \in DOMAIN infos.style :
         /\ infos.style[i].loaded /\ infos.style[i].long = p.long
         /\ infos' = [infos EXCEPT !.style[i].loaded = FALSE]
    /\ UNCHANGED <<database, queries, answers, forgotten, lost, onDisk, failures>>

\* The plugin of a mode is: the guard assigns where it should compare, and
\* returns always.  The mode stays registered, and cannot come back.
UnregisterMode(p) ==
    /\ p.kind = "mode"
    /\ UNCHANGED <<inMemory, onDisk, failures>>

MovePlugins ==
    /\ pluginMoves < MaxPluginMoves
    /\ \E p \in Files : LoadPlugin(p) \/ Unregister(p) \/ UnregisterMode(p)
    /\ pluginMoves' = pluginMoves + 1

\* A row of the tables gives its ID to the first entry of its name.
PlaceOfRow(list, row) == FirstOf({i \in DOMAIN list : list[i].long = row.long})
WithID(list, row) == [list EXCEPT ![PlaceOfRow(list, row)].databaseID = row.id]

UpdateModeDatabaseID(list, row) ==
    IF PlaceOfRow(list, row) # 0 THEN WithID(list, row)
                                 ELSE Append(list, NamedByDatabase(row.long))

UpdateStyleDatabaseID(list, row) ==
    IF PlaceOfRow(list, row) # 0 THEN WithID(list, row) ELSE list

UpdateDatabaseID(kind, list, row) ==
    IF kind = "mode" THEN UpdateModeDatabaseID(list, row) ELSE UpdateStyleDatabaseID(list, row)

\* The rows of an answer, one by one.
Updated(kind, list, rows) ==
    LET after[i \in 0 .. Len(rows)] ==
            IF i = 0 THEN list ELSE UpdateDatabaseID(kind, after[i - 1], rows[i])
    IN  after[Len(rows)]

(***************************************************************************)
(* The database's thread.  Either it does what it was asked, or it fails   *)
(* and nothing is changed: a transaction is done whole or not at all.      *)
(***************************************************************************)
\* Both names of a row are unique: an insert that repeats one is ignored.
Inserted(q) ==
    IF \E i \in DOMAIN tables[q.kind] :
         tables[q.kind][i].long = q.long \/ tables[q.kind][i].short = q.short
    THEN tables
    ELSE [tables EXCEPT ![q.kind] = Append(@, [long |-> q.long, short |-> q.short])]

TablesAfter(q)     == IF q.do = "insert" THEN Inserted(q) ELSE tables
MigrationsAfter(q) == IF q.do = "migrate" THEN LastMigration ELSE migrations

RowsOf(table) ==
    [i \in DOMAIN table |-> [id |-> i, long |-> table[i].long, short |-> table[i].short]]

\* The rows a query is answered with; the insert is followed by a search for
\* the row of that name.
RowsFor(q) ==
    CASE q.do = "fetch"  -> RowsOf(tables[q.kind])
      [] q.do = "insert" -> LET table == Inserted(q)[q.kind] IN
                            Chosen(RowsOf(table), {i \in DOMAIN table : table[i].long = q.long})
      [] OTHER           -> <<>>

Execute ==
    /\ queries # <<>>
    /\ LET q == Head(queries) IN
       /\ tables' = TablesAfter(q)
       /\ migrations' = MigrationsAfter(q)
       /\ answers' = Append(answers, [query |-> q, ok |-> TRUE, rows |-> RowsFor(q)])
    /\ queries' = Tail(queries)
    /\ UNCHANGED <<infos, database, genuine, pluginMoves, failures, forgotten, lost>>

Fail ==
    /\ queries # <<>> /\ failures < MaxFailures
    /\ answers' = Append(answers, [query |-> Head(queries), ok |-> FALSE, rows |-> <<>>])
    /\ queries' = Tail(queries)
    /\ failures' = failures + 1
    /\ UNCHANGED <<infos, database, onDisk, pluginMoves, forgotten, lost>>

(***************************************************************************)
(* The answers, each heard in a frame.                                     *)
(***************************************************************************)
AnswerTo(what) == answers # <<>> /\ Head(answers).query.do = what /\ answers' = Tail(answers)
AnsweredOK == Head(answers).ok

\* SurfDatabaseServiceEventListener_Modes and _Styles: who has no ID asks for
\* one, then every row is asked for.
WithoutID(kind) == Chosen(infos[kind], {i \in DOMAIN infos[kind] : infos[kind][i].databaseID = NoID})
Setup(kind) ==
    [i \in DOMAIN WithoutID(kind) |-> Insert(kind, WithoutID(kind)[i])] \o <<FetchAll(kind)>>

\* Defect: the listeners are told before the database counts as ready.
OnDatabaseSetupEarly ==
    /\ database' = "ready"
    /\ UNCHANGED queries

OnDatabaseSetup ==
    /\ database' = "ready"
    /\ queries' = queries \o Setup("mode") \o Setup("style")

\* The connection is destroyed, and what waits for it.
CloseDatabase == database' = "closed" /\ queries' = <<>>

OnDatabaseConnected ==
    /\ AnswerTo("connect")
    /\ IF AnsweredOK THEN database' = "open" /\ queries' = Append(queries, Query("migrations"))
                  ELSE CloseDatabase
    /\ UNCHANGED <<infos, forgotten, lost, onDisk, pluginMoves, failures>>

\* A database with more migrations than this version knows, and one that could
\* not be asked, stay as they are; one with other migrations is closed.
CheckMigrations ==
    /\ AnswerTo("migrations")
    /\ \/ /\ ~AnsweredOK \/ migrations > LastMigration
          /\ UNCHANGED <<database, queries>>
       \/ /\ AnsweredOK /\ migrations <= LastMigration /\ ~genuine
          /\ CloseDatabase
       \/ /\ AnsweredOK /\ migrations = LastMigration /\ genuine
          /\ OnDatabaseSetup
       \/ /\ AnsweredOK /\ migrations < LastMigration /\ genuine
          /\ queries' = Append(queries, Query("migrate"))
          /\ UNCHANGED database
    /\ UNCHANGED <<infos, forgotten, lost, onDisk, pluginMoves, failures>>

OnMigrated ==
    /\ AnswerTo("migrate")
    /\ IF AnsweredOK THEN OnDatabaseSetup ELSE CloseDatabase
    /\ UNCHANGED <<infos, forgotten, lost, onDisk, pluginMoves, failures>>

\* The answer to InsertAndUpdateModeIDs, InsertAndUpdateStyleIDs,
\* UpdateModeIDs or UpdateStyleIDs.  A failed one is only logged.
OnIDs ==
    /\ AnswerTo("insert") \/ AnswerTo("fetch")
    /\ LET q == Head(answers).query IN
       /\ infos' = [infos EXCEPT ![q.kind] = Updated(q.kind, @, Head(answers).rows)]
       /\ lost' = IF q.do = "insert" /\ ~AnsweredOK THEN lost \cup {<<q.kind, q.long>>} ELSE lost
    /\ UNCHANGED <<database, queries, forgotten, onDisk, pluginMoves, failures>>

NextIDs ==
    \/ AllPluginsLoaded \/ MovePlugins
    \/ Execute \/ Fail
    \/ OnDatabaseConnected \/ CheckMigrations \/ OnMigrated \/ OnIDs

SpecIDs == InitIDs /\ [][NextIDs]_idVars

LongNames == {p.long : p \in Files \cup {BuiltIn}}

TypeOKIDs ==
    /\ \A kind \in Kind : \A i \in DOMAIN infos[kind] :
         /\ infos[kind][i].loaded \in BOOLEAN
         /\ infos[kind][i].databaseID \in {NoID} \cup DOMAIN tables[kind]
    /\ database \in Databases
    /\ migrations \in 0 .. LastMigration + 1 /\ genuine \in BOOLEAN
    /\ pluginMoves \in 0 .. MaxPluginMoves /\ failures \in 0 .. MaxFailures
    /\ forgotten \subseteq Kind \X LongNames /\ lost \subseteq Kind \X LongNames

(***************************************************************************)
(* The properties.                                                         *)
(***************************************************************************)
Quiet == queries = <<>> /\ answers = <<>>

IDIsOfItsRow(kind, e) ==
    e.databaseID # NoID => tables[kind][e.databaseID].long = e.long

\* Why a mode or style may be left without an ID: its own query failed, its
\* short name belongs to another row, it had an ID and was registered again, or
\* its short name is the name of a mode that the database named: the plugin
\* takes over that entry, and nobody asks.
LeftWithout(kind, e) ==
    \/ <<kind, e.long>> \in lost
    \/ <<kind, e.long>> \in forgotten
    \/ \E i \in DOMAIN tables[kind] :
         tables[kind][i].short = e.short /\ tables[kind][i].long # e.long
    \/ kind = "mode" /\ \E i \in DOMAIN tables.mode : tables.mode[i].long = e.short

\* Whatever the order in which plugins come and go, the database connects, its
\* queries are answered and fail, and the server stops: an ID a mode or style
\* has is that of the row with its name, no two entries answer to one name,
\* and once the database is ready and has answered, whoever is loaded has his
\* ID unless there is a reason (setup_modes.cpp, setup_styles.cpp, submission.cpp:65, 138).
PluginsHaveTheirIDs ==
    \A kind \in Kind : \A i \in DOMAIN infos[kind] :
      LET e == infos[kind][i] IN
      /\ IDIsOfItsRow(kind, e)
      /\ e.loaded => \A j \in DOMAIN infos[kind] : infos[kind][j].long = e.long => j = i
      /\ database = "ready" /\ Quiet /\ e.loaded /\ e.databaseID = NoID => LeftWithout(kind, e)
=============================================================================
