--------------------------- MODULE RecordQueries ---------------------------
(***************************************************************************)
(* The chat commands that ask for records (surf/timer/queries): surf_pb    *)
(* and surf_spb (kind "pb"), surf_ctop and surf_sr (kind "top").  Each     *)
(* request may look up its course and its player, asks the local database  *)
(* and the API, and is answered when both have replied or given up, or     *)
(* after the timeout, with what there is.  Answers find their request by   *)
(* its uid; they may come late, fail, be illegible, or never come.         *)
(*                                                                         *)
(* A definition marked "Defect" is not part of the model: it is the next   *)
(* definition with a bug in it, which the properties must tell apart.      *)
(***************************************************************************)
EXTENDS Integers, Sequences, FiniteSetsExt

CONSTANTS
    Asks,           \* the commands players give
    MaxRequests,    \* bound: requests made
    Timeout         \* BaseRequest::timeout, in units of the clock

\* A command and what becomes of it in Init: what can be asked, of a database
\* and an API that know the mode and the styles; whether the map is another
\* one, and the player is not here; whether the player is ranked.
Ask == [kind : {"pb", "top"}, local : BOOLEAN, global : BOOLEAN,
        otherMap : BOOLEAN, elsewhere : BOOLEAN, ranked : BOOLEAN]

ASSUME RequestAssumption == Asks \subseteq Ask /\ MaxRequests \in Nat /\ Timeout \in Nat

Uids    == 1 .. MaxRequests
Status  == {"disabled", "enabled", "pending", "received"}
Lookups == {"course", "player"}         \* what must be known first ...
Queries == {"ranked", "rankless", "global"}     \* ... and what is asked then
Sides   == {"local", "global"}
SideOf(query) == IF query = "global" THEN "global" ELSE "local"

Request == [kind : {"pb", "top"}, isValid : BOOLEAN,
            localStatus : Status, globalStatus : Status,
            requestingFirstCourse : BOOLEAN, requestingLocalPlayer : BOOLEAN,
            requestingGlobalPlayer : BOOLEAN, queryLocalRanking : BOOLEAN,
            age : 0 .. Timeout + 1]
Replies == [forced : BOOLEAN, told : SUBSET Sides, had : SUBSET Queries, due : SUBSET Queries]

VARIABLES
    instances,      \* the requests by their uid
    idCount,
    gone,           \* those whose player has left
    calls,          \* calls to the database and the API without an answer
    arrived,        \* history: the calls of requests that are there which succeeded
    answered,       \* history: the requests that were answered
    said            \* history: what the last step answered

vars == <<instances, idCount, gone, calls, arrived, answered, said>>

Live == DOMAIN instances
Call(uid, what) == [uid |-> uid, what |-> what]
Calls == [uid : Uids, what : Lookups \cup Queries]
Update(uid, request) == [instances EXCEPT ![uid] = request]

Init ==
    /\ instances = <<>> /\ idCount = 0 /\ gone = {} /\ calls = {}
    /\ arrived = {} /\ answered = {} /\ said = <<>>

(***************************************************************************)
(* A command.                                                              *)
(***************************************************************************)
\* Init of a request: what has to be looked up before what is asked.
NewRequest(ask) ==
    [kind |-> ask.kind,
     isValid |-> ask.local \/ ask.global,
     localStatus |-> IF ask.local THEN "enabled" ELSE "disabled",
     globalStatus |-> IF ask.global THEN "enabled" ELSE "disabled",
     requestingFirstCourse |-> ask.otherMap,
     requestingLocalPlayer |-> ask.elsewhere /\ ask.local,
     requestingGlobalPlayer |-> FALSE,
     queryLocalRanking |-> ask.ranked,
     age |-> 0]

LookUp(uid, request) ==
    {Call(uid, what) : what \in (IF request.requestingFirstCourse THEN {"course"} ELSE {})
                                    \cup (IF request.requestingLocalPlayer THEN {"player"} ELSE {})}

Enter(request) ==
    /\ idCount < MaxRequests /\ idCount' = idCount + 1
    /\ instances' = [u \in Live \cup {idCount'} |-> IF u = idCount' THEN request ELSE instances[u]]
    /\ said' = <<>> /\ UNCHANGED <<gone, arrived, answered>>

\* The first course of another map is looked up also when the mode turns out
\* to be one the database does not know.  Only surf_pb has a player and styles;
\* surf_spb and surf_sr do not ask the API.
Create(ask) ==
    /\ ask.kind = "top" => ~ask.elsewhere /\ ask.ranked
    /\ Enter(NewRequest(ask))
    /\ calls' = calls \cup LookUp(idCount', NewRequest(ask))

\* Arguments that cannot be parsed, a map without a course, a mode that is
\* gone: the request stays until the next frame.  Its two states are whatever
\* they were, as Init may have returned before it set them; what counts is
\* whether a state happens to be ENABLED.
CreateInvalid(ask) ==
    LET request == [NewRequest(ask) EXCEPT !.isValid = FALSE, !.requestingLocalPlayer = FALSE]
    IN  Enter(request) /\ calls' = calls \cup LookUp(idCount', request)

(***************************************************************************)
(* CheckRequests, once a frame.                                            *)
(***************************************************************************)
MayQueryLocal(r) ==
    /\ ~r.requestingFirstCourse
    /\ r.kind = "pb" => ~r.requestingLocalPlayer /\ ~r.requestingGlobalPlayer

QueryLocal(r, here) ==
    IF ~MayQueryLocal(r) THEN r
    ELSE IF ~here THEN [r EXCEPT !.isValid = @ /\ r.kind # "pb" /\ r.localStatus # "enabled"]
    ELSE IF r.localStatus = "enabled" THEN [r EXCEPT !.localStatus = "pending"]
    ELSE r

MayQueryGlobal(r) ==
    /\ ~r.requestingFirstCourse
    /\ r.kind = "pb" => ~r.requestingLocalPlayer

\* A local query that waits for the API to name the player is given up in the
\* first frame in which the global query is no longer to be sent.
QueryGlobal(r) ==
    IF ~MayQueryGlobal(r) THEN r
    ELSE IF r.globalStatus = "enabled" THEN [r EXCEPT !.globalStatus = "pending"]
    ELSE IF r.kind = "pb" /\ r.requestingGlobalPlayer /\ r.localStatus = "enabled"
    THEN [r EXCEPT !.localStatus = "disabled", !.requestingGlobalPlayer = FALSE]
    ELSE r

Over == {"received", "disabled"}

\* Defect: one of the two is enough.
CompleteEither(r) == r.localStatus = "received" \/ r.globalStatus \in Over

Complete(r) == r.localStatus \in Over /\ r.globalStatus \in Over

\* Defect: the timeout is for those who wait for the API only.
LateGlobal(r) == r.age > Timeout /\ r.globalStatus = "pending"

Late(r) == r.age > Timeout

Removed(r) == ~r.isValid \/ Complete(r) \/ Late(r)

Checked == [u \in Live |-> QueryGlobal(QueryLocal(instances[u], u \notin gone))]

\* The queries a frame sends for a request.
Sent(u, r) ==
    {Call(u, what) : what \in
        (IF instances[u].localStatus = "enabled" /\ r.localStatus = "pending"
         THEN {IF r.queryLocalRanking THEN "ranked" ELSE "rankless"} ELSE {})
        \cup (IF instances[u].globalStatus = "enabled" /\ r.globalStatus = "pending"
              THEN {"global"} ELSE {})}

Of(u, set) == {c.what : c \in {d \in set : d.uid = u}}

Reply(u, r, under) ==
    [forced |-> ~Complete(r),
     told |-> (IF r.localStatus = "received" THEN {"local"} ELSE {})
                  \cup (IF r.globalStatus = "received" THEN {"global"} ELSE {}),
     had |-> Of(u, arrived) \cap Queries, due |-> Of(u, under) \cap Queries]

\* The frame with the requests as its queries leave them.  Reply does nothing
\* for a player who has left.
CheckReplies(checked, removed) ==
    /\ calls' = calls \cup UNION {Sent(u, checked[u]) : u \in Live}
    /\ instances' = [u \in Live \ removed |-> checked[u]]
    /\ arrived' = {c \in arrived : c.uid \notin removed}
    /\ gone' = gone \ removed
    /\ said' = [u \in {v \in removed \ gone : checked[v].isValid} |-> Reply(u, checked[u], calls')]
    /\ answered' = answered \cup DOMAIN said'
    /\ UNCHANGED idCount

CheckRequests ==
    \E checked \in {Checked} : CheckReplies(checked, {u \in Live : Removed(checked[u])})

(***************************************************************************)
(* What comes back.  The callbacks look their request up by its uid and do *)
(* nothing when it is gone.                                                *)
(***************************************************************************)
\* The callbacks of SetupCourse: without a course of that map the database is
\* not asked, and the API is asked for course "1".
CourseAnswer(r, found) ==
    [r EXCEPT !.requestingFirstCourse = FALSE, !.localStatus = IF found THEN @ ELSE "disabled"]

\* The callbacks of SetupPlayer: the API may know a player the database does not.
PlayerAnswer(r, found) ==
    [r EXCEPT !.requestingLocalPlayer = FALSE,
              !.requestingGlobalPlayer = @ \/ (~found /\ r.globalStatus = "enabled"),
              !.localStatus = IF found \/ r.globalStatus = "enabled" THEN @ ELSE "disabled"]

\* The callback of a local query without ranks sets no status.
LocalAnswer(r, query, found) ==
    [r EXCEPT !.localStatus = IF ~found THEN "disabled" ELSE IF query = "ranked" THEN "received" ELSE @]

\* An answer that names the player lets the local query go on.
GlobalAnswer(r, found, player) ==
    LET named == player # "none" /\ r.requestingGlobalPlayer /\ r.localStatus = "enabled" IN
    [r EXCEPT !.globalStatus = IF found THEN "received" ELSE "disabled",
              !.requestingGlobalPlayer = @ /\ ~named,
              !.queryLocalRanking = IF named THEN player = "ranked" ELSE @]

Answered(r, what, found, player) ==
    CASE what = "course"              -> CourseAnswer(r, found)
      [] what = "player"              -> PlayerAnswer(r, found)
      [] what \in {"ranked", "rankless"} -> LocalAnswer(r, what, found)
      [] what = "global"              -> GlobalAnswer(r, found, player)

Answer(call, found, player) ==
    /\ calls' = calls \ {call}
    /\ IF call.uid \in Live
       THEN /\ instances' = Update(call.uid, Answered(instances[call.uid], call.what, found, player))
            /\ arrived' = IF found THEN arrived \cup {call} ELSE arrived
       ELSE UNCHANGED <<instances, arrived>>
    /\ said' = <<>> /\ UNCHANGED <<idCount, gone, answered>>

\* The link is down when the question is sent, or lost with it; or the answer
\* cannot be read.
Lose(call) ==
    /\ call.what = "global" /\ calls' = calls \ {call}
    /\ said' = <<>> /\ UNCHANGED <<instances, idCount, gone, arrived, answered>>

(***************************************************************************)
(* The rest of the world.                                                  *)
(***************************************************************************)
Tick ==
    /\ \E u \in Live : instances[u].age <= Timeout
    /\ instances' = [u \in Live |-> [instances[u] EXCEPT !.age = Min({@ + 1, Timeout + 1})]]
    /\ said' = <<>> /\ UNCHANGED <<idCount, gone, calls, arrived, answered>>

Leave(u) ==
    /\ u \in Live \ gone /\ gone' = gone \cup {u}
    /\ said' = <<>> /\ UNCHANGED <<instances, idCount, calls, arrived, answered>>

Next ==
    \/ \E ask \in Asks : Create(ask) \/ CreateInvalid(ask)
    \/ CheckRequests
    \/ \E call \in calls, found \in BOOLEAN :
           \E player \in IF call.what = "global" THEN {"none", "ranked", "banned"} ELSE {"none"} :
               Answer(call, found, player)
    \/ \E call \in calls : Lose(call)
    \/ Tick
    \/ \E u \in Uids : Leave(u)

\* CheckRequests is called every frame and the clock goes on.  Nothing is owed
\* by the database or the API.
Spec == Init /\ [][Next]_vars /\ WF_vars(CheckRequests) /\ WF_vars(Tick)

(***************************************************************************)
(* Properties.                                                             *)
(***************************************************************************)
\* Every variable has its type.
TypeOK ==
    /\ Live \subseteq 1 .. idCount /\ idCount \in 0 .. MaxRequests
    /\ \A u \in Live : instances[u] \in Request
    /\ gone \subseteq Live /\ calls \subseteq Calls /\ arrived \subseteq Calls
    /\ answered \subseteq Uids /\ \A u \in DOMAIN said : said[u] \in Replies

\* A player is answered once, when the request is over.  Unless the timeout
\* forced it, the answer waited for everything that was asked.  It has all that
\* had arrived by then, but for a local query without ranks, whose success the
\* request never notices (base_request.h:99, personal_best.cpp:293).
AnsweredOnceWithAll ==
    [][\A u \in DOMAIN said' :
           /\ u \notin answered /\ u \notin Live'
           /\ said'[u].forced \/ said'[u].due = {}
           /\ said'[u].told = {SideOf(query) : query \in said'[u].had \ {"rankless"}}]_vars

\* While a lookup of a valid request is under way, no question about a record
\* is, and neither side counts as answered: the two lookups come back in either
\* order (base_request.h:124).  A lookup that failed is over all the same: the
\* API is then asked by name, with SteamID 0 (personal_best.cpp:138).
LookupsComeFirst ==
    \A u \in Live : LET under == Of(u, calls) IN
        under \cap Lookups # {} /\ instances[u].isValid =>
            /\ under \cap Queries = {}
            /\ {instances[u].localStatus, instances[u].globalStatus} \subseteq {"enabled", "disabled"}

\* A player who asks and stays is answered, whatever the database and the API
\* do (base_request.cpp:133).
EveryoneIsAnswered ==
    \A u \in Uids : (u \in Live /\ instances[u].isValid) ~> (u \in answered \cup gone)
=============================================================================
