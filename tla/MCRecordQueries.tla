-------------------------- MODULE MCRecordQueries --------------------------
(***************************************************************************)
(* A request that needs both lookups and asks both sides, with and without *)
(* ranks; surf_spb for a player who is here; surf_ctop on another map.     *)
(***************************************************************************)
EXTENDS RecordQueries

Asked(kind, global, otherMap, elsewhere, ranked) ==
    [kind |-> kind, local |-> TRUE, global |-> global, otherMap |-> otherMap,
     elsewhere |-> elsewhere, ranked |-> ranked]

MCAsks == {Asked("pb", TRUE, TRUE, TRUE, TRUE), Asked("pb", TRUE, FALSE, TRUE, FALSE),
           Asked("pb", FALSE, FALSE, FALSE, FALSE),
           Asked("top", TRUE, TRUE, FALSE, TRUE)}
=============================================================================
