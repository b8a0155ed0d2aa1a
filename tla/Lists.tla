------------------------------- MODULE Lists -------------------------------
(***************************************************************************)
(* The part of a list that a loop keeps, in the order of the list.  The    *)
(* loop is a recursive function from the number of passes to what it has   *)
(* kept: SelectSeq of module Sequences takes an operator as a parameter,   *)
(* and its recursion cannot be unfolded in a proof.                        *)
(***************************************************************************)
EXTENDS Naturals, Sequences

\* The elements at the given places.
Chosen(list, places) ==
    LET kept[i \in 0 .. Len(list)] ==
            IF i = 0 THEN <<>>
            ELSE IF i \in places THEN Append(kept[i - 1], list[i]) ELSE kept[i - 1]
    IN  kept[Len(list)]

\* The first of some places, 0 if there is none.
FirstOf(places) == IF places = {} THEN 0 ELSE CHOOSE i \in places : \A j \in places : i <= j
=============================================================================
