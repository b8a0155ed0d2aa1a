---------------------------- MODULE MCPreferences ----------------------------
(***************************************************************************)
(* Instances for TLC.  The API has a set of Ann, the database has a newer  *)
(* one or one with a stamp from the future, which counts for none; what    *)
(* the database has of Bob cannot be read, and the API has nothing.        *)
(***************************************************************************)
EXTENDS Preferences

CONSTANTS Ann, Bob, Hud, AnnOld, AnnNew, BobOld, Future

MCValuesOf == [p \in Players |-> IF p = Ann THEN {AnnOld, AnnNew} ELSE {BobOld}]
All(stamp, v) == [stamp |-> stamp, values |-> [k \in Keys |-> v]]

MCFirstStored == [p \in Players |-> IF p = Ann THEN {All(Future, AnnOld), All(2, AnnOld)} ELSE {Broken}]
MCFirstGlobal == [p \in Players |-> IF p = Ann THEN {All(1, AnnNew)} ELSE {Empty}]
=============================================================================
