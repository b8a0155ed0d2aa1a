--------------------------- MODULE MCTriggerTouch ---------------------------
(***************************************************************************)
(* One trigger the mapping API does not know, one timer zone, one push     *)
(* trigger.                                                                *)
(***************************************************************************)
EXTENDS TriggerTouch

CONSTANTS p, z, w

MCTriggers == {p, z, w}
MCPlain == {p}
MCTimerZones == {z}
MCPushes == {w}
=============================================================================
