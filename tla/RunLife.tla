-------------------------------- MODULE RunLife --------------------------------
(***************************************************************************)
(* What the pipeline of RunPipeline promises: once a run ended, its time is *)
(* saved at most once, the run is announced and its replay kept; it is      *)
(* forgotten only when nothing is left to do, unless the map changes, which *)
(* may lose a time that is due.                                             *)
(***************************************************************************)
CONSTANT Runs

VARIABLES
    phase,          \* run -> "open", "ended", "forgotten", "dropped" with the map
    time,           \* run -> "none" when none is to be saved, "due", "saved"
    announced,      \* the runs that were announced
    kept            \* the runs whose replay was given to the disk

vars == <<phase, time, announced, kept>>

Init ==
    /\ phase = [r \in Runs |-> "open"] /\ time = [r \in Runs |-> "none"]
    /\ announced = {} /\ kept = {}

\* Nothing is announced or kept of the run r that was not before.
Silent(r) == (r \in announced' <=> r \in announced) /\ (r \in kept' <=> r \in kept)

End(r) ==
    /\ phase[r] = "open" /\ phase'[r] = "ended"
    /\ time'[r] \in {"none", "due", "saved"}
    /\ Silent(r)

\* It is the last step of the work that makes the run forgotten.
Work(r) ==
    /\ phase[r] = "ended" /\ phase'[r] \in {"ended", "forgotten"}
    /\ time'[r] = time[r] \/ (time[r] = "due" /\ time'[r] = "saved")
    /\ r \in announced => r \in announced'
    /\ r \in kept => r \in kept'
    /\ phase'[r] = "forgotten" => time'[r] # "due" /\ r \in announced' \cap kept'

Drop(r) ==
    /\ phase[r] = "ended" /\ phase'[r] = "dropped"
    /\ time'[r] = IF time[r] = "due" THEN "none" ELSE time[r]
    /\ Silent(r)

\* Nothing happens to the run, but that a thread, which knows of no map, may
\* keep the replay of one that was dropped.
Rest(r) ==
    /\ phase'[r] = phase[r] /\ time'[r] = time[r]
    /\ r \in announced' <=> r \in announced
    /\ (r \in kept' <=> r \in kept) \/ (phase[r] = "dropped" /\ r \in kept')

\* A frame may move many runs.
Next == \A r \in Runs : End(r) \/ Work(r) \/ Drop(r) \/ Rest(r)

Spec == Init /\ [][Next]_vars
=============================================================================
