---------------------------- MODULE SessionLock ----------------------------
(***************************************************************************)
(* What lumen-lockscreen promises the session, whatever its windows, PAM   *)
(* threads and timers do: a lock is requested, then granted or refused;    *)
(* while it is held every connected output shows exactly one lock surface, *)
(* and one of those surfaces (if there is any output) carries the password *)
(* card; it ends in one step, after which no surface is left.  Observers   *)
(* on the bus are told of the beginning and the end of each lock, once.    *)
(***************************************************************************)

CONSTANT Monitor        \* the outputs that can be connected

VARIABLES
    phase,              \* "unlocked", "requested" or "locked"
    outputs,            \* the connected outputs
    surfaces,           \* the outputs that show a lock surface
    cards,              \* the outputs whose surface has the password card
    announced           \* what the last bus signal said

vars == <<phase, outputs, surfaces, cards, announced>>

Phase == {"unlocked", "requested", "locked"}

TypeOK ==
    /\ phase \in Phase
    /\ outputs \subseteq Monitor
    /\ surfaces \subseteq Monitor
    /\ cards \subseteq Monitor
    /\ announced \in {"Locked", "Unlocked"}

(* The surfaces S and cards C that may cover the outputs O of a locked     *)
(* session.                                                                *)
Covers(S, C, O) ==
    /\ S = O
    /\ C \subseteq O
    /\ O # {} => \E m \in O : C = {m}

Init ==
    /\ phase = "unlocked"
    /\ outputs \in SUBSET Monitor
    /\ surfaces = {}
    /\ cards = {}
    /\ announced = "Unlocked"

Request ==
    /\ phase = "unlocked"
    /\ phase' = "requested"
    /\ UNCHANGED <<outputs, surfaces, cards, announced>>

Refuse ==
    /\ phase = "requested"
    /\ phase' = "unlocked"
    /\ UNCHANGED <<outputs, surfaces, cards, announced>>

Grant ==
    /\ phase = "requested"
    /\ phase' = "locked"
    /\ Covers(surfaces', cards', outputs)
    /\ announced' = "Locked"
    /\ UNCHANGED outputs

Release ==
    /\ phase = "locked"
    /\ phase' = "unlocked"
    /\ surfaces' = {}
    /\ cards' = {}
    /\ announced' = "Unlocked"
    /\ UNCHANGED outputs

(* An output comes or goes.  While locked, the surfaces follow at once.    *)
Hotplug ==
    /\ outputs' \in SUBSET Monitor
    /\ outputs' # outputs
    /\ IF phase = "locked"
         THEN Covers(surfaces', cards', outputs')
         ELSE UNCHANGED <<surfaces, cards>>
    /\ UNCHANGED <<phase, announced>>

Next == Request \/ Refuse \/ Grant \/ Release \/ Hotplug

Spec == Init /\ [][Next]_vars
=============================================================================
