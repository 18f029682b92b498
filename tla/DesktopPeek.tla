---------------------------- MODULE DesktopPeek ----------------------------
(***************************************************************************)
(* wayfire-desktop-peek (desktop-peek.cpp), one instance per output: the   *)
(* windows slide into the corners (OUT) and rest there (PEEKED) until they *)
(* slide back (IN).  `views` are the tracked views.  state "NONE": there   *)
(* is no instance.  A refused activation, and a start without windows,     *)
(* undo themselves and are no steps.                                       *)
(***************************************************************************)
EXTENDS OutputScene

VARIABLE desk

DeskNone == [state |-> "NONE", views |-> {}]
DeskIdle == [state |-> "IDLE", views |-> {}]

DeskHolds(o, views) ==
    {Hook("desktop", o), Activation("desktop", o)} \union Transformers("desktop", o, views)

start_peek(o) ==
    LET views == Visible(o) \intersect Windows
    IN  /\ desk[o].state = "IDLE" /\ views # {}
        /\ desk' = [desk EXCEPT ![o] = [state |-> "OUT", views |-> views]]
        /\ held' = held \union DeskHolds(o, views)

DeskRestore(o) ==
    /\ desk[o].state \in {"OUT", "PEEKED"}
    /\ desk' = [desk EXCEPT ![o].state = "IN"]
    /\ UNCHANGED held

\* toggle, and its halves start and stop; dismiss is stop
DeskToggle(o) == start_peek(o) \/ DeskRestore(o)

\* hard_reset()
DeskReset(o) ==
    /\ desk' = [desk EXCEPT ![o] = DeskIdle]
    /\ held' = held \ DeskHolds(o, desk[o].views)

\* A slip: the animation back leaves its transformers on the windows.
DeskFrameForgets(o) ==
    \/ /\ desk[o].state = "OUT"
       /\ desk' = [desk EXCEPT ![o].state = "PEEKED"]
       /\ UNCHANGED held
    \/ /\ desk[o].state = "IN"
       /\ desk' = [desk EXCEPT ![o] = DeskIdle]
       /\ held' = held \ DeskHolds(o, {})

\* The frame at which the animation no longer runs.
DeskFrame(o) ==
    \/ /\ desk[o].state = "OUT"
       /\ desk' = [desk EXCEPT ![o].state = "PEEKED"]
       /\ UNCHANGED held
    \/ desk[o].state = "IN" /\ DeskReset(o)

DeskCancel(o) == Activation("desktop", o) \in held /\ DeskReset(o)

\* fini() of the instances on the outputs os, and what it gives back
DeskFini(os)   == [o \in Outputs |-> IF o \in os THEN DeskNone ELSE desk[o]]
DeskHeldOn(os) == UNION {DeskHolds(o, desk[o].views) : o \in os}

\* A slip: the last view to go does not end the peek.
DeskDroppedStays(v) ==
    [o \in Outputs |-> [desk[o] EXCEPT !.views = @ \ {v}]]

\* drop_view(): the last view to go ends the peek.
DeskDropped(v) ==
    [o \in Outputs |-> IF desk[o].views = {v} THEN DeskIdle
                       ELSE [desk[o] EXCEPT !.views = @ \ {v}]]

DeskGivesBack(v) ==
    UNION {IF desk[o].views = {v} THEN DeskHolds(o, {v})
           ELSE Transformers("desktop", o, desk[o].views \intersect {v}) : o \in Outputs}
=============================================================================
