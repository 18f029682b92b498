----------------------------- MODULE PanelPush -----------------------------
(***************************************************************************)
(* wayfire-panel-push (panel-push.cpp), one instance per output: every     *)
(* view but the panel slides away from the panel's edge (OUT), stays       *)
(* (PUSHED) and slides back (IN).  Unlike a peek it takes in the views     *)
(* that map meanwhile, and it goes on when the last tracked view is gone.  *)
(***************************************************************************)
EXTENDS OutputScene

VARIABLE push

PushNone == [state |-> "NONE", views |-> {}]
PushIdle == [state |-> "IDLE", views |-> {}]

PushHolds(o, views) ==
    {Hook("push", o), Activation("push", o)} \union Transformers("push", o, views)

\* A slip: the panel is pushed with the rest.
PushTracksAll(views) == views

\* track_view() takes every view that is not excluded
PushTracks(views) == views \ {Panel}

start_push(o) ==
    LET views == PushTracks(Visible(o))
    IN  /\ push[o].state = "IDLE" /\ views # {}
        /\ push' = [push EXCEPT ![o] = [state |-> "OUT", views |-> views]]
        /\ held' = held \union PushHolds(o, views)

PushRestore(o) ==
    /\ push[o].state \in {"OUT", "PUSHED"}
    /\ push' = [push EXCEPT ![o].state = "IN"]
    /\ UNCHANGED held

PushToggle(o) == start_push(o) \/ PushRestore(o)

\* The verbs of the socket; a request that is refused does nothing.  A start
\* may be refused in any state: activate_plugin asks the other plugins.
PushIpcStart(o) == start_push(o) \/ UNCHANGED <<push, held>>

PushIpcStop(o) ==
    \/ PushRestore(o)
    \/ push[o].state \notin {"OUT", "PUSHED"} /\ UNCHANGED <<push, held>>

PushReset(o) ==
    /\ push' = [push EXCEPT ![o] = PushIdle]
    /\ held' = held \ PushHolds(o, push[o].views)

PushFrame(o) ==
    \/ /\ push[o].state = "OUT"
       /\ push' = [push EXCEPT ![o].state = "PUSHED"]
       /\ UNCHANGED held
    \/ push[o].state = "IN" /\ PushReset(o)

PushCancel(o) == Activation("push", o) \in held /\ PushReset(o)

PushFini(os)   == [o \in Outputs |-> IF o \in os THEN PushNone ELSE push[o]]
PushHeldOn(os) == UNION {PushHolds(o, push[o].views) : o \in os}

\* on_view_mapped(): a view that maps during a push is pushed at once.
PushTaken(v, o) ==
    IF push[o].state \in {"OUT", "PUSHED"} THEN PushTracks({v}) ELSE {}

PushMapped(v, o) == [push EXCEPT ![o].views = @ \union PushTaken(v, o)]

\* drop_view()
PushDropped(v) == [o \in Outputs |-> [push[o] EXCEPT !.views = @ \ {v}]]

PushGivesBack(v) ==
    UNION {Transformers("push", o, push[o].views \intersect {v}) : o \in Outputs}
=============================================================================
