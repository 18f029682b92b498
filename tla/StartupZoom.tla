---------------------------- MODULE StartupZoom ----------------------------
(***************************************************************************)
(* wayfire-startup-zoom (startup-zoom.cpp), one instance per output: the   *)
(* first view that maps starts a zoom that every view mapped meanwhile     *)
(* joins; when it has ended, or when nothing mapped within the grace time, *)
(* the instance is DONE and does nothing more.                             *)
(***************************************************************************)
EXTENDS OutputScene

VARIABLE zoom

ZoomNone    == [state |-> "NONE", views |-> {}, grace_timer |-> FALSE]
ZoomDone    == [ZoomNone EXCEPT !.state = "DONE"]
ZoomPending == [ZoomNone EXCEPT !.state = "PENDING", !.grace_timer = TRUE]

\* on_view_mapped(): track_view() and ensure_running()
ZoomTakes(o) == zoom[o].state \in {"PENDING", "RUNNING"}

ZoomMapped(v, o) ==
    IF ZoomTakes(o)
    THEN [zoom EXCEPT ![o].state = "RUNNING", ![o].views = @ \union {v}]
    ELSE zoom

ZoomTaken(v, o) ==
    IF ZoomTakes(o) THEN {Hook("zoom", o), Transformer("zoom", o, v)} ELSE {}

ZoomHolds(o, views) == {Hook("zoom", o)} \union Transformers("zoom", o, views)

finish(o) ==
    /\ zoom' = [zoom EXCEPT ![o] = ZoomDone]
    /\ held' = held \ ZoomHolds(o, zoom[o].views)

ZoomFrame(o) == zoom[o].state = "RUNNING" /\ finish(o)

\* A slip: the grace time ends while nothing has mapped, and nothing happens.
ZoomGraceIgnored(o) ==
    /\ zoom[o].grace_timer
    /\ zoom' = [zoom EXCEPT ![o].grace_timer = FALSE]
    /\ UNCHANGED held

ZoomGrace(o) ==
    /\ zoom[o].grace_timer
    /\ \/ zoom[o].state = "PENDING" /\ finish(o)
       \/ /\ zoom[o].state # "PENDING"
          /\ zoom' = [zoom EXCEPT ![o].grace_timer = FALSE]
          /\ UNCHANGED held

ZoomFini(os)   == [o \in Outputs |-> IF o \in os THEN ZoomNone ELSE zoom[o]]
ZoomHeldOn(os) == UNION {ZoomHolds(o, zoom[o].views) : o \in os}

ZoomDropped(v) == [o \in Outputs |-> [zoom[o] EXCEPT !.views = @ \ {v}]]

ZoomGivesBack(v) ==
    UNION {Transformers("zoom", o, zoom[o].views \intersect {v}) : o \in Outputs}
=============================================================================
