---------------------------- MODULE CurtainPeek ----------------------------
(***************************************************************************)
(* wayfire-curtain-peek on one output (curtain-peek.cpp).  An open freezes *)
(* the screen into a snapshot, shows the drawer's grid and hides           *)
(* everything else behind the snapshot; the frame hook runs the animation; *)
(* hard_reset undoes it all.  state "NONE": the plugin is not loaded.      *)
(* `desktop` and `widget` say whether the plugin remembers the view.       *)
(* A refused activation and a failed capture change nothing and are no     *)
(* steps.                                                                  *)
(***************************************************************************)
EXTENDS PeekScene

VARIABLE curtain

CurtainUnloaded == [state |-> "NONE", desktop |-> FALSE, widget |-> FALSE]

CurtainNodes == {"curtain snapshot", "curtain backdrop"}

CurtainDesktop == curtain.desktop \/ Visible("grid")
CurtainWidget  == curtain.widget  \/ Visible("widgets")

CurtainKnows(state) ==
    [state |-> state, desktop |-> CurtainDesktop, widget |-> CurtainWidget]

CurtainStartOpen ==
    /\ curtain.state = "IDLE"
    /\ active' = active \union {"curtain"}
    /\ off' = (off \ View("grid", CurtainDesktop))
              \union View("widgets", CurtainWidget) \union Layers
    /\ IF CurtainDesktop THEN Focus("grid") ELSE UNCHANGED <<keys, news>>
    /\ overlays' = overlays \union CurtainNodes
    /\ hooked' = hooked \union {"curtain"}
    /\ curtain' = CurtainKnows("OPENING")
    /\ UNCHANGED <<mapped, wins, listening>>

CurtainClosing ==
    IF curtain.state \in {"OPEN", "OPENING"}
    THEN [curtain EXCEPT !.state = "CLOSING"] ELSE curtain

CurtainStartClose == curtain' = CurtainClosing /\ curtain' # curtain /\ UNCHANGED scene

CurtainToggle == CurtainStartOpen \/ CurtainStartClose

\* hard_reset() of a reveal; what becomes of the two views is the caller's.
CurtainClear(hidden) ==
    /\ overlays' = overlays \ CurtainNodes
    /\ off' = (off \ (Layers \union View("widgets", CurtainWidget)
                             \union View("grid", CurtainDesktop))) \union hidden
    /\ Refocus(wins)
    /\ hooked' = hooked \ {"curtain"}
    /\ active' = active \ {"curtain"}
    /\ UNCHANGED <<mapped, wins, listening>>

CurtainHardReset ==
    /\ CurtainClear(View("grid", CurtainDesktop))
    /\ curtain' = CurtainKnows("IDLE")

\* The frame after which the animation no longer runs.
CurtainFrame ==
    /\ "curtain" \in hooked
    /\ \/ /\ curtain.state = "OPENING"
          /\ curtain' = [curtain EXCEPT !.state = "OPEN"]
          /\ UNCHANGED scene
       \/ curtain.state = "CLOSING" /\ CurtainHardReset

\* Wayfire cancels the active plugins, as it does when the screen is locked.
CurtainCancel == "curtain" \in active /\ CurtainHardReset

CurtainInit ==
    /\ curtain.state = "NONE"
    /\ curtain' = [state |-> "IDLE", desktop |-> Visible("grid"), widget |-> FALSE]
    /\ off' = off \union View("grid", Visible("grid"))
    /\ UNCHANGED <<mapped, overlays, hooked, active, wins, keys, listening, news>>

\* A slip: the layers are not given back when the plugin is unloaded during a reveal.
CurtainFiniForgets ==
    /\ curtain.state # "NONE"
    /\ curtain' = CurtainUnloaded
    /\ off' = off \ (View("grid", CurtainDesktop) \union View("widgets", CurtainWidget))
    /\ UNCHANGED <<mapped, overlays, hooked, active, wins, keys, listening, news>>

CurtainFini ==
    /\ curtain.state # "NONE"
    /\ curtain' = CurtainUnloaded
    /\ \/ curtain.state # "IDLE" /\ CurtainClear({})
       \/ /\ curtain.state = "IDLE"
          /\ off' = off \ (View("grid", CurtainDesktop)
                           \union View("widgets", CurtainWidget))
          /\ UNCHANGED <<mapped, overlays, hooked, active, wins, keys, listening, news>>

\* The grid maps: it is remembered, and hidden (in `off`) if nothing is open.
CurtainOnMapped ==
    IF curtain.state = "NONE" THEN curtain ELSE [curtain EXCEPT !.desktop = TRUE]

CurtainHidesMapped == curtain.state = "IDLE"

\* A slip: a grid that is gone is remembered.
CurtainKeepsUnmapped(view) ==
    IF view = "grid" THEN curtain ELSE [curtain EXCEPT !.widget = FALSE]

CurtainOnUnmapped(view) ==
    IF view = "grid" THEN [curtain EXCEPT !.desktop = FALSE]
    ELSE [curtain EXCEPT !.widget = FALSE]
=============================================================================
