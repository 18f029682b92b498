----------------------------- MODULE SlidePeek -----------------------------
(***************************************************************************)
(* wayfire-slide-peek on one output (slide-peek.cpp).  Like the curtain,   *)
(* but the wallpaper stays live (BACKGROUND is disabled for the capture    *)
(* alone) and the grid itself moves, by a transformer that the plugin adds *)
(* to it and remembers in `tr`; it is lost with the grid's view.           *)
(***************************************************************************)
EXTENDS PeekScene

VARIABLE slide

SlideUnloaded ==
    [state |-> "NONE", desktop |-> FALSE, widget |-> FALSE, tr |-> FALSE]

SlideLayers == {"WORKSPACE", "TOP"}

SlideDesktop == slide.desktop \/ Visible("grid")
SlideWidget  == slide.widget  \/ Visible("widgets")

SlideKnows(state, tr) ==
    [state |-> state, desktop |-> SlideDesktop, widget |-> SlideWidget, tr |-> tr]

SlideStartOpen ==
    /\ slide.state = "IDLE"
    /\ active' = active \union {"slide"}
    /\ off' = (off \ (View("grid", SlideDesktop) \union {"BACKGROUND"}))
              \union View("widgets", SlideWidget) \union SlideLayers
    /\ IF SlideDesktop THEN Focus("grid") ELSE UNCHANGED <<keys, news>>
    /\ overlays' = overlays \union {"slide snapshot"}
                            \union View("slide transformer", SlideDesktop)
    /\ hooked' = hooked \union {"slide"}
    /\ slide' = SlideKnows("OPENING", SlideDesktop)
    /\ UNCHANGED <<mapped, wins, listening>>

SlideClosing ==
    IF slide.state \in {"OPEN", "OPENING"}
    THEN [slide EXCEPT !.state = "CLOSING"] ELSE slide

SlideStartClose == slide' = SlideClosing /\ slide' # slide /\ UNCHANGED scene

SlideToggle == SlideStartOpen \/ SlideStartClose

SlideClear(hidden) ==
    /\ overlays' = overlays \ ({"slide snapshot"} \union
                               View("slide transformer", slide.tr /\ slide.desktop))
    /\ off' = (off \ (SlideLayers \union {"BACKGROUND"}
                      \union View("widgets", SlideWidget)
                      \union View("grid", SlideDesktop))) \union hidden
    /\ Refocus(wins)
    /\ hooked' = hooked \ {"slide"}
    /\ active' = active \ {"slide"}
    /\ UNCHANGED <<mapped, wins, listening>>

SlideHardReset ==
    /\ SlideClear(View("grid", SlideDesktop))
    /\ slide' = SlideKnows("IDLE", FALSE)

SlideFrame ==
    /\ "slide" \in hooked
    /\ \/ /\ slide.state = "OPENING"
          /\ slide' = [slide EXCEPT !.state = "OPEN"]
          /\ UNCHANGED scene
       \/ slide.state = "CLOSING" /\ SlideHardReset

SlideCancel == "slide" \in active /\ SlideHardReset

SlideInit ==
    /\ slide.state = "NONE"
    /\ slide' = [SlideUnloaded EXCEPT !.state = "IDLE", !.desktop = Visible("grid")]
    /\ off' = off \union View("grid", Visible("grid"))
    /\ UNCHANGED <<mapped, overlays, hooked, active, wins, keys, listening, news>>

SlideFini ==
    /\ slide.state # "NONE"
    /\ slide' = SlideUnloaded
    /\ \/ slide.state # "IDLE" /\ SlideClear({})
       \/ /\ slide.state = "IDLE"
          /\ off' = off \ (View("grid", SlideDesktop) \union View("widgets", SlideWidget))
          /\ UNCHANGED <<mapped, overlays, hooked, active, wins, keys, listening, news>>

SlideOnMapped ==
    IF slide.state = "NONE" THEN slide ELSE [slide EXCEPT !.desktop = TRUE]

SlideHidesMapped == slide.state = "IDLE"

SlideOnUnmapped(view) ==
    IF view = "widgets" THEN [slide EXCEPT !.widget = FALSE]
    ELSE IF slide.desktop THEN [slide EXCEPT !.desktop = FALSE, !.tr = FALSE]
    ELSE slide
=============================================================================
