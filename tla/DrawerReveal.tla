---------------------------- MODULE DrawerReveal ----------------------------
(***************************************************************************)
(* The app drawer as the user meets it on one output: the drawer's window  *)
(* (LumenDrawer), the two plugins that reveal it (CurtainPeek, SlidePeek)  *)
(* over the scene they share, lumen-settings' choice of the plugin, the    *)
(* panel's launcher button, and windows that come and go.                  *)
(*                                                                         *)
(* A request over Wayfire's socket is part of the step that makes it: the  *)
(* caller waits for the reply.  Like a binding it reaches the instance of  *)
(* the active output, which need not be this one; then nothing happens     *)
(* here.  The focus travels back through `news`.                           *)
(***************************************************************************)
EXTENDS CurtainPeek, SlidePeek, LumenDrawer

CONSTANTS
    MaxChoices,  \* bound: choices of the reveal style in lumen-settings
    ReadsBetween \* Wayfire may read its file between the two writes of a choice

ASSUME RevealConstants == MaxChoices \in Nat /\ ReadsBetween \in BOOLEAN

VARIABLES
    listed,      \* reveal plugins in wayfire.ini's [core] plugins
    wanted,      \* the same, as Wayfire last read the file
    style,       \* DrawerPage: the choice whose second write is due, or "none"
    choices,
    focused_id   \* DrawerToplevels.focused_id (NoWindow: 0)

settings == <<listed, wanted, style, choices>>
vars == <<scene, curtain, slide, drawer, settings, focused_id>>

Loaded == {p \in {"curtain", "slide"} :
             (IF p = "curtain" THEN curtain ELSE slide).state # "NONE"}

Revealing(p) == (IF p = "curtain" THEN curtain ELSE slide).state
                  \in {"OPENING", "OPEN", "CLOSING"}

Init ==
    /\ mapped = {} /\ off = {} /\ overlays = {} /\ hooked = {} /\ active = {}
    /\ wins = {} /\ keys = NoWindow /\ listening = FALSE /\ news = <<>>
    /\ DrawerInit
    /\ \/ /\ curtain = [CurtainUnloaded EXCEPT !.state = "IDLE"]
          /\ slide = SlideUnloaded /\ listed = {"curtain"}
       \/ /\ slide = [SlideUnloaded EXCEPT !.state = "IDLE"]
          /\ curtain = CurtainUnloaded /\ listed = {"slide"}
    /\ wanted = listed
    /\ style = "none" /\ choices = 0 /\ focused_id = NoWindow

(***************************************************************************)
(* The compositor and its plugins.                                         *)
(***************************************************************************)

\* A binding, or the launcher's toggle of both plugins over the socket.
Toggle ==
    /\ Calm
    /\ \/ CurtainToggle /\ UNCHANGED slide
       \/ SlideToggle /\ UNCHANGED curtain
    /\ UNCHANGED <<drawer, settings, focused_id>>

Frame ==
    /\ \/ CurtainFrame /\ UNCHANGED slide
       \/ SlideFrame /\ UNCHANGED curtain
    /\ UNCHANGED <<drawer, settings, focused_id>>

OutputInhibited ==
    /\ Calm
    /\ \/ CurtainCancel /\ UNCHANGED slide
       \/ SlideCancel /\ UNCHANGED curtain
    /\ UNCHANGED <<drawer, settings, focused_id>>

\* What is no longer wanted is unloaded before anything is loaded.
LoadPlugins ==
    /\ \/ "curtain" \notin wanted /\ Calm /\ CurtainFini /\ UNCHANGED slide
       \/ "slide" \notin wanted /\ Calm /\ SlideFini /\ UNCHANGED curtain
       \/ Loaded \subseteq wanted /\ "curtain" \in wanted /\ CurtainInit /\ UNCHANGED slide
       \/ Loaded \subseteq wanted /\ "slide" \in wanted /\ SlideInit /\ UNCHANGED curtain
    /\ UNCHANGED <<drawer, settings, focused_id>>

\* Wayfire reads its file again, some time after a write.
ConfigReloaded ==
    /\ style = "none" \/ ReadsBetween
    /\ wanted # listed /\ wanted' = listed
    /\ UNCHANGED <<scene, curtain, slide, drawer, listed, style, choices,
                   focused_id>>

WidgetsMap ==
    /\ "widgets" \notin mapped
    /\ mapped' = mapped \union {"widgets"} /\ off' = off \ {"widgets"}
    /\ UNCHANGED <<overlays, hooked, active, wins, keys, listening, news,
                   curtain, slide, drawer, settings, focused_id>>

WidgetsUnmap ==
    /\ "widgets" \in mapped
    /\ mapped' = mapped \ {"widgets"} /\ off' = off \ {"widgets"}
    /\ curtain' = CurtainOnUnmapped("widgets")
    /\ slide' = SlideOnUnmapped("widgets")
    /\ UNCHANGED <<overlays, hooked, active, wins, keys, listening, news,
                   drawer, settings, focused_id>>

WindowMaps(w) ==
    /\ Calm /\ w \notin wins
    /\ wins' = wins \union {w}
    /\ Focus(w)
    /\ UNCHANGED <<mapped, off, overlays, hooked, active, listening,
                   curtain, slide, drawer, settings, focused_id>>

WindowCloses(w) ==
    /\ Calm /\ w \in wins
    /\ wins' = wins \ {w}
    /\ IF keys = w THEN Refocus(wins') ELSE UNCHANGED <<keys, news>>
    /\ UNCHANGED <<mapped, off, overlays, hooked, active, listening,
                   curtain, slide, drawer, settings, focused_id>>

ClickGrid ==
    /\ Calm /\ Visible("grid") /\ keys # "grid"
    /\ Focus("grid")
    /\ UNCHANGED <<mapped, off, overlays, hooked, active, wins, listening,
                   curtain, slide, drawer, settings, focused_id>>

(***************************************************************************)
(* lumen-settings: two writes of the plugins list, slide-peek's first.     *)
(***************************************************************************)

ChooseStyle(s) ==
    /\ style = "none" /\ choices < MaxChoices
    /\ style' = s /\ choices' = choices + 1
    /\ listed' = IF s = "slide" THEN listed \union {"slide"} ELSE listed \ {"slide"}
    /\ UNCHANGED <<scene, curtain, slide, drawer, wanted, focused_id>>

StyleSecondWrite ==
    /\ style # "none" /\ style' = "none"
    /\ listed' = IF style = "slide" THEN listed \ {"curtain"} ELSE listed \union {"curtain"}
    /\ UNCHANGED <<scene, curtain, slide, drawer, wanted, choices, focused_id>>

(***************************************************************************)
(* The drawer.                                                             *)
(***************************************************************************)

\* CurtainIpc.close(), which may reach another output.
CloseReveal ==
    \/ curtain' = CurtainClosing /\ slide' = SlideClosing
    \/ UNCHANGED <<curtain, slide>>

DrawerStarts ==
    /\ Activate
    /\ CloseReveal
    /\ listening' = TRUE
    /\ news' = IF Toplevel(keys) = NoWindow THEN <<>> ELSE <<Toplevel(keys)>>
    /\ UNCHANGED <<mapped, off, overlays, hooked, active, wins, keys, focused_id, settings>>

\* The window maps: on_view_mapped of every loaded plugin.
DrawerMaps ==
    /\ running /\ "grid" \notin mapped
    /\ mapped' = mapped \union {"grid"}
    /\ off' = IF CurtainHidesMapped \/ SlideHidesMapped
              THEN off \union {"grid"} ELSE off \ {"grid"}
    /\ curtain' = CurtainOnMapped /\ slide' = SlideOnMapped
    /\ UNCHANGED <<overlays, hooked, active, wins, keys, listening, news, drawer,
                   settings, focused_id>>

\* The grid's view goes away: on_view_unmapped of both plugins.
GridGone ==
    /\ mapped' = mapped \ {"grid"} /\ off' = off \ {"grid"}
    /\ overlays' = overlays \ {"slide transformer"}
    /\ curtain' = CurtainOnUnmapped("grid") /\ slide' = SlideOnUnmapped("grid")
    /\ keys' = IF keys = "grid" THEN NoWindow ELSE keys
    /\ UNCHANGED <<hooked, active, wins, settings>>

DrawerRebuilds ==
    /\ "grid" \in mapped /\ RebuildWindows /\ GridGone
    /\ UNCHANGED <<listening, news, focused_id>>

DrawerCrashes ==
    /\ Crash /\ GridGone
    /\ listening' = FALSE /\ news' = <<>> /\ focused_id' = NoWindow

KeyInDrawer ==
    /\ keys = "grid" /\ UNCHANGED <<scene, curtain, slide, settings, focused_id>>
    /\ (\E text \in Queries : Type(text)) \/ Clear \/ EnterSearches \/ TurnPage

Launch ==
    /\ running /\ UNCHANGED <<scene, settings, focused_id>>
    /\ \/ keys = "grid" /\ EnterLaunches
       \/ (keys = "grid" \/ Visible("grid")) /\ Launchable /\ Dismiss
    /\ CloseReveal

Escape ==
    /\ keys = "grid" /\ Dismiss /\ CloseReveal
    /\ UNCHANGED <<scene, settings, focused_id>>

ClickDots ==
    /\ Visible("grid") /\ TurnPage
    /\ UNCHANGED <<scene, curtain, slide, settings, focused_id>>

SearchDue ==
    /\ SearchChanged
    /\ UNCHANGED <<scene, curtain, slide, settings, focused_id>>

ReloadDue ==
    /\ Reload
    /\ UNCHANGED <<scene, curtain, slide, settings, focused_id>>

AppsChanged ==
    /\ AppsChange
    /\ UNCHANGED <<scene, curtain, slide, settings, focused_id>>

\* DrawerToplevels.on_focus, on_rm (Taskbar has them in detail).
HearFocus ==
    /\ news # <<>>
    /\ news' = Tail(news) /\ focused_id' = Head(news)
    /\ OnFocusChanged(Head(news) \notin {NoWindow, focused_id})
    /\ UNCHANGED <<mapped, off, overlays, hooked, active, wins, keys, listening,
                   curtain, slide, settings>>

Next ==
    \/ Toggle \/ Frame \/ OutputInhibited \/ LoadPlugins \/ ConfigReloaded
    \/ WidgetsMap \/ WidgetsUnmap \/ ClickGrid
    \/ \E w \in Windows : WindowMaps(w) \/ WindowCloses(w)
    \/ \E s \in {"curtain", "slide"} : ChooseStyle(s)
    \/ StyleSecondWrite
    \/ DrawerStarts \/ DrawerMaps \/ DrawerRebuilds \/ DrawerCrashes
    \/ KeyInDrawer \/ Launch \/ Escape \/ ClickDots \/ SearchDue \/ ReloadDue \/ AppsChanged \/ HearFocus

\* Frames come while a hook damages the output; the drawer's loop runs.
Fairness ==
    /\ WF_vars(Frame) /\ WF_vars(HearFocus) /\ WF_vars(SearchDue) /\ WF_vars(ReloadDue)

Spec == Init /\ [][Next]_vars /\ Fairness

(***************************************************************************)
(* Properties.                                                             *)
(***************************************************************************)

States == {"NONE", "IDLE", "OPENING", "OPEN", "CLOSING"}

Plugin      == [state : States, desktop : BOOLEAN, widget : BOOLEAN]
SlidePlugin == [state : States, desktop : BOOLEAN, widget : BOOLEAN, tr : BOOLEAN]

\* Types; a remembered view is mapped, and so is a disabled one; the pages,
\* the dots and the results are within their arrays.
TypeOK ==
    /\ mapped \subseteq {"grid", "widgets"} /\ off \subseteq mapped \union Layers
    /\ hooked \subseteq Loaded /\ active \subseteq Loaded
    /\ wins \subseteq Windows /\ keys \in wins \union {NoWindow} \union (mapped \ {"widgets"})
    /\ news \in Seq(Windows \union {NoWindow}) /\ Len(news) <= MaxNews + 2
    /\ curtain \in Plugin /\ slide \in SlidePlugin
    /\ curtain.desktop \/ slide.desktop => "grid" \in mapped
    /\ curtain.widget \/ slide.widget => "widgets" \in mapped
    /\ "grid" \in mapped => running
    /\ listed \subseteq {"curtain", "slide"} /\ wanted \subseteq {"curtain", "slide"}
    /\ grid.page \in 0 .. grid.count - 1
    /\ running => dots.active \in 0 .. dots.count - 1
    /\ Len(tiles) <= PerPage /\ Len(db.filtered) <= PerPage

\* What a reveal takes it holds until it ends and no longer, whichever way it
\* ends (last frame, cancel, unload): the frame hook, the activation, its nodes
\* and transformer, the layers it hides; meanwhile the grid is shown, else it is
\* hidden while a plugin is loaded, and widgets are hidden by a reveal only.
\* hard_reset and fini of curtain-peek.cpp and slide-peek.cpp, and on_view_mapped.
\* It does not hold if both plugins are ever loaded at a time (ReadsBetween).
RevealBracketed ==
    /\ \A p \in {"curtain", "slide"} :
         (p \in hooked) = Revealing(p) /\ (p \in active) = Revealing(p)
    /\ overlays = (IF Revealing("curtain") THEN CurtainNodes ELSE {})
                  \union View("slide snapshot", Revealing("slide"))
                  \union View("slide transformer", slide.tr)
    /\ slide.tr => Revealing("slide")
    /\ off \intersect Layers = IF Revealing("curtain") THEN Layers
                               ELSE IF Revealing("slide") THEN SlideLayers ELSE {}
    /\ "grid" \in mapped => ("grid" \in off) = (\E p \in Loaded : ~Revealing(p))
    /\ "widgets" \in off => \E p \in Loaded : Revealing(p)

\* In the drawer the parts that are updated one by one agree after each
\* callback: the dots with the grid, the view with the database, the results
\* with the query and with the apps that are loaded (never with those of before a
\* reload); and a change of the apps is loaded or has its timer.
DrawerInStep ==
    running =>
      /\ dots.count = grid.count /\ dots.active = grid.page
      /\ grid.count = PagedGrid(apps).count
      /\ (view = "results") = db.active
      /\ db.active => tiles = Index(db.last, apps) /\ ~dots.visible
      /\ ~pending => IF query = "" THEN ~db.active ELSE db.active /\ db.last = query
      /\ refresh \/ apps = Installed[version]

\* A window that keeps the keyboard gets the drawer's search dropped, however
\* late the drawer hears of it (window.vala, the focus_changed handler).
CleanWhenCovered ==
    \A w \in Windows : (keys = w) ~> (query = "" \/ keys # w)
=============================================================================
