--------------------------- MODULE OutputEffects ---------------------------
(***************************************************************************)
(* The effect plugins together over the outputs and views they share, with *)
(* the hide and reveal of lumen-panel (panel_window.vala) that drives      *)
(* panel-push in the panel's "push" mode.                                  *)
(*                                                                         *)
(* wayfire.ini lists some of the plugins (`listed`, chosen at the start);  *)
(* they are unloaded and loaded at any time, each with an instance per     *)
(* output.  A request goes to the instance of the active output, which may *)
(* be any.  One panel is modelled, without an expanded tray; what a timer  *)
(* of a panel window that a hotplug replaced may still send is one of the  *)
(* requests of others.                                                     *)
(***************************************************************************)
EXTENDS DesktopPeek, PanelPush, StartupZoom, NightLight

CONSTANT PluginSets  \* lists of plugins to choose from

ASSUME OutputEffectsConstants ==
    PluginSets \subseteq SUBSET {"desktop", "push", "zoom", "night"}

VARIABLES
    listed,      \* plugins in wayfire.ini
    loaded,
    panel        \* PanelWindow: pointer inside, reveal_target, slide_tick_id # 0,
                 \* collapse_timeout_id # 0

plugins == <<desk, push, zoom, night, enabled>>
vars    == <<world, held, plugins, listed, loaded, panel>>

NewPanel == [inside |-> FALSE, target |-> FALSE, slides |-> FALSE, timer |-> FALSE]

\* per_output_plugin_t: an instance of a listed plugin on every output
Started(p, none, fresh) ==
    [o \in Outputs |-> IF o \in plugged /\ p \in listed THEN fresh ELSE none]

Init ==
    /\ plugged \in (SUBSET Outputs) \ {{}}
    /\ place = [v \in Views |-> Unmapped]
    /\ minimized = {} /\ held = {} /\ enabled = FALSE
    /\ listed \in PluginSets /\ loaded = listed
    /\ desk  = Started("desktop", DeskNone, DeskIdle)
    /\ push  = Started("push", PushNone, PushIdle)
    /\ zoom  = Started("zoom", ZoomNone, ZoomPending)
    /\ night = Started("night", "NONE", "OFF")
    /\ panel = NewPanel

(***************************************************************************)
(* Requests, frames, timers.                                               *)
(***************************************************************************)

\* A binding on the output, or a verb over the socket for the active output.
Request(o) ==
    /\ \/ DeskToggle(o) /\ UNCHANGED <<push, zoom, night, enabled>>
       \/ PushToggle(o) /\ UNCHANGED <<desk, zoom, night, enabled>>
    /\ UNCHANGED <<world, listed, loaded, panel>>

NightToggled ==
    /\ NightRequest
    /\ UNCHANGED <<world, desk, push, zoom, listed, loaded, panel>>

FrameOfDesk(o) ==
    /\ DeskFrame(o)
    /\ UNCHANGED <<world, push, zoom, night, enabled, listed, loaded, panel>>

FrameOfPush(o) ==
    /\ PushFrame(o)
    /\ UNCHANGED <<world, desk, zoom, night, enabled, listed, loaded, panel>>

FrameOfZoom(o) ==
    /\ ZoomFrame(o)
    /\ UNCHANGED <<world, desk, push, night, enabled, listed, loaded, panel>>

FrameOfNight(o) ==
    /\ NightFrame(o)
    /\ UNCHANGED <<world, desk, push, zoom, listed, loaded, panel>>

GraceExpires(o) ==
    /\ ZoomGrace(o)
    /\ UNCHANGED <<world, desk, push, night, enabled, listed, loaded, panel>>

\* Wayfire cancels the active plugins, as it does when the screen is locked.
OutputInhibited(o) ==
    /\ \/ DeskCancel(o) /\ UNCHANGED push
       \/ PushCancel(o) /\ UNCHANGED desk
    /\ UNCHANGED <<world, zoom, night, enabled, listed, loaded, panel>>

(***************************************************************************)
(* Views.                                                                  *)
(***************************************************************************)

\* view_mapped reaches panel-push of the output and startup-zoom
ViewMaps(v, o) ==
    /\ place[v] = Unmapped /\ o \in plugged
    /\ place' = [place EXCEPT ![v] = o]
    /\ push' = PushMapped(v, o)
    /\ zoom' = ZoomMapped(v, o)
    /\ held' = held \union Transformers("push", o, PushTaken(v, o)) \union ZoomTaken(v, o)
    /\ UNCHANGED <<plugged, minimized, desk, night, enabled, listed, loaded, panel>>

\* view_unmapped reaches everyone who tracks the view
ViewUnmaps(v) ==
    /\ place[v] # Unmapped
    /\ place' = [place EXCEPT ![v] = Unmapped]
    /\ minimized' = minimized \ {v}
    /\ desk' = DeskDropped(v) /\ push' = PushDropped(v) /\ zoom' = ZoomDropped(v)
    /\ held' = held \ (DeskGivesBack(v) \union PushGivesBack(v) \union ZoomGivesBack(v))
    /\ panel' = IF v = Panel THEN NewPanel ELSE panel
    /\ UNCHANGED <<plugged, night, enabled, listed, loaded>>

WindowMoves(w, o) ==
    /\ place[w] \notin {Unmapped, o} /\ o \in plugged
    /\ place' = [place EXCEPT ![w] = o]
    /\ UNCHANGED <<plugged, minimized, held, plugins, listed, loaded, panel>>

WindowMinimized(w) ==
    /\ place[w] # Unmapped
    /\ minimized' = IF w \in minimized THEN minimized \ {w} ELSE minimized \union {w}
    /\ UNCHANGED <<plugged, place, held, plugins, listed, loaded, panel>>

(***************************************************************************)
(* The panel in "push" mode.                                               *)
(***************************************************************************)

\* The verb goes to the active output's instance, or nowhere.
PushIpc(reveal) ==
    \/ "push" \in loaded
       /\ \E o \in plugged : IF reveal THEN PushIpcStart(o) ELSE PushIpcStop(o)
    \/ "push" \notin loaded /\ UNCHANGED <<push, held>>

\* `now` is the panel but for what set_reveal() changes.
set_reveal(reveal, now) ==
    IF reveal = panel.target /\ ~panel.slides
    THEN panel' = now /\ UNCHANGED <<push, held>>
    ELSE /\ panel' = [now EXCEPT !.target = reveal, !.slides = TRUE]
         /\ PushIpc(reveal)

PanelStep ==
    /\ "push" \in listed /\ place[Panel] # Unmapped
    /\ UNCHANGED <<world, desk, zoom, night, enabled, listed, loaded>>

\* cancel_collapse() and set_reveal(true)
PointerEnters ==
    /\ ~panel.inside
    /\ set_reveal(TRUE, [panel EXCEPT !.inside = TRUE, !.timer = FALSE])
    /\ PanelStep

\* schedule_collapse()
PointerLeaves ==
    /\ panel.inside
    /\ panel' = [panel EXCEPT !.inside = FALSE, !.timer = TRUE]
    /\ UNCHANGED <<push, held>>
    /\ PanelStep

CollapseTimeout ==
    /\ panel.timer
    /\ set_reveal(FALSE, [panel EXCEPT !.timer = FALSE])
    /\ PanelStep

\* the last tick of start_slide_tracking()
SlideEnds ==
    /\ panel.slides
    /\ panel' = [panel EXCEPT !.slides = FALSE]
    /\ UNCHANGED <<push, held>>
    /\ PanelStep

(***************************************************************************)
(* Instances come and go with outputs and with the list of plugins.        *)
(***************************************************************************)

\* init() and fini() of the plugins ps on the outputs os
InitInstances(os, ps) ==
    LET on(p) == IF p \in ps THEN os ELSE {}
    IN  /\ desk'  = [o \in Outputs |-> IF o \in on("desktop") THEN DeskIdle ELSE desk[o]]
        /\ push'  = [o \in Outputs |-> IF o \in on("push") THEN PushIdle ELSE push[o]]
        /\ zoom'  = [o \in Outputs |-> IF o \in on("zoom") THEN ZoomPending ELSE zoom[o]]
        /\ night' = [o \in Outputs |-> IF o \in on("night") THEN "OFF" ELSE night[o]]

FiniInstances(os, ps) ==
    LET on(p) == IF p \in ps THEN os ELSE {}
    IN  /\ desk'  = DeskFini(on("desktop"))
        /\ push'  = PushFini(on("push"))
        /\ zoom'  = ZoomFini(on("zoom"))
        /\ night' = NightFini(on("night"))
        /\ held'  = held \ (DeskHeldOn(on("desktop")) \union PushHeldOn(on("push"))
                            \union ZoomHeldOn(on("zoom")) \union NightHeldOn(on("night")))

LoadPlugin(p) ==
    /\ p \in listed \ loaded
    /\ loaded' = loaded \union {p}
    /\ InitInstances(plugged, {p})
    /\ UNCHANGED <<world, held, enabled, listed, panel>>

UnloadPlugin(p) ==
    /\ p \in loaded
    /\ loaded' = loaded \ {p}
    /\ FiniInstances(plugged, {p})
    /\ enabled' = (enabled /\ p # "night")
    /\ UNCHANGED <<world, listed, panel>>

\* lumen-panel builds its windows anew when the monitors change.
Plug(o) ==
    /\ o \notin plugged
    /\ plugged' = plugged \union {o}
    /\ InitInstances({o}, loaded)
    /\ panel' = NewPanel
    /\ UNCHANGED <<place, minimized, held, enabled, listed, loaded>>

\* The instances go first, then the windows to another output; layer
\* surfaces are closed.
Unplug(o) ==
    /\ o \in plugged /\ plugged # {o}
    /\ plugged' = plugged \ {o}
    /\ FiniInstances({o}, loaded)
    /\ \E other \in plugged \ {o} :
          place' = [v \in Views |-> IF place[v] # o THEN place[v]
                                    ELSE IF v \in Windows THEN other ELSE Unmapped]
    /\ panel' = NewPanel
    /\ UNCHANGED <<minimized, enabled, listed, loaded>>

Next ==
    \/ \E o \in Outputs :
          \/ Request(o) \/ OutputInhibited(o) \/ GraceExpires(o)
          \/ FrameOfDesk(o) \/ FrameOfPush(o) \/ FrameOfZoom(o) \/ FrameOfNight(o)
          \/ Plug(o) \/ Unplug(o)
          \/ \E v \in Views : ViewMaps(v, o)
          \/ \E w \in Windows : WindowMoves(w, o)
    \/ \E v \in Views : ViewUnmaps(v)
    \/ \E w \in Windows : WindowMinimized(w)
    \/ NightToggled
    \/ PointerEnters \/ PointerLeaves \/ CollapseTimeout \/ SlideEnds
    \/ \E p \in listed : LoadPlugin(p) \/ UnloadPlugin(p)

(***************************************************************************)
(* Every plugin that animates damages the output in each of its frames, so *)
(* the next frame comes; startup-zoom does while it tracks a view.         *)
(***************************************************************************)
ZoomAnimates(o) == zoom[o].state = "RUNNING" /\ zoom[o].views # {}

Fairness ==
    /\ \A o \in Outputs :
          /\ WF_vars(FrameOfDesk(o)) /\ WF_vars(FrameOfPush(o)) /\ WF_vars(FrameOfNight(o))
          /\ WF_vars(ZoomAnimates(o) /\ FrameOfZoom(o)) /\ WF_vars(GraceExpires(o))
    /\ WF_vars(CollapseTimeout) /\ WF_vars(SlideEnds)

Spec == Init /\ [][Next]_vars /\ Fairness

(***************************************************************************)
(* Properties.                                                             *)
(***************************************************************************)

Instance(p, o) == o \in plugged /\ p \in loaded

\* The shape of the state: who tracks only mapped views, and never the panel.
TypeOK ==
    /\ plugged \subseteq Outputs /\ plugged # {} /\ loaded \subseteq listed
    /\ place \in [Views -> plugged \union {Unmapped}] /\ minimized \subseteq Windows
    /\ held \subseteq Holdings /\ enabled \in BOOLEAN
    /\ panel \in [inside : BOOLEAN, target : BOOLEAN, slides : BOOLEAN, timer : BOOLEAN]
    /\ \A o \in Outputs :
          LET mapped == {v \in Views : place[v] # Unmapped}
          IN  /\ desk[o].views \subseteq mapped \intersect Windows
              /\ push[o].views \subseteq mapped \ {Panel}
              /\ zoom[o].views \subseteq mapped
              /\ (desk[o].state # "NONE") = Instance("desktop", o)
              /\ (push[o].state # "NONE") = Instance("push", o)
              /\ (zoom[o].state # "NONE") = Instance("zoom", o)
              /\ (night[o] # "NONE") = Instance("night", o)

\* What the plugins hold of the compositor is what their effects need while
\* they run, and nothing besides: no window keeps the transformer of a peek
\* that is over, no output the hook of an instance that is gone, however
\* the effect ended (animation, cancellation, the last view, unload,
\* unplug), and no running effect has lost its hook.
HeldWhileRunning ==
    held = UNION {
        (IF desk[o].state \in {"OUT", "PEEKED", "IN"} THEN DeskHolds(o, desk[o].views) ELSE {})
        \union (IF push[o].state \in {"OUT", "PUSHED", "IN"} THEN PushHolds(o, push[o].views) ELSE {})
        \union (IF zoom[o].state = "RUNNING" THEN ZoomHolds(o, zoom[o].views) ELSE {})
        \union (IF night[o] \in {"FADING_IN", "ON", "FADING_OUT"} THEN NightHolds(o) ELSE {})
        : o \in Outputs}

\* What is under way can be undone by whoever started it: an output is never
\* left in a peek without windows, which nothing but the peek's own binding
\* would end, and while any screen is tinted the panel's toggle, which asks
\* for ~enabled, asks to clear it.  (Not the other way: with the one tinted
\* output unplugged and a dark one left, enabled stays TRUE, no instance acts
\* on the toggle, and only a start over the socket wakes it.)
NothingStranded ==
    /\ \A o \in Outputs : desk[o].state \in {"OUT", "PEEKED", "IN"} => desk[o].views # {}
    /\ (\E o \in Outputs : Lit(o)) => enabled

\* An effect is on its way from one rest to the other.
Animates(o) ==
    \/ desk[o].state \in {"OUT", "IN"} \/ push[o].state \in {"OUT", "IN"}
    \/ night[o] \in {"FADING_IN", "FADING_OUT"}
    \/ zoom[o].state = "PENDING" \/ ZoomAnimates(o)

\* Every animation ends, whatever happens meanwhile: a start or a restore of a
\* peek or push, the fade of night-light, and the startup zoom, which gives up
\* when nothing maps.  (Stated for lists of one plugin: of two, each may be
\* started while the other ends.  A zoom that has lost its last view damages
\* nothing and ends with whatever frame the output has next, which nobody owes.)
AnimationsEnd == \A o \in Outputs : Animates(o) ~> ~Animates(o)

\* A panel that the pointer has left goes back behind its edge, whenever the
\* pointer left: during the slide in, during the slide out, before the delay
\* of an earlier leave was over.
PanelComesBack ==
    ~panel.inside ~> panel.inside \/ (~panel.target /\ ~panel.slides)

\* What is started for a moment comes to its end.
EffectsEnd == AnimationsEnd /\ PanelComesBack
=============================================================================
