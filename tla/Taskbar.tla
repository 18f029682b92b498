------------------------------ MODULE Taskbar ------------------------------
(***************************************************************************)
(* The running windows as the shell sees them: the list that wlhooks keeps *)
(* from the foreign-toplevel events (window_list.c, wlr_toplevel.c) and    *)
(* its table of outputs (output.c), the panel's ToplevelStore with one     *)
(* AppBar per panel (toplevel.vala, panel.vala, app.vala, main.vala), and  *)
(* the drawer's question "has any window the focus?" (DrawerToplevels).    *)
(*                                                                         *)
(* One event of the compositor or of the user is one step, with all the    *)
(* callbacks it causes.  The compositor is external: it opens and closes   *)
(* windows, names them, moves them between outputs and moves the focus;    *)
(* a focus change is two events (`pending`), in either order.  Panels are  *)
(* named by the connector of their monitor; NoOutput names the one panel   *)
(* that is not pinned to a monitor.  Drag-reordering of entries is left    *)
(* out: their order is abstracted away, and so is the file's.              *)
(***************************************************************************)
EXTENDS Naturals, Sequences, FiniteSets, SequencesExt, TLC

CONSTANTS
    Apps,            \* app ids
    Outputs,         \* connector names
    NoApp, NoOutput, \* not yet received / unknown
    MaxWindows,      \* bound: toplevels ever opened
    MAX_OUTPUTS,     \* slots of the output table
    Compositors,     \* the toplevel protocols a compositor may have
    PerMonitorApps,  \* PanelConfig.per_monitor_apps
    AnyOrder         \* a window may have focus or output events before both
                     \* its title and its app id were sent

ASSUME TaskbarConstants ==
    /\ NoApp \notin Apps /\ NoOutput \notin Outputs
    /\ MaxWindows \in Nat /\ MAX_OUTPUTS \in Nat
    /\ Compositors \subseteq (SUBSET {"wlr", "ext"}) \ {{}}
    /\ PerMonitorApps \in BOOLEAN /\ AnyOrder \in BOOLEAN

VARIABLES
    windows,         \* wlhooks: id -> what is known of the live window
    next_window_id,
    outputs,         \* wlhooks: connectors in the output table
    bound,           \* the shell has registered its callbacks
    by_id,           \* ToplevelStore: id -> Toplevel
    drawer,          \* DrawerToplevels
    monitors,        \* Gdk's list of monitors
    bars,            \* panel -> its AppBar
    pins,            \* pinned-apps.txt
    managers,        \* wlhooks: the toplevel protocols it has bound
    globals,         \* the compositor: the toplevel protocols it has,
    opened,          \* the number of its windows,
    on, focus,       \* outputs of a window and the focus, as reported
    pending          \* state events of a focus change, not yet dispatched

hooks        == <<windows, next_window_id, outputs, managers>>
shell        == <<by_id, bars, drawer>>
toplevels    == <<on, focus, pending, globals, opened>>
taskbar_vars == <<hooks, shell, toplevels, bound, monitors, pins>>

Ids == 1 .. MaxWindows

(***************************************************************************)
(* AppBar and its entries.                                                 *)
(***************************************************************************)

Host(ms)   == IF ms = <<>> THEN NoOutput ELSE Head(ms)
Panels(ms) == IF ms = <<>> THEN {NoOutput} ELSE ToSet(ms)

Filters(p) == PerMonitorApps /\ p # NoOutput

accepts(ms, p, t) ==
    \/ ~Filters(p)
    \/ t.output = p
    \/ t.output = NoOutput /\ p = Host(ms)

Listed(b)   == UNION {ToSet(b.window_ids[a]) : a \in Apps}
index_of(s, id) == CHOOSE i \in DOMAIN s : s[i] = id
AppOf(b, id) == CHOOSE a \in Apps : id \in ToSet(b.window_ids[a])

AddWindow(b, id, a) ==
    [b EXCEPT !.entries = @ \union {a},
              !.window_ids[a] = IF id \in ToSet(@) THEN @ ELSE Append(@, id)]

RemoveEntry(b, a) ==
    [b EXCEPT !.entries = @ \ {a}, !.pinned = @ \ {a}, !.cycle_idx[a] = 0]

(* slip: the cycle position is not reset *)
RemoveWindowKeepsCycle(b, id) ==
    IF id \notin Listed(b) THEN b
    ELSE LET a  == AppOf(b, id)
             b1 == [b EXCEPT !.window_ids[a] = RemoveAt(@, index_of(@, id))]
         IN  IF a \notin b.pinned /\ b1.window_ids[a] = <<>> THEN RemoveEntry(b1, a) ELSE b1

RemoveWindow(b, id) ==
    IF id \notin Listed(b) THEN b
    ELSE LET a    == AppOf(b, id)
             left == RemoveAt(b.window_ids[a], index_of(b.window_ids[a], id))
             b1   == [b EXCEPT !.window_ids[a] = left,
                               !.cycle_idx[a] = IF @ >= Len(left) THEN 0 ELSE @]
         IN  IF a \notin b.pinned /\ left = <<>> THEN RemoveEntry(b1, a) ELSE b1

\* the position after the focused window, counted from 0
mark_focused(b, id) ==
    IF id \notin Listed(b) THEN b
    ELSE LET a == AppOf(b, id)
         IN  [b EXCEPT !.cycle_idx[a] = index_of(b.window_ids[a], id) % Len(b.window_ids[a])]

\* The constructor: the pins of the file, then a replay of the store (the
\* order of its hash table is left open).
NewAppBar(ms, p, store) ==
    LET mine(a) == {id \in DOMAIN store :
                        store[id].app_id = a /\ accepts(ms, p, store[id])}
    IN  [pinned     |-> pins,
         entries    |-> pins \union {a \in Apps : mine(a) # {}},
         window_ids |-> [a \in Apps |-> SetToSeq(mine(a))],
         cycle_idx  |-> [a \in Apps |-> 0]]

build_windows(ms, store) == [p \in Panels(ms) |-> NewAppBar(ms, p, store)]

(***************************************************************************)
(* The callbacks of wlhooks: ToplevelStore with the AppBars, and the       *)
(* drawer.                                                                 *)
(***************************************************************************)

on_new(id, app) ==
    LET t == [app_id |-> app, output |-> NoOutput, activated |-> FALSE]
    IN  /\ by_id' = [k \in {id} \union DOMAIN by_id |-> IF k = id THEN t ELSE by_id[k]]
        /\ bars' = [p \in DOMAIN bars |->
                       IF accepts(monitors, p, t) THEN AddWindow(bars[p], id, app)
                       ELSE bars[p]]
        /\ drawer' = [drawer EXCEPT !.live = @ \union {id}]

on_rm(id) ==
    /\ by_id' = Restrict(by_id, DOMAIN by_id \ {id})
    /\ bars' = [p \in DOMAIN bars |-> RemoveWindow(bars[p], id)]
    /\ drawer' = IF id = drawer.focused_id
                 THEN [live |-> drawer.live \ {id}, focused_id |-> 0, any_focused |-> FALSE]
                 ELSE [drawer EXCEPT !.live = @ \ {id}]

on_focus(id) ==
    /\ by_id' = [k \in DOMAIN by_id |-> [by_id[k] EXCEPT !.activated = (k = id)]]
    /\ bars' = [p \in DOMAIN bars |-> mark_focused(bars[p], id)]
    /\ drawer' = [drawer EXCEPT !.focused_id = id, !.any_focused = id \in drawer.live]

(* slip: a window that left for another monitor stays on the old taskbar *)
on_outputOnlyAdds(id, output, entered) ==
    LET t == [by_id[id] EXCEPT !.output = IF entered THEN output
                                          ELSE IF @ = output THEN NoOutput ELSE @]
    IN  /\ by_id' = [by_id EXCEPT ![id] = t]
        /\ bars' = [p \in DOMAIN bars |->
                       IF Filters(p) /\ accepts(monitors, p, t)
                       THEN AddWindow(bars[p], id, t.app_id) ELSE bars[p]]
        /\ UNCHANGED drawer

on_output(id, output, entered) ==
    LET t == [by_id[id] EXCEPT !.output = IF entered THEN output
                                          ELSE IF @ = output THEN NoOutput ELSE @]
        follow(p) ==
            LET present == id \in Listed(bars[p])
                want    == accepts(monitors, p, t)
            IN  IF ~Filters(p) \/ want = present THEN bars[p]
                ELSE IF want THEN AddWindow(bars[p], id, t.app_id)
                ELSE RemoveWindow(bars[p], id)
    IN  /\ by_id' = [by_id EXCEPT ![id] = t]
        /\ bars' = [p \in DOMAIN bars |-> follow(p)]
        /\ UNCHANGED drawer

(***************************************************************************)
(* Events of the foreign-toplevel protocol.                                *)
(***************************************************************************)

HasDetails(w) == w.app_id # NoApp /\ w.titled

\* (external) the ext protocol reports neither focus nor outputs; wlr may
\* before the window is named
MayReport(id) == "wlr" \in globals /\ (AnyOrder \/ HasDetails(windows[id]))

\* The globals come in the first roundtrip of registry_init, in the
\* compositor's order; each is bound as it comes.
registry_global(protocol) ==
    /\ protocol \in globals \ managers
    /\ managers' = managers \union {protocol}
    /\ UNCHANGED <<windows, next_window_id, outputs, shell, toplevels, bound, monitors, pins>>

\* "wlr is authoritative when both protocols are advertised."
Takes(protocol) == protocol = "wlr" \/ "wlr" \notin managers

window_list_create == [app_id |-> NoApp, titled |-> FALSE, output |-> NoOutput,
                       activated |-> FALSE, announced |-> FALSE]

\* A window comes over each protocol, at the earliest in the second roundtrip.
on_toplevel ==
    LET taken == Cardinality({p \in managers : Takes(p)})
        ids   == next_window_id .. next_window_id + taken - 1
    IN  /\ managers = globals /\ ids \subseteq Ids
        /\ windows' = [id \in ids \union DOMAIN windows |->
                          IF id \in ids THEN window_list_create ELSE windows[id]]
        /\ next_window_id' = next_window_id + taken
        /\ opened' = opened + 1
        /\ UNCHANGED <<outputs, managers, on, focus, pending, globals, shell, bound,
                       monitors, pins>>

emit_new_if_ready(id, w) ==
    \/ /\ bound /\ HasDetails(w)
       /\ windows' = [windows EXCEPT ![id] = [w EXCEPT !.announced = TRUE]]
       /\ on_new(id, w.app_id)
    \/ /\ ~(bound /\ HasDetails(w))
       /\ windows' = [windows EXCEPT ![id] = w]
       /\ UNCHANGED shell

\* A title or an app id that changes later is stored and not reported.
SetTitle(id) ==
    /\ ~windows[id].titled
    /\ emit_new_if_ready(id, [windows[id] EXCEPT !.titled = TRUE])
    /\ UNCHANGED <<next_window_id, outputs, managers, toplevels, bound, monitors, pins>>

SetAppId(id, a) ==
    /\ windows[id].app_id = NoApp
    /\ emit_new_if_ready(id, [windows[id] EXCEPT !.app_id = a])
    /\ UNCHANGED <<next_window_id, outputs, managers, toplevels, bound, monitors, pins>>

\* (external) the focus moves; 0 is no window
FocusChanges(id) ==
    LET lost   == IF focus = 0 THEN <<>> ELSE <<[id |-> focus, activated |-> FALSE]>>
        gained == IF id = 0 THEN <<>> ELSE <<[id |-> id, activated |-> TRUE]>>
    IN  /\ pending = <<>> /\ id # focus
        /\ id # 0 => MayReport(id)
        /\ focus' = id
        /\ pending' \in {lost \o gained, gained \o lost}
        /\ UNCHANGED <<on, globals, opened, hooks, shell, bound, monitors, pins>>

(* slip: every loss of activation says that no window has the focus *)
set_activatedAlwaysSaysNone ==
    LET e == Head(pending)
        w == windows[e.id]
    IN  /\ pending # <<>>
        /\ pending' = Tail(pending)
        /\ windows' = [windows EXCEPT ![e.id].activated = e.activated]
        /\ IF e.activated = w.activated \/ ~w.announced THEN UNCHANGED shell
           ELSE on_focus(IF e.activated THEN e.id ELSE 0)
        /\ UNCHANGED <<next_window_id, outputs, managers, on, focus, globals, opened, bound, monitors, pins>>

set_activated ==
    LET e == Head(pending)
        w == windows[e.id]
        others == {o \in DOMAIN windows \ {e.id} : windows[o].activated}
    IN  /\ pending # <<>>
        /\ pending' = Tail(pending)
        /\ windows' = [windows EXCEPT ![e.id].activated = e.activated]
        /\ IF e.activated = w.activated \/ ~w.announced
           THEN UNCHANGED shell
           ELSE \/ e.activated /\ on_focus(e.id)
                \/ ~e.activated /\ others = {} /\ on_focus(0)
                \/ ~e.activated /\ others # {} /\ UNCHANGED shell
        /\ UNCHANGED <<next_window_id, outputs, managers, on, focus, globals, opened, bound, monitors, pins>>

OutputEnter(id, o) ==
    /\ o \in outputs /\ o \notin on[id] /\ MayReport(id)
    /\ on' = [on EXCEPT ![id] = @ \union {o}]
    /\ windows' = [windows EXCEPT ![id].output = o]
    /\ IF windows[id].announced THEN on_output(id, o, TRUE) ELSE UNCHANGED shell
    /\ UNCHANGED <<next_window_id, outputs, managers, focus, pending, globals, opened, bound, monitors, pins>>

\* The event of an output that is gone from the table has no name; one of
\* another output than the window's is ignored.  The callback is told "".
OutputLeave(id, o) ==
    /\ o \in on[id]
    /\ on' = [on EXCEPT ![id] = @ \ {o}]
    /\ IF o \in outputs /\ windows[id].output = o
       THEN /\ windows' = [windows EXCEPT ![id].output = NoOutput]
            /\ IF windows[id].announced THEN on_output(id, NoOutput, FALSE)
               ELSE UNCHANGED shell
       ELSE UNCHANGED <<windows, shell>>
    /\ UNCHANGED <<next_window_id, outputs, managers, focus, pending, globals, opened, bound, monitors, pins>>

on_closed(id) ==
    /\ pending = <<>>
    /\ windows' = Restrict(windows, DOMAIN windows \ {id})
    /\ on' = [on EXCEPT ![id] = {}]
    /\ focus' = IF focus = id THEN 0 ELSE focus
    /\ opened' = opened - 1
    /\ IF windows[id].announced THEN on_rm(id) ELSE UNCHANGED shell
    /\ UNCHANGED <<next_window_id, outputs, managers, pending, globals, bound, monitors, pins>>

(***************************************************************************)
(* The shell: registration, monitors, the user.                            *)
(***************************************************************************)

\* ToplevelStore.bind() after the roundtrips of registry_init, and the first
\* panels: every window that is complete is announced, with focus and output.
bind ==
    LET ready == {id \in DOMAIN windows : HasDetails(windows[id])}
        store == [id \in ready |-> [app_id    |-> windows[id].app_id,
                                    output    |-> windows[id].output,
                                    activated |-> windows[id].activated]]
        active == {id \in ready : windows[id].activated}
    IN  /\ ~bound /\ pending = <<>> /\ managers = globals
        /\ bound' = TRUE
        /\ windows' = [id \in DOMAIN windows |->
                          [windows[id] EXCEPT !.announced = id \in ready]]
        /\ by_id' = store
        /\ bars' = build_windows(monitors, store)
        /\ drawer' = [live |-> ready, any_focused |-> active # {},
                      focused_id |-> IF active = {} THEN 0 ELSE CHOOSE id \in active : TRUE]
        /\ UNCHANGED <<next_window_id, outputs, managers, toplevels, monitors, pins>>

\* A new output gets a slot of the table if there is one; Gdk lists its
\* monitor later, and then the panels are rebuilt.
output_handler(o) ==
    /\ o \notin outputs /\ o \notin ToSet(monitors)
    /\ Cardinality(outputs) < MAX_OUTPUTS
    /\ outputs' = outputs \union {o}
    /\ UNCHANGED <<windows, next_window_id, managers, shell, toplevels, bound, monitors, pins>>

rebuild_windows(ms) ==
    /\ monitors' = ms
    /\ IF bound THEN bars' = build_windows(ms, by_id) ELSE UNCHANGED bars

MonitorAdded(o) ==
    /\ o \notin ToSet(monitors)
    /\ o \in outputs \/ Cardinality(outputs) >= MAX_OUTPUTS
    /\ rebuild_windows(Append(monitors, o))
    /\ UNCHANGED <<hooks, by_id, drawer, toplevels, bound, pins>>

\* global_remove reaches Gdk and wlhooks in the same dispatch.
output_remove_handler(o) ==
    /\ o \in outputs \/ o \in ToSet(monitors)
    /\ outputs' = outputs \ {o}
    /\ IF o \in ToSet(monitors)
       THEN rebuild_windows(SelectSeq(monitors, LAMBDA m : m # o))
       ELSE UNCHANGED <<monitors, bars>>
    /\ UNCHANGED <<windows, next_window_id, managers, by_id, drawer, toplevels, bound, pins>>

\* Without a window the click launches the app, and nothing changes here.
on_primary_click(p, a) ==
    LET n == Len(bars[p].window_ids[a])
        i == IF bars[p].cycle_idx[a] >= n THEN 0 ELSE bars[p].cycle_idx[a]
    IN  /\ n > 0
        /\ bars' = [bars EXCEPT ![p].cycle_idx[a] = (i + 1) % n]
        /\ UNCHANGED <<hooks, by_id, drawer, toplevels, bound, monitors, pins>>

pin_toggled(p, a) ==
    LET b == [bars[p] EXCEPT !.pinned = SymDiff(@, {a})]
    IN  /\ a \in bars[p].entries
        /\ pins' = b.entries \intersect b.pinned
        /\ bars' = [bars EXCEPT ![p] =
                       IF a \notin b.pinned /\ b.window_ids[a] = <<>>
                       THEN RemoveEntry(b, a) ELSE b]
        /\ UNCHANGED <<hooks, by_id, drawer, toplevels, bound, monitors>>

(***************************************************************************)
(* Specification.                                                          *)
(***************************************************************************)

TaskbarInit ==
    /\ windows = <<>> /\ next_window_id = 1
    /\ outputs = {} /\ monitors = <<>>
    /\ globals \in Compositors /\ managers = {} /\ opened = 0
    /\ bound = FALSE
    /\ by_id = <<>> /\ bars = <<>>
    /\ drawer = [live |-> {}, focused_id |-> 0, any_focused |-> FALSE]
    /\ pins \in SUBSET Apps
    /\ on = [id \in Ids |-> {}] /\ focus = 0 /\ pending = <<>>

WindowEvent(id) ==
    \/ SetTitle(id)
    \/ \E a \in Apps : SetAppId(id, a)
    \/ FocusChanges(id)
    \/ \E o \in Outputs : OutputEnter(id, o) \/ OutputLeave(id, o)
    \/ on_closed(id)

TaskbarNext ==
    \/ \E protocol \in globals : registry_global(protocol)
    \/ on_toplevel
    \/ \E id \in DOMAIN windows : WindowEvent(id)
    \/ FocusChanges(0)
    \/ set_activated
    \/ bind
    \/ \E o \in Outputs : output_handler(o) \/ MonitorAdded(o) \/ output_remove_handler(o)
    \/ \E p \in DOMAIN bars, a \in Apps : on_primary_click(p, a) \/ pin_toggled(p, a)

TaskbarSpec == TaskbarInit /\ [][TaskbarNext]_taskbar_vars

(***************************************************************************)
(* Properties.                                                             *)
(***************************************************************************)

Window   == [app_id : Apps \union {NoApp}, titled : BOOLEAN, activated : BOOLEAN,
             output : Outputs \union {NoOutput}, announced : BOOLEAN]
Toplevel == [app_id : Apps, output : Outputs \union {NoOutput}, activated : BOOLEAN]

\* Types; the next window of a click is always one of the entry's.
TaskbarTypeOK ==
    /\ DOMAIN windows \subseteq 1 .. next_window_id - 1
    /\ \A id \in DOMAIN windows : windows[id] \in Window
    /\ outputs \subseteq Outputs /\ Cardinality(outputs) <= MAX_OUTPUTS
    /\ \A id \in DOMAIN by_id : by_id[id] \in Toplevel
    /\ drawer \in [live : SUBSET Ids, focused_id : Ids \union {0}, any_focused : BOOLEAN]
    /\ bound => DOMAIN bars = Panels(monitors)
    /\ \A p \in DOMAIN bars, a \in Apps :
          LET n == Len(bars[p].window_ids[a])
          IN  bars[p].cycle_idx[a] \in 0 .. n /\ (n > 0 => bars[p].cycle_idx[a] < n)

\* wlhooks lists each window of the compositor once, over whichever protocols
\* it came; every taskbar shows exactly the announced windows that belong on
\* it, each once, under its own app and filed under the output that wlhooks
\* knows, and an entry stays exactly as long as it is pinned or has windows --
\* whatever came first, the window, its output, the panel or the pin.
TaskbarsFollowStore ==
    /\ Cardinality(DOMAIN windows) = opened
    /\ \A id \in DOMAIN by_id :
          windows[id].output # NoOutput => by_id[id].output = windows[id].output
    /\ bound =>
          /\ DOMAIN by_id = {id \in DOMAIN windows : windows[id].announced}
          /\ drawer.live = DOMAIN by_id
          /\ \A p \in DOMAIN bars : LET b == bars[p] IN
                /\ \A a \in Apps :
                      /\ ToSet(b.window_ids[a]) = {id \in DOMAIN by_id :
                             by_id[id].app_id = a /\ accepts(monitors, p, by_id[id])}
                      /\ IsInjective(b.window_ids[a])
                /\ b.entries = b.pinned \union {a \in Apps : b.window_ids[a] # <<>>}

\* When the events of a focus change are in, the window that the panel
\* underlines and the drawer's answer are those of the compositor, also after
\* the focused window closed or no window has the focus any more.
FocusAgrees ==
    bound /\ pending = <<>> =>
        /\ {id \in DOMAIN by_id : by_id[id].activated} = {focus} \ {0}
        /\ drawer.any_focused = (focus # 0)
        /\ focus # 0 => drawer.focused_id = focus

\* Pinned apps persist: pinning one app, on any panel, takes no other app out
\* of the file (panel.vala, load_pins and save_pins).
PinsPersist ==
    [][(\E p \in DOMAIN bars \intersect DOMAIN bars' : \E a \in Apps :
            a \in bars'[p].pinned \ bars[p].pinned) => pins \subseteq pins']_taskbar_vars
=============================================================================
