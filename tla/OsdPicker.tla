------------------------------ MODULE OsdPicker ------------------------------
(***************************************************************************)
(* lumen-osd: the on-screen pill (volume, brightness, display chip) and    *)
(* the Super+P display picker, which share the primary window.  The picker *)
(* takes the keyboard, learns the live display mode from a child process,  *)
(* and hands the chosen mode to another child, lumen-osdctl, which applies *)
(* it and calls back into show().  Children answer in any order.  One GLib *)
(* callback of src/lumen-osd is one action.                                *)
(***************************************************************************)
EXTENDS Integers, Sequences, FiniteSets, SequencesExt

CONSTANTS
    Monitor,      \* the outputs that may be plugged in
    NoMonitor,    \* no output
    MaxSeeds,     \* bound: mode queries outstanding at once
    MaxApplies    \* bound: mode changes outstanding at once

ASSUME PickerMonitorAssumption == NoMonitor \notin Monitor
ASSUME PickerBoundAssumption == MaxSeeds \in Nat \ {0} /\ MaxApplies \in Nat \ {0}

ABORT_INDEX == 3                       \* the tile that dismisses
TILE_COUNT == 4
Modes == 0 .. ABORT_INDEX - 1          \* internal, extend, external
Unread == ABORT_INDEX                  \* a query that has not read the mode yet

VARIABLES
    active, saw_super, user_moved, index, last_index,   \* Picker
    dismiss,          \* idle-dismiss timeouts alive in the main loop
    hide,             \* auto-hide timeouts alive in the main loop
    grabbed,          \* the primary asks for exclusive keyboard focus
    view,             \* what the primary shows
    visible,          \* the primary is mapped
    primary_monitor, mirrors, lit,   \* OsdWindowGroup: lit = visible mirrors
    connected,        \* the outputs plugged in
    focused,          \* the compositor has given the primary the keyboard
    super_down,       \* the Super key is held
    mode,             \* the live display mode
    seeds,            \* --display-current children: Unread, or what they read
    applies,          \* --display-mode children not done yet
    chips             \* their show() calls on the bus

picker == <<active, saw_super, user_moved, index, last_index>>
primary == <<grabbed, view, visible>>
group == <<primary_monitor, mirrors, lit, connected>>
children == <<mode, seeds, applies, chips>>
vars == <<picker, dismiss, hide, primary, group, focused, super_down, children>>

TypeOK ==
    /\ {active, saw_super, user_moved, grabbed, visible, focused, super_down}
           \subseteq BOOLEAN
    /\ index \in 0 .. ABORT_INDEX /\ last_index \in Modes
    /\ dismiss \in Nat /\ hide \in Nat
    /\ view \in {"pill", "selector"}
    /\ primary_monitor \in Monitor \cup {NoMonitor}
    /\ mirrors \subseteq Monitor /\ lit \subseteq mirrors
    /\ connected \subseteq Monitor
    /\ mode \in Modes
    /\ seeds \in Seq(0 .. ABORT_INDEX) /\ Len(seeds) <= MaxSeeds
    /\ applies \in Seq(Modes) /\ Len(applies) <= MaxApplies
    /\ chips \in 0 .. MaxApplies

Init ==
    /\ active = FALSE /\ saw_super = FALSE /\ user_moved = FALSE
    /\ index = 0 /\ last_index = 0
    /\ dismiss = 0 /\ hide = 0
    /\ grabbed = FALSE /\ view = "pill" /\ visible = FALSE
    /\ connected \in SUBSET Monitor
    /\ \/ connected = {} /\ primary_monitor = NoMonitor
       \/ primary_monitor \in connected
    /\ mirrors = connected \ {primary_monitor} /\ lit = {}
    /\ focused = FALSE /\ super_down = FALSE
    /\ mode \in Modes
    /\ seeds = <<>> /\ applies = <<>> /\ chips = 0

------------------------------------------------------------------------------
(* Shared steps of the picker's handlers.  A timer that is cancelled is the *)
(* one whose source id is held; a timer whose id was lost stays alive.      *)

Cancelled(timers) == IF timers = 0 THEN 0 ELSE timers - 1

\* arm_dismiss, arm_hide: cancel, then add one
Arm(timers) == Cancelled(timers) + 1

\* the shared tail of commit and cancel: the pick is over
EndPick ==
    /\ active' = FALSE
    /\ dismiss' = Cancelled(dismiss)
    /\ grabbed' = FALSE /\ visible' = FALSE /\ focused' = FALSE

Cancel ==
    /\ EndPick
    /\ UNCHANGED <<saw_super, user_moved, index, last_index, view, applies>>

(* slip: the tile is remembered before the abort tile is looked at *)
CommitRemembersAbort(i) ==
    /\ EndPick
    /\ index' = i /\ last_index' = i
    /\ UNCHANGED <<saw_super, view>>
    /\ IF i = ABORT_INDEX THEN UNCHANGED applies
       ELSE Len(applies) < MaxApplies /\ applies' = Append(applies, i)

(* slip: the keyboard is not released when a mode is applied *)
CommitKeepsGrab(i) ==
    /\ active' = FALSE /\ dismiss' = Cancelled(dismiss)
    /\ visible' = FALSE /\ focused' = FALSE /\ UNCHANGED grabbed
    /\ index' = i
    /\ UNCHANGED <<saw_super, view>>
    /\ IF i = ABORT_INDEX THEN UNCHANGED <<last_index, applies>>
       ELSE Len(applies) < MaxApplies /\ applies' = Append(applies, i) /\ last_index' = i

\* commit() with tile i highlighted: the abort tile applies nothing
Commit(i) ==
    /\ EndPick
    /\ index' = i
    /\ UNCHANGED <<saw_super, view>>
    /\ \/ i = ABORT_INDEX /\ UNCHANGED <<last_index, applies>>
       \/ /\ i # ABORT_INDEX /\ Len(applies) < MaxApplies
          /\ last_index' = i
          /\ applies' = Append(applies, i)

(* slip: a move of the highlight forgets to re-arm *)
MoveToLosesTimer(i) ==
    /\ index' = i /\ user_moved' = TRUE /\ view' = "selector"
    /\ dismiss' = Cancelled(dismiss)
    /\ UNCHANGED <<active, saw_super, last_index, grabbed, visible, focused, applies>>

\* move_to(): refresh() shows the selector, the idle timer starts again
MoveTo(i) ==
    /\ index' = i /\ user_moved' = TRUE /\ view' = "selector"
    /\ dismiss' = Arm(dismiss)
    /\ UNCHANGED <<active, saw_super, last_index, grabbed, visible, focused, applies>>

------------------------------------------------------------------------------
(* Super+P: begin_picker on the bus                                         *)

Open ==
    /\ active' = TRUE /\ saw_super' = FALSE /\ user_moved' = FALSE
    /\ index' = last_index
    /\ view' = "selector" /\ grabbed' = TRUE /\ visible' = TRUE
    /\ lit' = {}                                     \* hide_mirrors
    /\ dismiss' = Arm(dismiss)
    /\ Len(seeds) < MaxSeeds /\ seeds' = Append(seeds, Unread)
    /\ UNCHANGED <<last_index, focused, applies>>

BeginPicker ==
    /\ super_down
    /\ hide' = Cancelled(hide)
    /\ \/ ~active /\ Open
       \/ active /\ MoveTo((index + 1) % TILE_COUNT) /\ UNCHANGED <<lit, seeds>>
    /\ UNCHANGED <<primary_monitor, mirrors, connected, super_down, mode, chips>>

------------------------------------------------------------------------------
(* The keyboard and the pointer.  Keys reach the primary only once the      *)
(* compositor has honoured the grab of a mapped window.                     *)

Elsewhere == <<hide, group, mode, seeds, chips>>

\* the compositor gives the keyboard; GTK reports the modifiers held
FocusIn ==
    /\ grabbed /\ visible /\ ~focused
    /\ focused' = TRUE
    /\ saw_super' = (saw_super \/ super_down)
    /\ UNCHANGED <<active, user_moved, index, last_index, dismiss, primary,
                   super_down, applies, Elsewhere>>

SuperDown ==
    /\ ~super_down /\ super_down' = TRUE
    /\ saw_super' = (saw_super \/ (active /\ focused))
    /\ UNCHANGED <<active, user_moved, index, last_index, dismiss, primary,
                   focused, applies, Elsewhere>>

\* the release comes as a key event, or only as a change of modifiers
SuperUp(asKey) ==
    /\ super_down /\ super_down' = FALSE
    /\ UNCHANGED Elsewhere
    /\ IF active /\ focused /\ (asKey \/ saw_super)
       THEN Commit(index) /\ UNCHANGED user_moved
       ELSE UNCHANGED <<picker, dismiss, primary, focused, applies>>

Key(k) ==
    /\ active /\ focused
    /\ \/ k = "Escape" /\ Cancel
       \/ k = "Left" /\ MoveTo((index - 1 + TILE_COUNT) % TILE_COUNT)
       \/ k = "Right" /\ MoveTo((index + 1) % TILE_COUNT)
       \/ k = "Return" /\ Commit(index) /\ UNCHANGED user_moved
    /\ UNCHANGED <<super_down, Elsewhere>>

Hovered(i) ==
    /\ active /\ visible /\ MoveTo(i)
    /\ UNCHANGED <<super_down, Elsewhere>>

Chosen(i) ==
    /\ active /\ visible
    /\ user_moved' = TRUE /\ Commit(i)
    /\ UNCHANGED <<super_down, Elsewhere>>

\* the idle timer fires: its source id is cleared first, so cancel() finds none
DismissTimeout ==
    /\ dismiss > 0
    /\ IF active THEN Cancel
       ELSE /\ dismiss' = dismiss - 1
            /\ UNCHANGED <<picker, primary, focused, applies>>
    /\ UNCHANGED <<super_down, Elsewhere>>

------------------------------------------------------------------------------
(* The children                                                             *)

SeedReads(i) ==
    /\ seeds[i] = Unread
    /\ seeds' = [seeds EXCEPT ![i] = mode]
    /\ UNCHANGED <<picker, dismiss, hide, primary, group, focused, super_down,
                   mode, applies, chips>>

\* seed_current_mode's callback: of whichever open() the answer is
SeedArrives(i) ==
    /\ seeds[i] # Unread
    /\ seeds' = RemoveAt(seeds, i)
    /\ IF ~active \/ user_moved THEN UNCHANGED <<index, view>>
       ELSE index' = seeds[i] /\ view' = "selector"
    /\ UNCHANGED <<active, saw_super, user_moved, last_index, dismiss, hide, grabbed,
                   visible, group, focused, super_down, mode, applies, chips>>

\* the child found no output, or could not run
SeedFails(i) ==
    /\ seeds' = RemoveAt(seeds, i)
    /\ UNCHANGED <<picker, dismiss, hide, primary, group, focused, super_down,
                   mode, applies, chips>>

\* lumen-osdctl --display-mode: applies, and shows a chip when it worked
ApplyEnds(i, worked) ==
    /\ applies' = RemoveAt(applies, i)
    /\ IF worked THEN mode' = applies[i] /\ chips < MaxApplies /\ chips' = chips + 1
       ELSE UNCHANGED <<mode, chips>>
    /\ UNCHANGED <<picker, dismiss, hide, primary, group, focused, super_down, seeds>>

------------------------------------------------------------------------------
(* The pill                                                                 *)

(* slip: a pill does not ask whether the picker is open *)
PresentOverPicker ==
    /\ view' = "pill" /\ visible' = TRUE /\ lit' = mirrors
    /\ hide' = Arm(hide)

\* show(): a pill never replaces the picker
Present ==
    \/ active /\ UNCHANGED <<view, visible, lit, hide>>
    \/ /\ ~active
       /\ view' = "pill" /\ visible' = TRUE /\ lit' = mirrors
       /\ hide' = Arm(hide)

\* a pill of another client (volume, brightness) or of a mode change
Show(ofApply) ==
    /\ Present
    /\ IF ofApply THEN chips > 0 /\ chips' = chips - 1 ELSE UNCHANGED chips
    /\ UNCHANGED <<picker, dismiss, grabbed, primary_monitor, mirrors, connected,
                   focused, super_down, mode, seeds, applies>>

\* do_hide: every window is unmapped, an unmapped one loses the keyboard
DoHide ==
    /\ visible' = FALSE /\ lit' = {} /\ focused' = FALSE
    /\ UNCHANGED <<picker, dismiss, grabbed, view, primary_monitor, mirrors,
                   connected, super_down, children>>

Hide == hide' = Cancelled(hide) /\ DoHide

HideTimeout == hide > 0 /\ hide' = hide - 1 /\ DoHide

------------------------------------------------------------------------------
(* Outputs come and go: OsdWindowGroup.reconcile                            *)

(* slip: the output that becomes the primary's keeps its mirror *)
ReconcileKeepsDouble(live) ==
    IF live = {} THEN mirrors' = {} /\ UNCHANGED primary_monitor
    ELSE /\ primary_monitor' \in
              IF primary_monitor \in live \cap connected THEN {primary_monitor} ELSE live
         /\ mirrors' = (mirrors \cap live) \cup (live \ {primary_monitor'})

\* the primary keeps its output while that lives, the rest carry a mirror; an
\* output that went and came back is another Gdk.Monitor
Reconcile(live) ==
    IF live = {} THEN mirrors' = {} /\ UNCHANGED primary_monitor
    ELSE /\ primary_monitor' \in
              IF primary_monitor \in live \cap connected THEN {primary_monitor} ELSE live
         /\ mirrors' = live \ {primary_monitor'}

MonitorsChanged(live) ==
    /\ live # connected /\ connected' = live
    /\ Reconcile(live)
    /\ lit' = lit \cap mirrors'                \* a new mirror starts hidden
    /\ UNCHANGED <<picker, dismiss, hide, primary, focused, super_down, children>>

Next ==
    \/ BeginPicker
    \/ FocusIn
    \/ SuperDown
    \/ \E asKey \in BOOLEAN : SuperUp(asKey)
    \/ \E k \in {"Escape", "Left", "Right", "Return"} : Key(k)
    \/ \E i \in 0 .. ABORT_INDEX : Hovered(i)
    \/ \E i \in 0 .. ABORT_INDEX : Chosen(i)
    \/ DismissTimeout
    \/ \E i \in DOMAIN seeds : SeedReads(i)
    \/ \E i \in DOMAIN seeds : SeedArrives(i)
    \/ \E i \in DOMAIN seeds : SeedFails(i)
    \/ \E i \in DOMAIN applies, worked \in BOOLEAN : ApplyEnds(i, worked)
    \/ \E ofApply \in BOOLEAN : Show(ofApply)
    \/ Hide
    \/ HideTimeout
    \/ \E live \in SUBSET Monitor : MonitorsChanged(live)

Spec == Init /\ [][Next]_vars

\* GLib runs the timers it holds
FairSpec == Spec /\ WF_vars(DismissTimeout) /\ WF_vars(HideTimeout)

------------------------------------------------------------------------------
(* Properties                                                               *)

(* The exclusive keyboard grab lasts exactly as long as the pick: grab_keyboard *)
(* and release_keyboard pair up on every way out (key, pointer, timer).         *)
GrabOnlyWhilePicking == grabbed <=> active

(* One idle-dismiss timer guards the grab and none outlives it, so a missed     *)
(* Super release cannot hold the keyboard and an old timer cannot end a new     *)
(* pick (arm_dismiss, cancel_dismiss).                                          *)
OneDismissTimer == dismiss = IF active THEN 1 ELSE 0

(* Grab and timer begin and end with the pick.                                  *)
PickBracketed == GrabOnlyWhilePicking /\ OneDismissTimer

(* Nothing of the pill touches an open picker: no hide timer runs under it, no  *)
(* mirror lights beside it, the primary shows the selector (show's and          *)
(* begin_picker's guards, hide_mirrors).                                        *)
PickerUndisturbed == active => hide = 0 /\ lit = {} /\ view = "selector"

(* Whatever is on screen has something pending that takes it off: the pick in   *)
(* progress or one hide timer.                                                  *)
NothingStaysOnScreen == (visible \/ lit # {}) /\ ~active => hide = 1

(* Nothing of the picker touches a pill on screen: the answer of a mode query   *)
(* that comes after its pick does not put the selector in the pill's place      *)
(* (seed_current_mode's test of active).                                        *)
PillUndisturbed == visible /\ ~active => view = "pill"

(* Pill and picker share the primary window without disturbing each other,      *)
(* whichever child or timer of an earlier pill or pick comes late.              *)
ScreenShared == PickerUndisturbed /\ PillUndisturbed /\ NothingStaysOnScreen

(* While an output is plugged in, each carries one window: the primary sits on  *)
(* a live output and every other output has a mirror (reconcile).               *)
OneWindowEach ==
    connected # {} => primary_monitor \in connected /\ mirrors = connected \ {primary_monitor}

(* A pick whose user is gone ends: once the highlight is no longer moved, the   *)
(* idle timer gives the keyboard back, even if the Super release was missed.    *)
Moving ==
    \/ BeginPicker
    \/ \E k \in {"Left", "Right"} : Key(k)
    \/ \E i \in 0 .. ABORT_INDEX : Hovered(i)
PickEnds == <>[][~Moving]_vars => (active ~> ~active)
==============================================================================
