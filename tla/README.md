# LumenShell in TLA+

A verification project for LumenShell (ExyShell): a desktop shell for the
Wayfire compositor, made of GTK4 programs in Vala, a C library of Wayland
bindings (`wlhooks`) and C++ Wayfire plugins. The modules are translated from
the source; the paths below are those of the repository.

`PROJECT.json` maps every definition to the lines it stands for, and lists the
runs, the mutants that show each property can fail, the hazards and the
theorems.

## The system

Every program is a process of its own with one GLib main loop. A callback --
a D-Bus call, a Wayland event, a timeout, an idle callback, a widget signal --
runs to its end before the next one, so *one callback is one atomic step* and
the hard part is the order in which callbacks come. The exceptions are the
worker threads (PAM, the radio services), child processes (`lumen-osdctl`,
`nmcli`, `pactl`) and the C library's nested event loops (`config_apply`).

| Component | State | Operations | What makes it correct |
|---|---|---|---|
| lumen-lockscreen `manager.vala` (+ `window`, `password`, `auth`, `pam_auth.c`, `idle`, `dbus`) | lock instance, `is_locked`, one window per monitor, `authenticating`, `failures`, hotplug handler, idle watch | lock from the bus, logind, idle or sleep; granted, failed, unlocked; password, PAM verdict, back-off; hotplug | a locked session is covered on every output with one password card; the field is never dead; all watches agree with `is_locked` |
| lumen-common `logind.vala` | delay inhibitor | PrepareForSleep, take and release | re-armed for each sleep, never outlives the handler; the lock is up before the machine sleeps |
| lumen-notifications | store, expiry sources, active and leaving banners, cascades, window | Notify, replace, CloseNotification, expire, click, action, clear all | one timer and one NotificationClosed each; the window is there exactly when something is shown |
| lumen-polkit-agent | one flow per request: session, attempts, dialog, suspended coroutine | run, submit, cancel, change identity; completed, prompt; CancelAuthentication | returns once with the verdict PAM gave; the dialog is never left dead |
| lumen-osd (+ lumen-osdctl) | picker, dismiss and hide timers, primary window and mirrors, children | Super+P, keys, pointer, Super release, pill show and hide, seed and apply children, hotplug | the keyboard grab is always given back; pill and picker do not disturb one another |
| lumen-session, wlhooks `output_management.c`, `display_profiles.vala` | head table and signature, `restore_queued`, the remembered sets | head, finished, done; idle restore; refresh, apply; Keep | a set that is remembered gets its layout; no change lost; no apply/done loop |
| wlhooks `window_list.c`, `wlr_toplevel.c`, `ext_toplevel.c`, `output.c`; lumen-panel `toplevels.vala`, `panel.vala`, `app.vala`, `main.vala`; lumen-drawer `toplevels.vala` | bound protocols, list of windows, output table; window store, one taskbar per panel, pins; focus | binding, toplevel and handle events, registration and replay, monitors, click, pin | a window is listed once, whichever protocols tell of it; each taskbar lists exactly its windows; panel and drawer agree with the compositor on the focus; pins persist |
| lumen-common wifi, bluetooth, sound, radio | last polled state, running commands | poll, set, scan, connect | a stale answer does not overwrite a newer choice |
| lumen-settings `display_page.vala`, `output_manager.vala` | baseline and working layout, Apply button, confirmation bar, countdown, pending reload | edit, apply, keep, revert, tick, pump, reload | an unconfirmed layout is reverted; the page knows the monitors; the last display stays enabled |
| lumen-settings: stores and other pages | ini and json files | edit, save | edits of others survive a save |
| wayfire-plugins curtain-peek, slide-peek; lumen-drawer; lumen-settings `drawer_page.vala` | reveal state, hook, activation, overlay nodes, disabled nodes, remembered views; search, results, pages, dots, reload timer; the plugins list | toggle, dismiss, frame, cancel, load and unload; keys, launch, app and focus changes, restart | nodes and layers are given back on every way out; the drawer's parts stay in step; it never reopens mid-search |
| wayfire-plugins desktop-peek, panel-push, startup-zoom, night-light; lumen-panel `panel_window.vala` | per output: state, tracked views, hook, activation, transformers, tint node; `enabled`; reveal target, slide and collapse timers | toggle, start and stop over the socket, frame, grace time, view signals, cancel, init and fini; pointer enters and leaves | what an effect holds it gives back on every way out; every animation ends; the panel goes back; nothing runs that its user cannot end |
| lumen-desktop, lumen-lockctl, decoration | files, widgets | | little protocol |

## Modules

| Module | Models | Uses |
|---|---|---|
| `SessionLock` | what a session lock promises to its observers (abstract) | |
| `LockManager` | the lock state machine of lumen-lockscreen | refines `SessionLock` |
| `LockSleep` | `LockManager` composed with the logind bridge and logind | extends `LockManager` |
| `Notifications` | lumen-notifications | |
| `AuthFlow` | one flow of lumen-polkit-agent | |
| `OsdPicker` | lumen-osd's service, picker and windows, with the lumen-osdctl children | |
| `SessionRestore` | lumen-session, the wlhooks client it runs and the compositor | |
| `Taskbar` | the running windows in wlhooks, the panel's taskbars and the drawer's focus watcher | |
| `PeekScene` | one output's scene as the reveal plugins use it (external) | |
| `CurtainPeek`, `SlidePeek` | the two reveal plugins on one output | `PeekScene` |
| `LumenDrawer` | the drawer's window: search, pages, reload | |
| `DrawerReveal` | the drawer, both plugins, the settings page and the launcher together | the four above |
| `OutputScene` | Wayfire's outputs and views, and what plugins hold of them (external) | |
| `DesktopPeek`, `PanelPush`, `StartupZoom`, `NightLight` | the effect plugins, one instance per output | `OutputScene` |
| `OutputEffects` | the four plugins over the views they share, loading, hotplug, and the panel that drives panel-push | the five above |
| `DisplaySettings` | the Display page with its client of wlr-output-management and the compositor | |
| `MC*` | TLC instances (symmetry where a run has no liveness) | |
| `*Proofs` | theorems and their proofs | |

### LockManager, LockSleep

Main-loop callbacks are the actions `LockRequested`, `Idled`, `OnLocked`,
`OnFailed`, `UnlockRequested`, `Submit`, `PamAccepts`, `PamRejects`,
`BackoffExpires` and `MonitorsChanged`; `PamReturns` is the worker thread,
which only queues its verdict. `on_unlocked` is emitted by the library inside
`unlock()`, so it is part of the action that unlocks. `instance` is the library
object: `null`, `requested` (no answer yet) or `held`. `windows` keeps, for each
monitor, the role of its window and what the card shows (`sensitive`,
`status`). `pam` and `backoffs` are counters of workers, queued verdicts and
pending timeouts, so that those of an earlier lock can meet a later one.
A lock that the compositor ends is `Finished`. `LockSleep` adds the
inhibitor, logind's state and the queue of `PrepareForSleep` signals; while the
machine sleeps the process takes no step.

### Notifications

Ids are given in order; `sources[id]` counts the timeouts that exist and
`expire_source[id]` says whether the notification knows one, so a lost source is
visible. `by_id` are the active banners, `leaving` the ones whose revealer runs.
A cascade is a sequence of ids that its repeating timeout works through; several
may run. `closed[id]` counts `NotificationClosed` signals (a history variable).

### AuthFlow

`run` is the coroutine (`new`, `suspended`, `returned`), `returns` how often it
came back to the listener. The helper of `PolkitAgent.Session` is external:
it asks, accepts, or denies. Cancelling a session emits `completed(FALSE)`
inside the call, and so does `initiate()` when the helper cannot be started
(`SpawnMayFail`); the re-entry into `on_completed` and `finish` is part of the
action.

### OsdPicker

The picker's fields, the two GLib timers as counters of live sources, the shared
primary window (`view`, `visible`, `grabbed`), the mirrors that are lit, and the
children: a query that has started, has read the mode, and is then delivered,
and an apply that takes its time. `ABORT_INDEX` and the tiles are those of the
code. Keys arrive only while the compositor has given the focus.

### SessionRestore

`wire` holds the events the compositor has sent and the client has not dispatched, in
order. `do_restore` says where the idle callback is: `RestoreStarts` enters its refresh,
a roundtrip that ends when the compositor's answer has come through the wire behind all
that was sent before (`CompositorSyncs`, `RefreshEnds`); `RestoreLooksUp` is the rest up
to the apply request, and `ApplyReturns` the end of the second roundtrip. Meanwhile the
loop is blocked and only `Dispatch` (nested, `done` events) can happen. A configuration
is cancelled if the compositor's serial moved on or a `done` was still unread (`stale`).
`slots` counts the head slots ever taken. `calm` says that other clients keep away from
layouts and profiles from here on. A Keep between look-up and answer overwrites the
profile the configuration was made of (`outdated`), so an apply that succeeds then does
not bring the remembered layout.

`Restored` starts from a change of the set that the client has seen (`restore_queued`)
or has still to see, at a moment when `calm` holds; hotplugs may go on after it. Once
the set stays, it asks for the remembered layout *from some point on*, so a moment with
that layout before the last hotplug does not count. A change that was looked up before
calm is not in its premise: its apply may have been cancelled by someone else's change,
and a cancelled apply is not repeated (findings). The mutant leaves out the refresh of
`do_restore`: a change of another client, still unread, then cancels the last apply.

### Taskbar

`windows` and `outputs` are the tables of wlhooks, `by_id` the panel's store,
`bars` the taskbar of each panel (pinned apps, entries, the windows of each
entry in order, the next window of a click), `drawer` the drawer's watcher.
`globals` are the toplevel protocols the compositor has, `managers` those wlhooks
has bound; with both, `ext_toplevel.c` gives way (`wlr_toplevel_available`), so no
window is listed twice, and with the second alone no focus and no output is known. A
Wayland event with all callbacks it causes is one action; `bind` is the
registration with its replay, at any time after the first events. A focus change
is two state events in either order (`pending`); before they are dispatched the
shell may lag, which is why `FocusAgrees` waits for them. A window that closes
while it has the focus reports nothing. A panel is named by the connector of its
monitor (`NoOutput` when there is one panel for all); a hotplug rebuilds every
taskbar from the store and the pins file. `AnyOrder` allows focus and output
events before a window is named, which Wayfire does not send. The order in which a
hash table replays its windows is left open. The names `TaskbarSpec`, `TaskbarNext`
and so on carry a prefix because `WlhooksProofs` extends this module and
`DisplaySettings`, the two users of wlhooks, together.

### PeekScene, CurtainPeek, SlidePeek, LumenDrawer, DrawerReveal

`off` are the disabled scene nodes (views and layers), `overlays` the nodes and
transformers the plugins added. `curtain` and `slide` are the plugin instances;
`desktop` and `widget` say whether `desktop_view` and `widget_view` are set, which
matters because a disabled view is not found again (`curtain-peek.cpp:423`).
Enabling is taken as idempotent, as `slide-peek.cpp:615` ("defensively re-enable")
and `fini` presuppose. A refused activation and a failed capture undo themselves
within the call and are no steps. One output is modelled: the plugins keep nothing
across outputs, and a request that is routed to another one is the second
alternative of `CloseReveal`, or no step. A request over the socket waits for its
reply, so it is part of the caller's step; the focus comes back late, through `news`.

In `LumenDrawer`, clearing the entry emits `search_changed` at once and typing emits
it later (`pending`), as GTK's search entry does; `reset_view` therefore includes
`sync_query`. A swipe of the carousel is a turn to any page. After a crash or a
hotplug the window is built anew (`Activate`, `RebuildWindows`).
`ChooseStyle` and `StyleSecondWrite` are the two `set_enabled` calls. With
`ReadsBetween` Wayfire may read the file between them and load both plugins, against
"only one is ever loaded at a time" (`drawer_page.vala:44`): `RevealBracketed` then
fails, for both may reveal at once and each undoes the other's layers. The run
assumes that it does not. Widgets that map during a reveal stay visible, for
`on_view_mapped` looks at the grid only.

### OutputScene, DesktopPeek, PanelPush, StartupZoom, NightLight, OutputEffects

`held` is the set of everything the plugins hold of the compositor: frame hooks,
activations, the tint node, transformers on views, each with its plugin and output.
An instance is its state with the views it tracks; a frame of the animation counts
only when it is the last. A view is on one output, a window may move to another or
be minimized while it is tracked; `ViewMaps` and `ViewUnmaps` reach every plugin
that listens. `Unplug` ends the instances of an output before its windows move on,
`UnloadPlugin` all instances of a plugin. NightLight's `enabled` belongs to the
plugin, not to an output. The panel has its pointer, `reveal_target`, the slide and
the collapse timer; `set_reveal` returns early when nothing would change, and the
verb it sends over the socket reaches the instance of the active output, which need
not be the panel's own. A refused verb does nothing, and the panel does not ask again;
a start is refused outside IDLE, with nothing to push, or by `activate_plugin`.

### DisplaySettings

A layout maps each monitor to `[enabled, mode]`; `apply_all` turns off what has no
mode (`On`). `live` is the compositor's layout, `stale` says that its serial is past
that of the configuration, `heads` is what the client knows. `Refresh` is any
roundtrip of the client: it may ask for a reload, which runs as an idle callback.
`Apply`, `Revert` and the last `Tick` send a configuration and wait in the loop of
`config_apply` (`asked`); `Answered` ends it and does the rest of the handler.
A refused configuration is shown in the same bar as a trial and does not touch a
countdown that runs. What Keep writes is `SessionRestore!Keep`'s subject: the page
never reads it back. `calm` says that from here on nobody interferes.

## Runs

| Run | Checks | Bounds |
|---|---|---|
| `lock` | `TypeOK`, `OneWindowPerOutput`, `InputNotStuck`, `BookkeepingAgrees`, `InhibitorInStep`, `InputComesBack`, `ImplementsSessionLock` | 3 monitors, 4 failures (one past the threshold of 3), 2 back-offs, sleeps while fewer than 3 signals wait |
| `sleep_race` | `LockMappedBeforeSleep` is violated | 1 monitor |
| `notifications` | `TypeOK`, `OneTimerEach`, `WindowMatchesStack`, `ClosedExactlyOnce`, `EverythingEnds` | 3 notifications, 2 replacements, 2 cascades at once, threshold 1 |
| `auth` | `TypeOK`, `FlowInStep`, `VerdictIsRight`, `BusyEnds` | 3 identities, the 3 attempts of the code |
| `auth_spawn` | `ReturnsOnce` is violated when the helper cannot start | the same |
| `picker` | `TypeOK`, `PickBracketed`, `ScreenShared`, `OneWindowEach`, `PickEnds` | 2 monitors, 2 queries and 1 apply at once: an answer of one pick meets the next |
| `session` | `TypeOK`, `SetChangeNeverLost`, `HeadsKnownUntilFull`, `Quiesces`, `Restored` | 2 monitors, 3 head slots (so that the table fills), 2 events from outside in flight |
| `taskbar` | `TaskbarTypeOK`, `TaskbarsFollowStore`, `FocusAgrees` | 2 apps, 2 outputs, 2 windows, each set of protocols: two windows of one entry, and a window that moves while panels come and go |
| `taskbar_pins` | `PinsPersist` is violated | the same with 1 window |
| `reveal` | `TypeOK`, `RevealBracketed`, `DrawerInStep`, `CleanWhenCovered` | 3 apps on pages of 2 and one change of the apps, so that the number of pages changes; 1 query and 1 window; 2 choices of the style, there and back |
| `effects` | `TypeOK`, `HeldWhileRunning`, `NothingStranded`, `EffectsEnd` | 2 outputs, 2 windows and the panel; each plugin in turn |
| `display` | `TypeOK`, `PageInStep`, `UnconfirmedReverts` | 2 monitors, one with two modes; a countdown of 2; any of them may never have been on |

In `effects` one plugin is listed at a time. Instances of two plugins share no state
but the views, which no plugin changes, and `held`, in which each owns its part; so
what a second plugin adds is the product of the two. Two windows let a peek
lose one and go on, then lose the last; a second output receives the windows of the
one that is unplugged. Layer surfaces other than the panel differ from windows only
in what desktop-peek takes, and the set is empty. In `display` a
countdown of 2 has a tick that counts and one that ends.

Several properties are conjunctions of named parts, so that one run of TLC asks one
question: `InhibitorInStep` (`InhibitorRearmed`, `SleepNotHeldUp`), `EverythingEnds`
(`TimedNotificationsClose`, `WindowHides`), `PickBracketed`, `ScreenShared`,
`PageInStep`, `NothingStranded`, `EffectsEnd`.

Two monitors are enough to lose the primary to another one, three to have two
left. Counters are bounded in the guards of the user's actions only, so a
bound never hides what the program does with what is already there.
The mutants of `PROJECT.json` are the definitions named as slips in the modules:
each is a plausible bug, and each property is violated by its own.

Deadlock is checked except in the runs of `AuthFlow`: a flow that has returned is over.

### Fairness

Weak fairness on what the main loop does with a due callback (timeouts, idle callbacks,
queued verdicts), on worker threads that return, and on external parties that answer
(the compositor; a polkit helper that was given an answer). Frames of an effect come
because each plugin damages its output in every frame it draws; startup-zoom does so
only while it tracks a view, and fairness is assumed of it no further (`ZoomAnimates`):
a zoom that has lost its last view reaches DONE with whatever frame its output has next,
which is not claimed. That a fade of night-light ends assumes that nobody toggles it
again within the fade for ever. The pump, the idle reload and the countdown of the
Display page, the collapse delay and the slide of the panel are sources of their main
loops. None on users, hotplug, other clients or callers on the bus. In `LockSleep` the
process is frozen during a sleep, again and again, so fairness there is strong: a
machine wakes up, and what is due between two sleeps is done.

## Findings

1. `sleep_race`: the delay inhibitor is released with the lock request in flight
   (`manager.vala:65`), against the purpose `logind.vala:14` states.
2. `auth_spawn`: `auth_flow.vala:79` resumes and returns twice when the polkit
   helper cannot be started.
3. `taskbar_pins`: `save_pins` of one panel overwrites the pins of another
   (`lumen-panel/src/components/panel.vala:266` against `:248`).

Met on the way, without a run of its own: a quick tap on Super+P applies the last
mode picked here when it is faster than the query (`picker.vala:124` against `:87`);
the head table is never reclaimed (`output_management.c:202`, which is why the run
speaks of `HeadsKnownUntilFull`); and `ToplevelStore.on_output` is told an
empty name when a window leaves an output (`window_list.c:111`), so it never
clears the window's output (`toplevels.vala:88`); the next enter repairs it.
Further:

* A cancelled apply of lumen-session is never tried again before the set changes once
  more (`lumen-session/src/main.vala:182` against `:6`), so a remembered layout may
  stay unapplied after an interference in the middle of a restore; `Restored` speaks of
  the changes of the set that come, or wait to be handled, when interference is over.
* A reveal closed by its binding, with no window to take the focus, reports no focus
  change, and the drawer opens with its old search (`lumen-drawer/src/window.vala:177`
  says it "never reopens mid-search").
* The Display page counts a display that is on but has no mode (`enabled_count`), which
  `apply_all` turns off. A display that was off since before the page was built has none;
  it is toggled on, the other one may then be toggled off past the comment "Don't allow
  disabling the last display" (`display_page.vala:163`), and Apply turns both off until
  the countdown reverts. The run contains this sequence. `LastStaysEnabled` is what the
  code does ensure: one display stays *enabled*, with or without a mode.
* night-light's `enabled` "keeps all outputs in lockstep so toggle stays consistent"
  (`night-light.cpp:299`). With two outputs, of which the second was plugged in while the
  first was tinted, it does not: when the first is unplugged nothing is tinted and
  `enabled` is still TRUE. The toggle then asks every instance to stop, all refuse, and
  `set_all` leaves `enabled` as it is (`night-light.cpp:308`): the toggle has no effect
  until somebody sends a start. `NothingStranded` states the other direction only.
* The answer of a mode query is not tied to the pick that asked: one of an earlier pick
  may set the first highlight of the next (`picker.vala:216`), until the user moves it.
* Keep after a refused Apply persists a layout that was never shown, and so do edits
  made while the bar is up: `on_keep` saves `working`, not what was applied
  (`display_page.vala:279`). A hotplug during a trial makes the unconfirmed layout the
  baseline (`reload_outputs`).
* When the pointer returns to the panel while the scene slides back, panel-push refuses
  the start (`panel-push.cpp:210`) and nobody asks again: the panel is revealed over the
  unpushed scene, against "instead of overlapping anything" (`panel_window.vala:14`).

## Proofs

For every value of the constants, checked by TLAPS:

* `LockManagerProofs`. `IInv` is the conjunction of the type invariant and the
  six invariants of the component; it is inductive. `OneWindowPerOutput` alone is
  not: that a hotplug reconciles needs `BookkeepingAgrees` (the handler is
  connected exactly while locked), and that a card is never left dead needs
  `OnePamWorker` (a verdict that comes back finds `authenticating` set once).
  `Reconcile` and `OnAuthFail` get lemmas of their own; the proof of the
  step has one case per action. `Refinement` shows the initial states and every
  step of `LockManager`, under `IInv`, to be those of `SessionLock` or to stutter.
  The second part is about `LockSleep`: `InhibitorCorrect` needs `LastWord` (the queue of
  signals ends with logind's last announcement, and an empty queue leaves the inhibitor
  as that one asked); `SleepKeepsLock` shows that a step of the composition is one of
  `LockManager`, so that all of the above holds across sleeps (`SleepRefinement`).
* `NotificationsProofs`. `TimersCorrect`, `SignalsCorrect` and `WindowCorrect`. Their
  common step is `GoesAway`, an open notification that goes with its timer, one signal
  and its banner; a cascade needs no invariant, for `close()` ignores what is not open.
  `TypesCorrect` does need one of its own: a snapshot lists ids in order (`SnapshotTypes`,
  by ranks), and what a step takes off a cascade leaves a list of ids (`TailLeft`).
* `AuthFlowProofs`. `TypesCorrect` and `VerdictCorrect` always; `FlowCorrect` when the
  helper can be started (`~SpawnMayFail`; without that `ReturnsOnce` is false, see the
  findings). By the phases of the coroutine; `SpendsAttempt` is what a denial and an
  identity change share.
* `OsdPickerProofs`. The grab, the dismiss timer and `active` move together
  (`PickIsBracketed`); from that, the sharing of the window (`ScreenIsShared`);
  also against answers that come after their pick; and independently the cover of the
  outputs (`OutputsCovered`). `TypesCorrect` says that no timer is cancelled twice and
  only a mode is ever applied.
* `SessionRestoreProofs`. `NoSetChangeLost` rests on `HandleSchedules`: an event after
  which no restore is pending has left the set as it was. `TableIsRight` is about the
  quiet state only; its strengthening `TableFollows` says what holds while events are
  under way: for every monitor the last event on the wire that mentions it tells the
  truth about it, and the table does if none does. `Appended` and `Taken` are the two
  ends of the wire; `HandleBounds` says that while a slot stays free nothing was dropped,
  which is also where the bound of the table comes from (`TypesCorrect`).
* `WlhooksProofs`, the two users of wlhooks. The Display page: `TypeCorrect`, and
  `PageCorrect` for any monitors. With the types `PageInStep` is inductive: a roundtrip
  that learns of another set asks for the reload in the same step, whoever made it, and a
  reload makes baseline and working one. `ToggleLeavesOne` is the step of the Enabled
  row, from `enabled_count > 1` to another display that is enabled (`AnotherIsEnabled`).

  The taskbars: `TaskbarInv` is inductive and rests on nothing but the modules'
  assumptions. It says that the tables of wlhooks are what they must be (`Hooks`), that
  the store has the windows that were announced (`Announced`), that each taskbar shows
  the store (`ShellAgrees`), what is known of a window that has an output or the focus
  (`Known`), and in which shapes a focus change can be half told (`FocusMoves`:
  `Settled`, `Gaining`, `Losing`, `Passing`). The argument climbs the code's own calls:
  what an id taken off, appended to or replayed into a list does to it (`RemovedOnce`,
  `AppendedOnce`, `ReplayedOnce`), hence to a taskbar (`AddedWindow`, `RemovedWindow`,
  `MarkedFocused`, `BuiltBar`), to all taskbars for each signal of the store, and to the
  whole shell for each callback of wlhooks. `TaskbarTypesCorrect` and `BarsShowStore`
  hold for events in any order. `TaskbarsCorrect` and `FocusCorrect` assume that a
  window is named before its focus and its outputs are told (`~AnyOrder`), as the run
  does: what comes before a window has its details is kept by wlhooks and not told to
  the shell with them.
* `OutputEffectsProofs`. `TypesCorrect`; `HoldsOnlyWhileRunning`, by the phases of each
  of the four effects (what a step takes or gives back is exactly what its phase asks
  for, on its own output, and leaves the other instances' holdings alone); and
  `StrandsNothing`: a peek keeps a window (`DroppedStep`), and a tint knows itself
  enabled, for which an unload must meet every instance there is.
* `DrawerRevealProofs`. `RevealIsBracketed` needs `World` (what is hooked, active, held
  and covered follows the phase of the one plugin that is loaded) and `Settled` (which
  plugin that is, and what it hides). It assumes `~ReadsBetween`: when Wayfire reads the
  list of plugins between the two writes of the settings page, both reveals are loaded
  and do disturb one another (`drawer_page.vala:58`; see the hazards). `DrawerStaysInStep`
  and `TypesCorrect` do not assume it: `InDrawer` relates catalogue, pages, search and
  the one page that is shown, in every state and not only while the drawer runs.

The assumptions are the `ASSUME`s of the modules (a null monitor is no monitor,
bounds are numbers); TLC evaluates them in every run.

So every invariant that a passing run checks is stated by a
theorem, and so is the refinement of `SessionLock`. Only model-checked: liveness under
fairness (`InputComesBack`, `EverythingEnds`, `BusyEnds`, `PickEnds`, `Quiesces`, `Restored`,
`CleanWhenCovered`, `EffectsEnd`, `UnconfirmedReverts`), which with ENABLED and
induction over data is out of the prover's reach.

## Not modelled

Drawing, themes, fonts, icons and animation curves; parsing and formatting; start-up and
bus-name ownership; packaging; dragging taskbar entries (their order); a panel's tray,
and its modes besides push; the display arranger and the files that Keep writes; the
seat; the accessors in the generated protocol code. The prose a notification carries,
the password and the geometry of outputs are abstracted to what the properties tell
apart. A PAM verdict of an earlier lock may be applied to a later one, a session may be
started for a flow that is done, and the D-Bus `hide` may leave an open picker
invisible: the models contain these behaviours and no property speaks of them, for the
repository says nothing about them.

## Plan

Done in this order: the lock (the most important promise of the shell), sleep,
notifications, polkit, picker, session restore, taskbar, drawer and its reveal, the
effect plugins with the panel in push mode, both toplevel protocols, the Display page.
Next:

1. The polled services: wifi, bluetooth, sound and the radio state they share,
   with their worker threads.
2. `DisplaySettings` composed with `SessionRestore` over one compositor; the ini and
   json stores.
3. Status notifier items of the panel.

A module for any of these would come with its invariants and their proof, as the present
ones do; what liveness adds stays with TLC.
