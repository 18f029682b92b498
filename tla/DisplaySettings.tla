--------------------------- MODULE DisplaySettings ---------------------------
(***************************************************************************)
(* The Display page of lumen-settings: the user edits a working copy of    *)
(* the monitors' layout, applies it on trial, and keeps it or lets a       *)
(* countdown take it back.  The page hears of a hotplug through a pump     *)
(* that runs once a second, and every other roundtrip of its client of     *)
(* wlr-output-management may bring the same news earlier.                  *)
(*                                                                         *)
(* A layout maps each monitor to [enabled, mode]; position and transform   *)
(* are part of the mode.  What Keep writes to disk is the subject of       *)
(* SessionRestore!Keep: the page never reads it back.  The table of heads  *)
(* has room here.                                                          *)
(***************************************************************************)
EXTENDS Naturals, FiniteSets

CONSTANTS
    Monitor,
    Modes,       \* the modes of each monitor
    NoMode,      \* current_mode = null
    Seconds      \* the countdown (15)

ASSUME ModesAssumption == \A m \in Monitor : NoMode \notin Modes[m]
ASSUME SecondsAssumption == Seconds \in Nat \ {0}

VARIABLES
    live,            \* compositor: the plugged monitors and their layout
    stale,           \* compositor: its serial is past the configuration's
    calm,            \* from here on nobody touches anything, and only a stale
                     \* configuration is refused
    heads,           \* client: connectors of s_heads, and s_set_sig of them
    reload_pending,
    baseline, working,
    sensitive,       \* the Apply button
    bar,             \* the confirmation bar with Keep and Revert
    countdown,       \* countdown_left, 0 without the source countdown_id
    asked            \* which caller waits in apply_all: "none", "apply", "revert"

compositor == <<live, stale, calm>>
page == <<baseline, working, sensitive, bar, countdown>>
vars == <<compositor, heads, reload_pending, page, asked>>

Entry(m) == [enabled : BOOLEAN, mode : Modes[m] \union {NoMode}]
IsLayout(l) ==
    DOMAIN l \subseteq Monitor /\ \A m \in DOMAIN l : l[m] \in Entry(m)

\* apply_all turns off what has no mode, whether it is enabled or not.
On(e)    == e.enabled /\ e.mode # NoMode
Shown(layout)  == [m \in DOMAIN layout |-> IF On(layout[m]) THEN layout[m].mode ELSE NoMode]

\* What a compositor may report: an enabled head has a current mode; one that
\* was off since before the page was built has none.
Reported ==
    UNION {{l \in [S -> UNION {Entry(m) : m \in S}] :
               /\ IsLayout(l)
               /\ \A m \in S : l[m].mode = NoMode => ~l[m].enabled}
           : S \in SUBSET Monitor}

Init ==
    /\ live \in Reported /\ DOMAIN live # {}
    /\ stale = FALSE /\ calm = FALSE
    /\ heads = DOMAIN live /\ reload_pending = FALSE
    /\ baseline = live /\ working = live
    /\ sensitive = FALSE /\ bar = FALSE /\ countdown = 0 /\ asked = "none"

(***************************************************************************)
(* The compositor and other clients.                                       *)
(***************************************************************************)

\* A hotplug, or wlr-randr or lumen-session at work.
OthersChange ==
    /\ ~calm
    /\ live' \in Reported
    /\ live' # live /\ stale' = TRUE
    /\ UNCHANGED <<calm, heads, reload_pending, page, asked>>

Settle ==
    /\ ~calm /\ calm' = TRUE
    /\ UNCHANGED <<live, stale, heads, reload_pending, page, asked>>

(***************************************************************************)
(* The client: a roundtrip brings the table up to date; the callback comes *)
(* when the set of connectors changed.                                     *)
(***************************************************************************)

\* mgr_done, on_outputs_changed
Refresh ==
    /\ heads' = DOMAIN live
    /\ reload_pending' = (reload_pending \/ heads # DOMAIN live)

\* start_output_watch
Pump ==
    /\ asked = "none"
    /\ Refresh
    /\ UNCHANGED <<compositor, page, asked>>

\* The configuration made of a layout: heads that are gone are skipped, and
\* those the layout does not name stay as they are.
Configured(layout) ==
    [m \in DOMAIN live |->
        IF m \notin DOMAIN layout \intersect heads THEN live[m]
        ELSE IF On(layout[m]) THEN layout[m]
        ELSE [enabled |-> FALSE, mode |-> live[m].mode]]

\* apply_all up to the request; a new serial
Send(caller) ==
    /\ asked' = caller /\ stale' = FALSE
    /\ Refresh
    /\ UNCHANGED <<live, calm>>

(***************************************************************************)
(* The page.                                                               *)
(***************************************************************************)

\* A slip: unsaved edits survive a hotplug.
ReloadKeepsEdits ==
    /\ asked = "none" /\ reload_pending
    /\ heads' = DOMAIN live
    /\ reload_pending' = (heads # DOMAIN live)
    /\ baseline' = live
    /\ working' = working
    /\ sensitive' = FALSE /\ bar' = FALSE /\ countdown' = 0
    /\ UNCHANGED <<compositor, asked>>

\* reload_outputs; enumerate's roundtrip may ask for the next reload.
Reload ==
    /\ asked = "none" /\ reload_pending
    /\ heads' = DOMAIN live
    /\ reload_pending' = (heads # DOMAIN live)
    /\ baseline' = live /\ working' = live
    /\ sensitive' = FALSE /\ bar' = FALSE /\ countdown' = 0
    /\ UNCHANGED <<compositor, asked>>

enabled_count == Cardinality({m \in DOMAIN working : working[m].enabled})

Edit ==
    /\ ~calm /\ asked = "none"
    /\ sensitive' = TRUE
    /\ UNCHANGED <<compositor, heads, reload_pending, baseline, bar, countdown, asked>>

\* A refused switch is set back, which counts as an edit too.
Toggle(m) ==
    /\ Edit /\ m \in DOMAIN working
    /\ working' = IF working[m].enabled /\ enabled_count <= 1 THEN working
                  ELSE [working EXCEPT ![m].enabled = ~@]

PickMode(m, mode) ==
    /\ Edit /\ m \in DOMAIN working /\ On(working[m])
    /\ working' = [working EXCEPT ![m].mode = mode]

Apply ==
    /\ ~calm /\ asked = "none" /\ sensitive
    /\ Send("apply")
    /\ UNCHANGED page

\* A refused configuration is shown in the same bar, and a countdown of an
\* earlier one goes on.
ApplyReturns(ok) ==
    /\ asked = "apply" /\ bar' = TRUE
    /\ IF ok THEN countdown' = Seconds /\ sensitive' = FALSE
             ELSE UNCHANGED <<countdown, sensitive>>
    /\ UNCHANGED <<baseline, working>>

Keep ==
    /\ ~calm /\ asked = "none" /\ bar
    /\ baseline' = working
    /\ sensitive' = FALSE /\ bar' = FALSE /\ countdown' = 0
    /\ UNCHANGED <<compositor, heads, reload_pending, working, asked>>

\* A slip: the clock of a layout that is taken back goes on.
RevertKeepsClock ==
    /\ Send("revert")
    /\ UNCHANGED page

\* on_revert up to the request
Revert ==
    /\ countdown' = 0
    /\ Send("revert")
    /\ UNCHANGED <<baseline, working, sensitive, bar>>

RevertClicked == ~calm /\ asked = "none" /\ bar /\ Revert

\* A slip: the last second only stops the clock.
TickOnlyStops ==
    /\ asked = "none" /\ countdown > 0
    /\ countdown' = countdown - 1
    /\ UNCHANGED <<compositor, heads, reload_pending, baseline, working, sensitive, bar, asked>>

Tick ==
    /\ asked = "none" /\ countdown > 0
    /\ IF countdown = 1 THEN Revert
       ELSE /\ countdown' = countdown - 1
            /\ UNCHANGED <<compositor, heads, reload_pending, baseline, working,
                           sensitive, bar, asked>>

\* the rest of on_revert, whatever the result
RevertReturns ==
    /\ asked = "revert"
    /\ working' = baseline
    /\ sensitive' = FALSE /\ bar' = FALSE
    /\ UNCHANGED <<baseline, countdown>>

\* The loop of config_apply ends.
Answered ==
    /\ asked # "none" /\ asked' = "none"
    /\ Refresh
    /\ \E ok \in {TRUE, FALSE} :
          /\ ok => ~stale
          /\ calm /\ ~stale => ok
          /\ live' = IF ~ok THEN live
                     ELSE Configured(IF asked = "apply" THEN working ELSE baseline)
          /\ stale' = (stale \/ ok)
          /\ ApplyReturns(ok) \/ RevertReturns
    /\ UNCHANGED calm

Next ==
    \/ OthersChange \/ Settle
    \/ Pump \/ Reload
    \/ \E m \in Monitor : Toggle(m) \/ \E mode \in Modes[m] : PickMode(m, mode)
    \/ Apply \/ Keep \/ RevertClicked \/ Tick
    \/ Answered

\* The main loop serves its timeouts and idle callbacks; the compositor answers.
Fairness == WF_vars(Pump) /\ WF_vars(Reload) /\ WF_vars(Tick) /\ WF_vars(Answered)

Spec == Init /\ [][Next]_vars /\ Fairness

(***************************************************************************)
(* Properties.                                                             *)
(***************************************************************************)

TypeOK ==
    /\ IsLayout(live) /\ stale \in BOOLEAN /\ calm \in BOOLEAN
    /\ heads \subseteq Monitor /\ reload_pending \in BOOLEAN
    /\ IsLayout(baseline) /\ IsLayout(working)
    /\ sensitive \in BOOLEAN /\ bar \in BOOLEAN
    /\ countdown \in 0 .. Seconds
    /\ asked \in {"none", "apply", "revert"} /\ (asked = "revert" => countdown = 0)

\* The page knows the monitors the client knows, or is about to read them
\* again: no roundtrip, not even one inside apply_all or inside a reload,
\* swallows a change of the set; and what a revert would send names the same
\* monitors as what the user edits.
KnowsMonitors ==
    /\ DOMAIN working = DOMAIN baseline
    /\ reload_pending \/ DOMAIN working = heads

\* A layout on trial can be kept or taken back as long as the clock runs.
BarWhileCounting == countdown > 0 => bar

\* "Don't allow disabling the last display", as far as the code ensures it: no
\* sequence of edits, trials, reverts and reloads leaves every display disabled.
\* An enabled display without a mode counts here, and apply_all turns it off.
SomeEnabled(layout) == \E m \in DOMAIN layout : layout[m].enabled
LastStaysEnabled == SomeEnabled(baseline) => SomeEnabled(working)

\* The parts of the page agree with one another and with the client.
PageInStep == KnowsMonitors /\ BarWhileCounting /\ LastStaysEnabled

\* A layout on trial that nobody answers is taken back, whatever was edited,
\* refused or plugged before: the page and the monitors return to the baseline,
\* the layout of before the trial unless a hotplug made the page read the
\* monitors again in between.
UnconfirmedReverts ==
    calm /\ countdown > 0 ~>
        countdown = 0 /\ working = baseline /\ Shown(live) = Shown(baseline)
=============================================================================
