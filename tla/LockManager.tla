---------------------------- MODULE LockManager ----------------------------
(***************************************************************************)
(* The lock state machine of lumen-lockscreen (manager.vala), with the     *)
(* password card (widgets/password.vala), the PAM worker (auth.vala), the  *)
(* idle watcher (idle.vala over wlhooks' idle_notify.c) and the bus face   *)
(* (dbus.vala).                                                            *)
(*                                                                         *)
(* Everything but the PAM worker runs on one GLib main loop: a callback is *)
(* one atomic step, and callbacks interleave freely.  What happens outside *)
(* the loop -- the compositor's answer to a lock request, the PAM stack,   *)
(* monitors coming and going, the user, the bus -- are steps of their own. *)
(***************************************************************************)
EXTENDS Naturals

CONSTANTS
    Monitor,        \* the Gdk.Monitor objects that can be in the display's list
    NoMonitor,      \* a null primary_monitor
    IdleAvailable,  \* IdleWatcher.available /\ timeout_ms # 0
    MaxFailures,    \* bound: no password is submitted past this many failures
    MaxBackoffs     \* bound: nor with this many back-off timers pending

ASSUME MonitorAssumption == NoMonitor \notin Monitor
ASSUME IdleAssumption    == IdleAvailable \in BOOLEAN
ASSUME BoundAssumption   == MaxFailures \in Nat /\ MaxBackoffs \in Nat

VARIABLES
    instance,           \* the GtkSessionLock.Instance: "null", "requested" or "held"
    is_locked,
    windows,            \* the HashTable<Gdk.Monitor, LockWindow>
    primary_monitor,    \* may name a monitor that is gone
    monitors_handler,   \* how many items_changed handlers are connected
    authenticating,
    failures,
    connected,          \* the display's monitor list (external)
    armed,              \* an idle notification is registered
    pam,                \* the PAM workers: running, or their verdict is queued
    backoffs,           \* pending back-off timeouts
    announced           \* the last signal LockService sent on the bus

lockVars    == <<instance, is_locked, announced>>
windowVars  == <<windows, primary_monitor>>
authVars    == <<authenticating, pam>>
backoffVars == <<failures, backoffs>>
vars == <<lockVars, windowVars, monitors_handler, authVars, backoffVars,
          connected, armed>>

-----------------------------------------------------------------------------
(* One LockWindow per output: its role, and the state of its password      *)
(* field (is it sensitive, what does the status line show).                *)

Window == [role : {"none", "clock", "card"},
           sensitive : BOOLEAN,
           status : {"none", "busy", "error"}]

NoWindow  == [role |-> "none",  sensitive |-> FALSE, status |-> "none"]
ClockOnly == [role |-> "clock", sensitive |-> FALSE, status |-> "none"]
NewCard   == [role |-> "card",  sensitive |-> TRUE,  status |-> "none"]

NoWindows == [m \in Monitor |-> NoWindow]

Pam == [running : Nat, ok : Nat, failed : Nat]

TypeOK ==
    /\ instance \in {"null", "requested", "held"}
    /\ is_locked \in BOOLEAN
    /\ windows \in [Monitor -> Window]
    /\ primary_monitor \in Monitor \cup {NoMonitor}
    /\ monitors_handler \in {0, 1}
    /\ authenticating \in BOOLEAN
    /\ failures \in Nat
    /\ connected \subseteq Monitor
    /\ armed \in BOOLEAN
    /\ pam \in Pam
    /\ backoffs \in Nat
    /\ announced \in {"Locked", "Unlocked"}

Init ==
    /\ instance = "null"
    /\ is_locked = FALSE
    /\ windows = NoWindows
    /\ primary_monitor = NoMonitor
    /\ monitors_handler = 0
    /\ authenticating = FALSE
    /\ failures = 0
    /\ connected \in SUBSET Monitor
    /\ armed = IdleAvailable
    /\ pam = [running |-> 0, ok |-> 0, failed |-> 0]
    /\ backoffs = 0
    /\ announced = "Unlocked"

-----------------------------------------------------------------------------
(* Per-output windows.                                                     *)

(* current_primary() is a window with a password field.                    *)
HasCard == primary_monitor # NoMonitor /\ windows[primary_monitor].role = "card"

SetCard(sensitive, status) ==
    windows' = [windows EXCEPT ![primary_monitor].sensitive = sensitive,
                               ![primary_monitor].status = status]

(* The window of monitor m when p is the primary: an existing one is kept  *)
(* unless its role changed.                                                *)
WindowFor(m, p) ==
    LET fresh == IF m = p THEN NewCard ELSE ClockOnly
    IN  IF windows[m].role = fresh.role THEN windows[m] ELSE fresh

(* slip: windows of monitors that are gone are kept                        *)
ReconcileKeepsGone(live) ==
    IF live = {}
    THEN UNCHANGED windowVars
    ELSE \E p \in live :
           /\ primary_monitor \in live => p = primary_monitor
           /\ primary_monitor' = p
           /\ windows' = [m \in Monitor |->
                            IF m \in live THEN WindowFor(m, p) ELSE windows[m]]

(* slip: a window is made per new monitor, never re-roled                  *)
ReconcileNeverRerolls(live) ==
    IF live = {}
    THEN windows' = NoWindows /\ UNCHANGED primary_monitor
    ELSE \E p \in live :
           /\ primary_monitor \in live => p = primary_monitor
           /\ primary_monitor' = p
           /\ windows' = [m \in Monitor |->
                            IF m \notin live THEN NoWindow
                            ELSE IF windows[m] # NoWindow THEN windows[m]
                            ELSE WindowFor(m, p)]

(* reconcile_monitors(): drop the windows of monitors that are gone, make  *)
(* sure a present monitor is primary, then create or re-role.  Which live  *)
(* monitor comes first is GDK's business.  With no monitor left it returns *)
(* before the primary is looked at, so that one goes stale.                *)
Reconcile(live) ==
    IF live = {}
    THEN windows' = NoWindows /\ UNCHANGED primary_monitor
    ELSE \E p \in live :
           /\ primary_monitor \in live => p = primary_monitor
           /\ primary_monitor' = p
           /\ windows' = [m \in Monitor |->
                            IF m \in live THEN WindowFor(m, p) ELSE NoWindow]

-----------------------------------------------------------------------------
(* Locking.                                                                *)

(* lock_now() from any of its triggers.  The compositor either takes the   *)
(* request or the library cannot send it; lock_now() is a no-op while a    *)
(* lock is held or in flight.                                              *)
BeginLock ==
    /\ ~is_locked
    /\ instance = "null"
    /\ instance' = "requested"
    /\ UNCHANGED <<is_locked, announced, windowVars, monitors_handler, authVars,
                   backoffVars, armed>>

LockIgnored ==
    /\ is_locked \/ instance # "null"
    /\ UNCHANGED <<lockVars, windowVars, monitors_handler, authVars,
                   backoffVars, armed>>

LockNotSent ==
    /\ ~is_locked
    /\ instance = "null"
    /\ UNCHANGED <<lockVars, windowVars, monitors_handler, authVars,
                   backoffVars, armed>>

LockNow == BeginLock \/ LockIgnored \/ LockNotSent

(* LockService.Lock and logind's Session.Lock.                             *)
LockRequested == LockNow /\ UNCHANGED connected

(* The idle notification fires: only a registered one can.                 *)
Idled == armed /\ LockNow /\ UNCHANGED connected

(* slip: the idle watch stays registered while locked                      *)
OnLockedStaysArmed ==
    /\ instance = "requested"
    /\ instance' = "held"
    /\ is_locked' = TRUE
    /\ failures' = 0
    /\ Reconcile(connected)
    /\ monitors_handler' = monitors_handler + 1
    /\ announced' = "Locked"
    /\ UNCHANGED <<authVars, backoffs, connected, armed>>

(* on_locked(): the compositor granted the lock.                           *)
OnLocked ==
    /\ instance = "requested"
    /\ instance' = "held"
    /\ is_locked' = TRUE
    /\ failures' = 0
    /\ armed' = FALSE
    /\ Reconcile(connected)
    /\ monitors_handler' = monitors_handler + 1
    /\ announced' = "Locked"
    /\ UNCHANGED <<authVars, backoffs, connected>>

(* on_failed(): another locker holds the session.                          *)
OnFailed ==
    /\ instance = "requested"
    /\ windows' = NoWindows
    /\ primary_monitor' = NoMonitor
    /\ monitors_handler' = 0
    /\ instance' = "null"
    /\ is_locked' = FALSE
    /\ UNCHANGED <<announced, authVars, backoffVars, connected, armed>>

-----------------------------------------------------------------------------
(* Unlocking.                                                              *)

(* slip: the hotplug handler is left connected                             *)
ReleaseLeaksHandler ==
    /\ windows' = NoWindows
    /\ primary_monitor' = NoMonitor
    /\ UNCHANGED monitors_handler

ReleaseBookkeeping ==
    /\ windows' = NoWindows
    /\ primary_monitor' = NoMonitor
    /\ monitors_handler' = 0

(* on_unlocked(), which the library emits from inside unlock().            *)
OnUnlocked ==
    /\ ReleaseBookkeeping
    /\ instance' = "null"
    /\ is_locked' = FALSE
    /\ failures' = 0
    /\ armed' = IdleAvailable
    /\ announced' = "Unlocked"

CanUnlock == is_locked /\ instance # "null"

(* LockService.Unlock and logind's Session.Unlock: dropped unless locked,  *)
(* so also while a lock request is in flight.                              *)
UnlockRequested ==
    /\ IF CanUnlock
         THEN OnUnlocked
         ELSE UNCHANGED <<lockVars, windowVars, monitors_handler, failures, armed>>
    /\ UNCHANGED <<authVars, backoffs, connected>>

(* The compositor ends the lock itself (`finished`).                       *)
Finished ==
    /\ instance = "held"
    /\ OnUnlocked
    /\ UNCHANGED <<authVars, backoffs, connected>>

-----------------------------------------------------------------------------
(* Authentication.                                                         *)

(* try_auth(): Enter on a sensitive card.  It returns at once while an     *)
(* earlier password is still being checked.                                *)
TryAuth ==
    /\ HasCard
    /\ IF authenticating
         THEN UNCHANGED <<windows, authVars>>
         ELSE /\ authenticating' = TRUE
              /\ SetCard(FALSE, "busy")
              /\ pam' = [pam EXCEPT !.running = @ + 1]

Submit ==
    /\ HasCard /\ windows[primary_monitor].sensitive
    /\ failures < MaxFailures
    /\ backoffs < MaxBackoffs
    /\ TryAuth
    /\ UNCHANGED <<lockVars, primary_monitor, monitors_handler, backoffVars,
                   connected, armed>>

(* PamHelper.authenticate returns on the worker thread, which queues the   *)
(* verdict on the main loop.                                               *)
PamReturns ==
    /\ pam.running > 0
    /\ \/ pam' = [pam EXCEPT !.running = @ - 1, !.ok = @ + 1]
       \/ pam' = [pam EXCEPT !.running = @ - 1, !.failed = @ + 1]
    /\ UNCHANGED <<lockVars, windowVars, monitors_handler, authenticating,
                   backoffVars, connected, armed>>

(* The callback of authenticate_async with a good verdict: unlock_now().   *)
PamAccepts ==
    /\ pam.ok > 0
    /\ pam' = [pam EXCEPT !.ok = @ - 1]
    /\ authenticating' = FALSE
    /\ IF CanUnlock
         THEN OnUnlocked
         ELSE UNCHANGED <<lockVars, windowVars, monitors_handler, failures, armed>>
    /\ UNCHANGED <<backoffs, connected>>

(* slip: the field is not given back below three failures                  *)
OnAuthFailStaysBusy ==
    /\ failures' = failures + 1
    /\ IF ~HasCard
         THEN UNCHANGED <<windows, backoffs>>
         ELSE /\ SetCard(FALSE, "error")
              /\ backoffs' = IF failures + 1 >= 3 THEN backoffs + 1 ELSE backoffs

(* on_auth_fail(): give the card of the current primary back, or from the  *)
(* third failure on keep it insensitive until a back-off timeout.          *)
OnAuthFail ==
    /\ failures' = failures + 1
    /\ IF ~HasCard
         THEN UNCHANGED <<windows, backoffs>>
         ELSE IF failures + 1 >= 3
         THEN SetCard(FALSE, "error") /\ backoffs' = backoffs + 1
         ELSE SetCard(TRUE, "error") /\ UNCHANGED backoffs

PamRejects ==
    /\ pam.failed > 0
    /\ pam' = [pam EXCEPT !.failed = @ - 1]
    /\ authenticating' = FALSE
    /\ OnAuthFail
    /\ UNCHANGED <<lockVars, primary_monitor, monitors_handler, connected, armed>>

(* slip: the timeout only resets the count                                 *)
BackoffOnlyResets ==
    /\ backoffs > 0
    /\ backoffs' = backoffs - 1
    /\ failures' = 0
    /\ UNCHANGED <<lockVars, windowVars, monitors_handler, authVars, connected, armed>>

(* The back-off timeout, whichever lock is current when it fires.          *)
BackoffExpires ==
    /\ backoffs > 0
    /\ backoffs' = backoffs - 1
    /\ failures' = 0
    /\ IF HasCard THEN SetCard(TRUE, "none") ELSE UNCHANGED windows
    /\ UNCHANGED <<lockVars, primary_monitor, monitors_handler, authVars,
                   connected, armed>>

-----------------------------------------------------------------------------
(* Hotplug.  While locked, the items_changed handler reconciles.           *)

MonitorsChanged ==
    /\ \E m \in Monitor :
         connected' = IF m \in connected THEN connected \ {m} ELSE connected \cup {m}
    /\ IF monitors_handler > 0 /\ instance # "null"
         THEN Reconcile(connected')
         ELSE UNCHANGED windowVars
    /\ UNCHANGED <<lockVars, monitors_handler, authVars, backoffVars, armed>>

-----------------------------------------------------------------------------
Next ==
    \/ LockRequested \/ Idled \/ OnLocked \/ OnFailed
    \/ UnlockRequested \/ Finished
    \/ Submit \/ PamReturns \/ PamAccepts \/ PamRejects \/ BackoffExpires
    \/ MonitorsChanged

Spec == Init /\ [][Next]_vars

(* The compositor answers a lock request, PAM returns, and the main loop   *)
(* dispatches idle callbacks and timeouts that are due.                    *)
Fairness ==
    /\ WF_vars(OnLocked \/ OnFailed)
    /\ WF_vars(PamReturns)
    /\ WF_vars(PamAccepts \/ PamRejects)
    /\ WF_vars(BackoffExpires)

FairSpec == Spec /\ Fairness

-----------------------------------------------------------------------------
(* While locked there is exactly one window per connected output and the   *)
(* password card is on the primary alone (comment of reconcile_monitors),  *)
(* across every hotplug; while unlocked no window is tracked.              *)
OneWindowPerOutput ==
    IF is_locked
    THEN \A m \in Monitor :
           windows[m].role = IF m \notin connected THEN "none"
                             ELSE IF m = primary_monitor THEN "card" ELSE "clock"
    ELSE windows = NoWindows

(* A locked session with an output has a card to type the password in.     *)
CardIsPresent == is_locked /\ connected # {} => primary_monitor \in connected

(* An authentication is under way exactly while one PAM worker runs or its *)
(* verdict is still queued, across unlocks and new locks in between.       *)
OnePamWorker ==
    pam.running + pam.ok + pam.failed = IF authenticating THEN 1 ELSE 0

(* The password field is never stuck: an insensitive field has a PAM       *)
(* verdict or a back-off timeout still to come that gives it back.         *)
InputNotStuck ==
    HasCard /\ ~windows[primary_monitor].sensitive
        => authenticating \/ backoffs > 0

(* "Signing in..." is shown only while a password is being checked.        *)
BusyMeansAuthenticating ==
    \A m \in Monitor : windows[m].status = "busy" => authenticating

(* The idle watch, the hotplug handler, the instance and the state seen on *)
(* the bus all agree with is_locked.                                       *)
BookkeepingAgrees ==
    /\ armed <=> IdleAvailable /\ ~is_locked
    /\ monitors_handler = IF is_locked THEN 1 ELSE 0
    /\ is_locked <=> instance = "held"
    /\ is_locked <=> announced = "Locked"

(* An insensitive field is given back or the session is unlocked.          *)
InputComesBack ==
    (HasCard /\ ~windows[primary_monitor].sensitive)
        ~> (HasCard => windows[primary_monitor].sensitive)

-----------------------------------------------------------------------------
(* The session lock as its observers know it.                              *)
Phase    == IF is_locked THEN "locked"
            ELSE IF instance # "null" THEN "requested" ELSE "unlocked"
Surfaces == {m \in Monitor : windows[m].role # "none"}
Cards    == {m \in Monitor : windows[m].role = "card"}

Lock == INSTANCE SessionLock WITH
    phase <- Phase, outputs <- connected, surfaces <- Surfaces, cards <- Cards

(* The manager implements the session lock: every step of a trigger, of    *)
(* the compositor, of an authentication or of a hotplug is a step SessionLock *)
(* allows, or leaves what observers see alone.                             *)
ImplementsSessionLock == Lock!Spec
=============================================================================
