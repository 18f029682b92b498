------------------------- MODULE LockManagerProofs -------------------------
(***************************************************************************)
(* Proofs about LockManager, for any set of outputs and any bounds: the    *)
(* safety invariants its runs check, and that it implements SessionLock;   *)
(* and about LockSleep: the delay inhibitor is in step with logind, for    *)
(* any number of signals in the queue, and what LockManager was proved to  *)
(* do it does in a machine that sleeps.                                    *)
(***************************************************************************)
EXTENDS LockSleep, TLAPS

(* Only a password card has a status line.                                 *)
OnlyCardsHaveStatus ==
    \A m \in Monitor : windows[m].role # "card" => windows[m].status = "none"

(* The inductive invariant.  The bookkeeping conjunct tells when windows   *)
(* exist; OneWindowPerOutput then says the only card is the primary's,     *)
(* which is what lets a hotplug preserve InputNotStuck, and, with          *)
(* OnlyCardsHaveStatus, a verdict BusyMeansAuthenticating.                 *)
IInv ==
    /\ TypeOK
    /\ OneWindowPerOutput
    /\ OnlyCardsHaveStatus
    /\ CardIsPresent
    /\ OnePamWorker
    /\ InputNotStuck
    /\ BusyMeansAuthenticating
    /\ BookkeepingAgrees

-----------------------------------------------------------------------------
(* The window constants are windows; reconcile_monitors() yields the right *)
(* window for every live output and keeps or renews each one.              *)
LEMMA WindowTypes ==
    /\ NoWindow \in Window /\ ClockOnly \in Window /\ NewCard \in Window
    /\ NoWindows \in [Monitor -> Window]
    /\ \A m \in Monitor : NoWindows[m] = NoWindow
BY DEF NoWindow, ClockOnly, NewCard, NoWindows, Window

LEMMA ReconcileLemma ==
    ASSUME NEW live \in SUBSET Monitor,
           windows \in [Monitor -> Window],
           primary_monitor \in Monitor \cup {NoMonitor},
           Reconcile(live)
    PROVE  /\ windows' \in [Monitor -> Window]
           /\ primary_monitor' \in Monitor \cup {NoMonitor}
           /\ live # {} => primary_monitor' \in live
           /\ \A m \in Monitor :
                windows'[m].role = IF m \notin live THEN "none"
                                   ELSE IF m = primary_monitor' THEN "card"
                                   ELSE "clock"
           /\ \A m \in Monitor :
                windows'[m] \in {windows[m], NoWindow, ClockOnly, NewCard}
<1>1. CASE live = {}
  <2>1. windows' = NoWindows /\ primary_monitor' = primary_monitor
    BY <1>1 DEF Reconcile
  <2>2. \A m \in Monitor : windows'[m] = NoWindow
    BY <2>1, WindowTypes
  <2>3. QED
    BY <1>1, <2>1, <2>2, WindowTypes DEF NoWindow
<1>2. CASE live # {}
  <2>1. PICK p \in live :
          /\ primary_monitor' = p
          /\ windows' = [m \in Monitor |->
                           IF m \in live THEN WindowFor(m, p) ELSE NoWindow]
    BY <1>2 DEF Reconcile
  <2>2. ASSUME NEW m \in Monitor
        PROVE  /\ WindowFor(m, p) \in {windows[m], ClockOnly, NewCard}
               /\ WindowFor(m, p).role = IF m = p THEN "card" ELSE "clock"
               /\ WindowFor(m, p) \in Window
    BY <2>2, WindowTypes DEF WindowFor, ClockOnly, NewCard
  <2>3. \A m \in Monitor :
          windows'[m] = IF m \in live THEN WindowFor(m, p) ELSE NoWindow
    BY <2>1
  <2>4. windows' \in [Monitor -> Window]
    BY <2>1, <2>2, WindowTypes
  <2>5. QED
    BY <2>1, <2>2, <2>3, <2>4 DEF NoWindow
<1>3. QED BY <1>1, <1>2

(* Giving the primary's card a new state changes nothing else.             *)
LEMMA SetCardLemma ==
    ASSUME windows \in [Monitor -> Window],
           primary_monitor \in Monitor \cup {NoMonitor},
           HasCard,
           NEW on \in BOOLEAN,
           NEW st \in {"none", "busy", "error"},
           SetCard(on, st)
    PROVE  /\ windows' \in [Monitor -> Window]
           /\ \A m \in Monitor : windows'[m].role = windows[m].role
           /\ \A m \in Monitor : m # primary_monitor => windows'[m] = windows[m]
           /\ windows'[primary_monitor].sensitive = on
           /\ windows'[primary_monitor].status = st
<1>1. primary_monitor \in Monitor
  BY DEF HasCard
<1>2. windows' = [windows EXCEPT ![primary_monitor] =
                    [[windows[primary_monitor] EXCEPT !.sensitive = on]
                        EXCEPT !.status = st]]
  BY <1>1 DEF SetCard
<1>3. QED BY <1>1, <1>2 DEF Window

-----------------------------------------------------------------------------
LEMMA InitIInv == Init => IInv
<1> SUFFICES ASSUME Init PROVE IInv
  OBVIOUS
<1> USE MonitorAssumption, IdleAssumption, WindowTypes DEF Init
<1>1. TypeOK
  BY DEF TypeOK, Pam
<1>2. OneWindowPerOutput /\ CardIsPresent
  BY DEF OneWindowPerOutput, CardIsPresent
<1>3. OnePamWorker
  BY DEF OnePamWorker
<1>4. InputNotStuck
  BY DEF InputNotStuck, HasCard
<1>5. BusyMeansAuthenticating /\ OnlyCardsHaveStatus
  BY DEF BusyMeansAuthenticating, OnlyCardsHaveStatus, NoWindow
<1>6. BookkeepingAgrees
  BY DEF BookkeepingAgrees
<1>7. QED BY <1>1, <1>2, <1>3, <1>4, <1>5, <1>6 DEF IInv

(* What on_unlocked() leaves behind.                                       *)
LEMMA UnlockedLemma ==
    ASSUME IInv, OnUnlocked
    PROVE  /\ windows' = NoWindows /\ windows' \in [Monitor -> Window]
           /\ primary_monitor' = NoMonitor
           /\ OneWindowPerOutput' /\ CardIsPresent' /\ InputNotStuck'
           /\ BusyMeansAuthenticating' /\ OnlyCardsHaveStatus'
           /\ BookkeepingAgrees'
<1> USE IdleAssumption, WindowTypes DEF OnUnlocked, ReleaseBookkeeping
<1>1. windows' = NoWindows /\ primary_monitor' = NoMonitor /\ is_locked' = FALSE
  OBVIOUS
<1>2. OneWindowPerOutput' /\ CardIsPresent'
  BY <1>1 DEF OneWindowPerOutput, CardIsPresent
<1>3. InputNotStuck'
  BY <1>1 DEF InputNotStuck, HasCard
<1>4. BusyMeansAuthenticating' /\ OnlyCardsHaveStatus'
  BY <1>1 DEF BusyMeansAuthenticating, OnlyCardsHaveStatus, NoWindow
<1>5. BookkeepingAgrees'
  BY DEF BookkeepingAgrees
<1>6. QED BY <1>1, <1>2, <1>3, <1>4, <1>5, WindowTypes

LEMMA NextIInv == IInv /\ [Next]_vars => IInv'
<1> SUFFICES ASSUME IInv, [Next]_vars PROVE IInv'
  OBVIOUS
<1> USE MonitorAssumption, IdleAssumption
<1>t. TypeOK
  BY DEF IInv
<1>1. CASE LockRequested \/ Idled
  <2>1. CASE BeginLock /\ UNCHANGED connected
    <3>1. TypeOK'
      BY <1>t, <2>1 DEF TypeOK, BeginLock, windowVars, authVars, backoffVars
    <3>2. (OneWindowPerOutput /\ CardIsPresent /\ OnePamWorker /\ InputNotStuck
            /\ BusyMeansAuthenticating /\ OnlyCardsHaveStatus)'
      BY <2>1 DEF IInv, BeginLock, windowVars, authVars, backoffVars,
           OneWindowPerOutput, OnlyCardsHaveStatus, CardIsPresent, OnePamWorker, InputNotStuck,
           BusyMeansAuthenticating, HasCard
    <3>3. BookkeepingAgrees'
      BY <2>1 DEF IInv, BeginLock, BookkeepingAgrees
    <3>4. QED BY <3>1, <3>2, <3>3 DEF IInv
  <2>2. CASE UNCHANGED vars
    BY <2>2 DEF IInv, vars, lockVars, windowVars, authVars, backoffVars, TypeOK,
       OneWindowPerOutput, CardIsPresent, OnePamWorker, InputNotStuck,
       BusyMeansAuthenticating, OnlyCardsHaveStatus, BookkeepingAgrees, HasCard
  <2>3. QED
    BY <1>1, <2>1, <2>2 DEF LockRequested, Idled, LockNow, LockIgnored,
       LockNotSent, vars
<1>2. CASE OnLocked
  <2>1. windows = NoWindows /\ ~is_locked
    BY <1>2 DEF OnLocked, IInv, BookkeepingAgrees, OneWindowPerOutput
  <2>2. /\ windows' \in [Monitor -> Window]
        /\ primary_monitor' \in Monitor \cup {NoMonitor}
        /\ connected # {} => primary_monitor' \in connected
        /\ \A m \in Monitor :
             windows'[m].role = IF m \notin connected THEN "none"
                                ELSE IF m = primary_monitor' THEN "card"
                                ELSE "clock"
        /\ \A m \in Monitor : windows'[m] \in {NoWindow, ClockOnly, NewCard}
    BY <1>t, <1>2, <2>1, ReconcileLemma, WindowTypes DEF TypeOK, OnLocked
  <2>h. monitors_handler = 0 /\ monitors_handler' = 1
    BY <1>2, <2>1 DEF OnLocked, IInv, BookkeepingAgrees
  <2>3. TypeOK'
    BY <1>t, <1>2, <2>2, <2>h DEF TypeOK, OnLocked, authVars
  <2>4. (OneWindowPerOutput /\ CardIsPresent)'
    BY <1>2, <2>2 DEF OnLocked, OneWindowPerOutput, CardIsPresent
  <2>5. OnePamWorker'
    BY <1>2 DEF OnLocked, IInv, OnePamWorker, authVars
  <2>6. InputNotStuck' /\ BusyMeansAuthenticating' /\ OnlyCardsHaveStatus'
    BY <2>2 DEF InputNotStuck, BusyMeansAuthenticating, OnlyCardsHaveStatus,
       HasCard, NoWindow, ClockOnly, NewCard
  <2>7. BookkeepingAgrees'
    BY <1>2, <2>h DEF OnLocked, BookkeepingAgrees
  <2>8. QED BY <2>3, <2>4, <2>5, <2>6, <2>7 DEF IInv
<1>3. CASE OnFailed
  <2>1. windows = NoWindows /\ ~is_locked
    BY <1>3 DEF OnFailed, IInv, BookkeepingAgrees, OneWindowPerOutput
  <2>2. TypeOK'
    BY <1>t, <1>3, WindowTypes DEF TypeOK, OnFailed, authVars, backoffVars
  <2>3. (OneWindowPerOutput /\ CardIsPresent /\ OnePamWorker)'
    BY <1>3 DEF OnFailed, authVars, IInv, OneWindowPerOutput, CardIsPresent,
       OnePamWorker
  <2>4. InputNotStuck' /\ BusyMeansAuthenticating' /\ OnlyCardsHaveStatus'
    BY <1>3, WindowTypes DEF OnFailed, InputNotStuck, BusyMeansAuthenticating,
       OnlyCardsHaveStatus, HasCard, NoWindow
  <2>5. BookkeepingAgrees'
    BY <1>3, <2>1 DEF OnFailed, IInv, BookkeepingAgrees
  <2>6. QED BY <2>2, <2>3, <2>4, <2>5 DEF IInv
<1>u. CASE UNCHANGED vars
  BY <1>u DEF IInv, vars, lockVars, windowVars, authVars, backoffVars, TypeOK,
     OneWindowPerOutput, CardIsPresent, OnePamWorker, InputNotStuck,
     BusyMeansAuthenticating, OnlyCardsHaveStatus, BookkeepingAgrees, HasCard
<1>4. CASE UnlockRequested \/ Finished
  <2>1. CASE OnUnlocked /\ UNCHANGED <<authVars, backoffs, connected>>
    <3>1. TypeOK'
      BY <1>t, <2>1, UnlockedLemma DEF TypeOK, OnUnlocked, ReleaseBookkeeping,
         authVars
    <3>2. OnePamWorker'
      BY <2>1 DEF IInv, OnePamWorker, authVars
    <3>3. QED BY <2>1, <3>1, <3>2, UnlockedLemma DEF IInv
  <2>2. QED
    BY <1>4, <2>1, <1>u DEF UnlockRequested, Finished, vars, backoffVars
<1>5. CASE Submit
  <2>1. CASE authenticating
    BY <1>5, <1>u, <2>1 DEF Submit, TryAuth, vars, authVars, windowVars
  <2>2. CASE ~authenticating
    <3>1. /\ HasCard /\ SetCard(FALSE, "busy") /\ authenticating' = TRUE
          /\ pam' = [pam EXCEPT !.running = @ + 1]
      BY <1>5, <2>2 DEF Submit, TryAuth
    <3>2. /\ windows' \in [Monitor -> Window]
          /\ \A m \in Monitor : windows'[m].role = windows[m].role
          /\ \A m \in Monitor : m # primary_monitor => windows'[m] = windows[m]
      BY <1>t, <3>1, SetCardLemma DEF TypeOK
    <3>3. TypeOK'
      BY <1>t, <1>5, <3>1, <3>2 DEF TypeOK, Submit, Pam, lockVars, backoffVars
    <3>4. is_locked
      BY <1>t, <3>1, WindowTypes DEF IInv, OneWindowPerOutput, HasCard, TypeOK,
         NoWindow
    <3>5. (OneWindowPerOutput /\ CardIsPresent)'
      BY <1>5, <3>2, <3>4 DEF IInv, Submit, lockVars, OneWindowPerOutput,
         CardIsPresent
    <3>6. OnePamWorker'
      BY <1>t, <2>2, <3>1 DEF IInv, OnePamWorker, TypeOK, Pam
    <3>7. InputNotStuck' /\ BusyMeansAuthenticating' /\ OnlyCardsHaveStatus'
      BY <3>1, <3>2 DEF InputNotStuck, BusyMeansAuthenticating,
         OnlyCardsHaveStatus, HasCard, IInv
    <3>8. BookkeepingAgrees'
      BY <1>5 DEF Submit, lockVars, IInv, BookkeepingAgrees
    <3>9. QED BY <3>3, <3>5, <3>6, <3>7, <3>8 DEF IInv
  <2>3. QED BY <2>1, <2>2
<1>6. CASE PamReturns
  <2>0. /\ pam' \in Pam
        /\ pam'.running + pam'.ok + pam'.failed = pam.running + pam.ok + pam.failed
    <3>1. pam \in Pam /\ pam.running > 0
      BY <1>t, <1>6 DEF TypeOK, PamReturns
    <3>2. CASE pam' = [pam EXCEPT !.running = pam.running - 1, !.ok = pam.ok + 1]
      <4>1. pam' = [running |-> pam.running - 1, ok |-> pam.ok + 1,
                    failed |-> pam.failed]
        BY <3>1, <3>2 DEF Pam
      <4>2. QED BY <3>1, <4>1 DEF Pam
    <3>3. CASE pam' = [pam EXCEPT !.running = pam.running - 1,
                                  !.failed = pam.failed + 1]
      <4>1. pam' = [running |-> pam.running - 1, ok |-> pam.ok,
                    failed |-> pam.failed + 1]
        BY <3>1, <3>3 DEF Pam
      <4>2. QED BY <3>1, <4>1 DEF Pam
    <3>4. QED BY <1>6, <3>2, <3>3 DEF PamReturns
  <2>1. TypeOK'
    BY <1>t, <1>6, <2>0 DEF TypeOK, PamReturns, lockVars, windowVars, backoffVars
  <2>2. OnePamWorker'
    BY <1>6, <2>0 DEF IInv, OnePamWorker, PamReturns
  <2>3. (OneWindowPerOutput /\ CardIsPresent /\ InputNotStuck
          /\ BusyMeansAuthenticating /\ OnlyCardsHaveStatus
          /\ BookkeepingAgrees)'
    BY <1>6 DEF IInv, OnlyCardsHaveStatus, PamReturns, lockVars, windowVars, backoffVars,
       OneWindowPerOutput, CardIsPresent, InputNotStuck,
       BusyMeansAuthenticating, BookkeepingAgrees, HasCard
  <2>4. QED BY <2>1, <2>2, <2>3 DEF IInv
<1>7. CASE PamAccepts
  <2>1. OnePamWorker' /\ pam' \in Pam
    BY <1>t, <1>7 DEF IInv, OnePamWorker, PamAccepts, TypeOK, Pam
  <2>2. CASE OnUnlocked
    <3>1. TypeOK'
      BY <1>t, <1>7, <2>1, <2>2, UnlockedLemma DEF TypeOK, PamAccepts,
         OnUnlocked, ReleaseBookkeeping
    <3>2. QED BY <2>1, <2>2, <3>1, UnlockedLemma DEF IInv
  <2>3. CASE ~CanUnlock
    <3>1. ~is_locked /\ windows = NoWindows
      BY <2>3 DEF CanUnlock, IInv, BookkeepingAgrees, OneWindowPerOutput
    <3>2. UNCHANGED <<lockVars, windowVars, monitors_handler, failures, armed,
                      backoffs, connected>> /\ authenticating' = FALSE
      BY <1>7, <2>3 DEF PamAccepts
    <3>3. TypeOK'
      BY <1>t, <2>1, <3>2 DEF TypeOK, lockVars, windowVars
    <3>4. (OneWindowPerOutput /\ CardIsPresent /\ BookkeepingAgrees)'
      BY <3>2 DEF IInv, lockVars, windowVars, OneWindowPerOutput, CardIsPresent,
         BookkeepingAgrees
    <3>5. InputNotStuck' /\ BusyMeansAuthenticating' /\ OnlyCardsHaveStatus'
      BY <1>t, <3>1, <3>2, WindowTypes DEF lockVars, windowVars, InputNotStuck,
         BusyMeansAuthenticating, OnlyCardsHaveStatus, HasCard, NoWindow, TypeOK
    <3>6. QED BY <2>1, <3>3, <3>4, <3>5 DEF IInv
  <2>4. QED BY <1>7, <2>2, <2>3 DEF PamAccepts
<1>8. CASE PamRejects
  <2>1. OnePamWorker' /\ pam' \in Pam
    BY <1>t, <1>8 DEF IInv, OnePamWorker, PamRejects, TypeOK, Pam
  <2>2. CASE ~HasCard
    <3>1. UNCHANGED <<lockVars, windowVars, monitors_handler, backoffs, armed,
                      connected>> /\ failures' = failures + 1
          /\ authenticating' = FALSE
      BY <1>8, <2>2 DEF PamRejects, OnAuthFail, windowVars
    <3>2. TypeOK'
      <4>1. failures' \in Nat
        BY <1>t, <3>1 DEF TypeOK
      <4>2. QED BY <1>t, <2>1, <3>1, <4>1 DEF TypeOK, lockVars, windowVars
    <3>3. (OneWindowPerOutput /\ CardIsPresent /\ BookkeepingAgrees)'
      BY <3>1 DEF IInv, lockVars, windowVars, OneWindowPerOutput, CardIsPresent,
         BookkeepingAgrees
    <3>4. InputNotStuck'
      BY <2>2, <3>1 DEF windowVars, InputNotStuck, HasCard
    <3>5. \A m \in Monitor : windows[m].role # "card"
      BY <1>t, <2>2, WindowTypes DEF IInv, OneWindowPerOutput, HasCard, TypeOK,
         NoWindow
    <3>6. BusyMeansAuthenticating' /\ OnlyCardsHaveStatus'
      BY <3>1, <3>5 DEF IInv, windowVars, BusyMeansAuthenticating,
         OnlyCardsHaveStatus
    <3>7. QED BY <2>1, <3>2, <3>3, <3>4, <3>6 DEF IInv
  <2>3. CASE HasCard
    <3>1. PICK on \in BOOLEAN :
            /\ SetCard(on, "error")
            /\ backoffs' = IF on THEN backoffs ELSE backoffs + 1
      BY <1>8, <2>3 DEF PamRejects, OnAuthFail
    <3>2. UNCHANGED <<lockVars, primary_monitor, monitors_handler, armed,
                      connected>> /\ failures' = failures + 1
      BY <1>8 DEF PamRejects, OnAuthFail
    <3>3. /\ windows' \in [Monitor -> Window]
          /\ \A m \in Monitor : windows'[m].role = windows[m].role
          /\ \A m \in Monitor : m # primary_monitor => windows'[m] = windows[m]
          /\ windows'[primary_monitor].sensitive = on
          /\ windows'[primary_monitor].status = "error"
      BY <1>t, <2>3, <3>1, SetCardLemma DEF TypeOK
    <3>4. TypeOK'
      <4>1. failures' \in Nat /\ backoffs' \in Nat /\ authenticating' = FALSE
        BY <1>t, <1>8, <3>1, <3>2 DEF TypeOK, PamRejects
      <4>2. QED BY <1>t, <2>1, <3>2, <3>3, <4>1 DEF TypeOK, lockVars
    <3>5. is_locked
      BY <1>t, <2>3, WindowTypes DEF IInv, OneWindowPerOutput, HasCard, TypeOK,
         NoWindow
    <3>6. (OneWindowPerOutput /\ CardIsPresent)'
      BY <3>2, <3>3, <3>5 DEF IInv, lockVars, OneWindowPerOutput, CardIsPresent
    <3>7. InputNotStuck'
      BY <1>t, <3>1, <3>2, <3>3 DEF InputNotStuck, TypeOK
    <3>8. BusyMeansAuthenticating' /\ OnlyCardsHaveStatus'
      BY <2>3, <3>3, <3>5 DEF IInv, OneWindowPerOutput, BusyMeansAuthenticating,
         OnlyCardsHaveStatus, HasCard
    <3>9. BookkeepingAgrees'
      BY <3>2 DEF lockVars, IInv, BookkeepingAgrees
    <3>10. QED BY <2>1, <3>4, <3>6, <3>7, <3>8, <3>9 DEF IInv
  <2>4. QED BY <2>2, <2>3
<1>9. CASE BackoffExpires
  <2>1. UNCHANGED <<lockVars, primary_monitor, monitors_handler, authVars,
                    connected, armed>>
        /\ failures' = 0 /\ backoffs' \in Nat
    BY <1>t, <1>9 DEF BackoffExpires, TypeOK
  <2>2. CASE ~HasCard
    <3>1. windows' = windows
      BY <1>9, <2>2 DEF BackoffExpires
    <3>2. QED
      BY <1>t, <2>1, <2>2, <3>1 DEF IInv, TypeOK, lockVars, authVars,
         OneWindowPerOutput, OnlyCardsHaveStatus, CardIsPresent, OnePamWorker,
         InputNotStuck, BusyMeansAuthenticating, BookkeepingAgrees, HasCard
  <2>3. CASE HasCard
    <3>1. /\ windows' \in [Monitor -> Window]
          /\ \A m \in Monitor : windows'[m].role = windows[m].role
          /\ \A m \in Monitor : m # primary_monitor => windows'[m] = windows[m]
          /\ windows'[primary_monitor].sensitive = TRUE
          /\ windows'[primary_monitor].status = "none"
      BY <1>t, <1>9, <2>3, SetCardLemma DEF TypeOK, BackoffExpires
    <3>2. TypeOK'
      BY <1>t, <2>1, <3>1 DEF TypeOK, lockVars, authVars
    <3>3. is_locked
      BY <1>t, <2>3, WindowTypes DEF IInv, OneWindowPerOutput, HasCard, TypeOK,
         NoWindow
    <3>4. (OneWindowPerOutput /\ CardIsPresent)'
      BY <2>1, <3>1, <3>3 DEF IInv, lockVars, OneWindowPerOutput, CardIsPresent
    <3>5. InputNotStuck' /\ OnePamWorker' /\ BookkeepingAgrees'
      BY <2>1, <3>1 DEF IInv, InputNotStuck, OnePamWorker, BookkeepingAgrees,
         lockVars, authVars
    <3>6. BusyMeansAuthenticating' /\ OnlyCardsHaveStatus'
      BY <2>1, <3>1 DEF IInv, authVars, BusyMeansAuthenticating,
         OnlyCardsHaveStatus
    <3>7. QED BY <3>2, <3>4, <3>5, <3>6 DEF IInv
  <2>4. QED BY <2>2, <2>3
<1>10. CASE MonitorsChanged
  <2>1. /\ UNCHANGED <<lockVars, monitors_handler, authVars, backoffVars, armed>>
        /\ connected' \in SUBSET Monitor
    BY <1>t, <1>10 DEF MonitorsChanged, TypeOK
  <2>2. CASE is_locked
    <3>0. monitors_handler > 0 /\ instance # "null"
      BY <2>2 DEF IInv, BookkeepingAgrees
    <3>1. Reconcile(connected')
      BY <1>10, <3>0 DEF MonitorsChanged
    <3>2. /\ windows' \in [Monitor -> Window]
          /\ primary_monitor' \in Monitor \cup {NoMonitor}
          /\ connected' # {} => primary_monitor' \in connected'
          /\ \A m \in Monitor :
               windows'[m].role = IF m \notin connected' THEN "none"
                                  ELSE IF m = primary_monitor' THEN "card"
                                  ELSE "clock"
          /\ \A m \in Monitor :
               windows'[m] \in {windows[m], NoWindow, ClockOnly, NewCard}
      BY <1>t, <2>1, <3>1, ReconcileLemma DEF TypeOK
    <3>3. TypeOK'
      BY <1>t, <2>1, <3>2 DEF TypeOK, lockVars, authVars, backoffVars
    <3>4. (OneWindowPerOutput /\ CardIsPresent)'
      BY <2>1, <2>2, <3>2 DEF lockVars, OneWindowPerOutput, CardIsPresent
    <3>5. OnePamWorker' /\ BookkeepingAgrees'
      BY <2>1 DEF IInv, OnePamWorker, BookkeepingAgrees, lockVars, authVars
    <3>6. BusyMeansAuthenticating' /\ OnlyCardsHaveStatus'
      BY <2>1, <3>2 DEF IInv, authVars, BusyMeansAuthenticating,
         OnlyCardsHaveStatus, NoWindow, ClockOnly, NewCard
    <3>7. InputNotStuck'
      <4> SUFFICES ASSUME HasCard', ~windows'[primary_monitor'].sensitive
                   PROVE  authenticating' \/ backoffs' > 0
        BY DEF InputNotStuck
      <4>1. primary_monitor' \in Monitor
        BY <3>2 DEF HasCard
      <4>2. /\ windows'[primary_monitor'] = windows[primary_monitor']
            /\ windows[primary_monitor'].role = "card"
        BY <3>2, <4>1 DEF HasCard, NoWindow, ClockOnly, NewCard
      <4>3. primary_monitor' = primary_monitor
        BY <2>2, <4>1, <4>2 DEF IInv, OneWindowPerOutput
      <4>4. QED
        BY <2>1, <4>1, <4>2, <4>3 DEF IInv, InputNotStuck, HasCard, authVars,
           backoffVars
    <3>8. QED BY <3>3, <3>4, <3>5, <3>6, <3>7 DEF IInv
  <2>3. CASE ~is_locked
    <3>1. UNCHANGED windowVars
      BY <1>10, <2>3 DEF MonitorsChanged, IInv, BookkeepingAgrees
    <3>2. QED
      BY <1>t, <2>1, <2>3, <3>1 DEF IInv, TypeOK, lockVars, authVars, windowVars,
         backoffVars, OneWindowPerOutput, OnlyCardsHaveStatus, CardIsPresent,
         OnePamWorker, InputNotStuck, BusyMeansAuthenticating,
         BookkeepingAgrees, HasCard
  <2>4. QED BY <2>2, <2>3
<1>11. QED
  BY <1>1, <1>2, <1>3, <1>4, <1>5, <1>6, <1>7, <1>8, <1>9, <1>10, <1>u DEF Next

-----------------------------------------------------------------------------
(* LockManager keeps its invariants on any set of outputs.                 *)
THEOREM Invariance == Spec => []IInv
<1>1. Init => IInv
  BY InitIInv
<1>2. IInv /\ [Next]_vars => IInv'
  BY NextIInv
<1>3. QED BY <1>1, <1>2, PTL DEF Spec

(* There is exactly one lock window per connected output, and the password *)
(* card is on the primary alone.                                           *)
THEOREM WindowsCorrect == Spec => [](OneWindowPerOutput /\ CardIsPresent)
<1>1. IInv => OneWindowPerOutput /\ CardIsPresent
  BY DEF IInv
<1>2. QED BY <1>1, Invariance, PTL

(* No password field is left insensitive without something to come that    *)
(* gives it back, and at most one PAM worker is under way.                 *)
THEOREM InputCorrect ==
    Spec => [](InputNotStuck /\ OnePamWorker /\ BusyMeansAuthenticating)
<1>1. IInv => InputNotStuck /\ OnePamWorker /\ BusyMeansAuthenticating
  BY DEF IInv
<1>2. QED BY <1>1, Invariance, PTL

(* No order of answers, hotplugs, unlocks and timeouts drives a counter    *)
(* below zero, connects a second hotplug handler or leaves a window in a   *)
(* role that is none (manager.vala, on_locked() to release_bookkeeping()). *)
THEOREM TypesCorrect == Spec => []TypeOK
<1>1. IInv => TypeOK
  BY DEF IInv
<1>2. QED BY <1>1, Invariance, PTL

(* The idle watch, the hotplug handler, the library instance and the bus   *)
(* agree with is_locked.                                                   *)
THEOREM BookkeepingCorrect == Spec => []BookkeepingAgrees
<1>1. IInv => BookkeepingAgrees
  BY DEF IInv
<1>2. QED BY <1>1, Invariance, PTL

-----------------------------------------------------------------------------
(* Refinement.                                                             *)

(* The window roles of a locked session cover its outputs.                 *)
LEMMA CoversLemma ==
    ASSUME NEW O \in SUBSET Monitor, NEW p, O # {} => p \in O,
           NEW S, S = {m \in Monitor : m \in O},
           NEW C, C = {m \in Monitor : m \in O /\ m = p}
    PROVE  Lock!Covers(S, C, O)
BY DEF Lock!Covers

LEMMA NoSurfaces ==
    ASSUME IInv, ~is_locked
    PROVE  Surfaces = {} /\ Cards = {}
<1>1. \A m \in Monitor : windows[m] = NoWindow
  BY WindowTypes DEF IInv, OneWindowPerOutput
<1>2. QED BY <1>1 DEF Surfaces, Cards, NoWindow

LEMMA SameRoles ==
    ASSUME \A m \in Monitor : windows'[m].role = windows[m].role
    PROVE  Surfaces' = Surfaces /\ Cards' = Cards
BY DEF Surfaces, Cards

LEMMA Simulation ==
    ASSUME IInv, IInv', [Next]_vars
    PROVE  [Lock!Next]_(Lock!vars)
<1> USE DEF Lock!vars, Lock!Next
<1>u. CASE UNCHANGED vars
  BY <1>u DEF vars, lockVars, windowVars, Phase, Surfaces, Cards
<1>1. CASE LockRequested \/ Idled
  <2>1. CASE BeginLock /\ UNCHANGED connected
    <3>1. Phase = "unlocked" /\ Phase' = "requested"
      BY <2>1 DEF BeginLock, Phase
    <3>2. UNCHANGED <<connected, Surfaces, Cards, announced>>
      BY <2>1 DEF BeginLock, windowVars, Surfaces, Cards
    <3>3. QED BY <3>1, <3>2 DEF Lock!Request
  <2>2. QED
    BY <1>1, <1>u, <2>1 DEF LockRequested, Idled, LockNow, LockIgnored,
       LockNotSent, vars
<1>2. CASE OnLocked
  <2>1. ~is_locked /\ is_locked' /\ UNCHANGED connected /\ announced' = "Locked"
        /\ instance # "null"
    BY <1>2 DEF OnLocked, IInv, BookkeepingAgrees
  <2>2. Phase = "requested" /\ Phase' = "locked"
    BY <2>1 DEF Phase
  <2>3. Lock!Covers(Surfaces', Cards', connected)
    <3>1. \A m \in Monitor :
            windows'[m].role = IF m \notin connected THEN "none"
                               ELSE IF m = primary_monitor' THEN "card" ELSE "clock"
      BY <2>1 DEF IInv, OneWindowPerOutput
    <3>2. /\ Surfaces' = {m \in Monitor : m \in connected}
          /\ Cards' = {m \in Monitor : m \in connected /\ m = primary_monitor'}
      BY <3>1 DEF Surfaces, Cards
    <3>3. connected \in SUBSET Monitor
          /\ (connected # {} => primary_monitor' \in connected)
      BY <2>1 DEF IInv, TypeOK, CardIsPresent
    <3>4. QED BY <3>2, <3>3, CoversLemma
  <2>4. QED BY <2>1, <2>2, <2>3 DEF Lock!Grant
<1>3. CASE OnFailed
  <2>1. ~is_locked /\ ~is_locked' /\ instance # "null" /\ instance' = "null"
        /\ UNCHANGED <<announced, connected>>
    BY <1>3 DEF OnFailed, IInv, BookkeepingAgrees
  <2>2. Surfaces = {} /\ Cards = {} /\ Surfaces' = {} /\ Cards' = {}
    BY <2>1, NoSurfaces, WindowTypes, <1>3 DEF OnFailed, Surfaces, Cards, NoWindow
  <2>3. QED BY <2>1, <2>2 DEF Phase, Lock!Refuse
<1>4. ASSUME OnUnlocked, UNCHANGED connected, is_locked PROVE Lock!Release
  <2>1. Surfaces' = {} /\ Cards' = {}
    BY <1>4, WindowTypes DEF OnUnlocked, ReleaseBookkeeping, Surfaces, Cards,
       NoWindow
  <2>2. Phase = "locked" /\ Phase' = "unlocked" /\ announced' = "Unlocked"
    BY <1>4 DEF OnUnlocked, Phase
  <2>3. QED BY <1>4, <2>1, <2>2 DEF Lock!Release
<1>5. CASE UnlockRequested \/ Finished \/ PamAccepts
  <2>1. CASE OnUnlocked /\ UNCHANGED connected /\ is_locked
    BY <1>4, <2>1
  <2>2. CASE UNCHANGED <<lockVars, windowVars, connected>>
    BY <2>2 DEF lockVars, windowVars, Phase, Surfaces, Cards
  <2>3. instance = "held" => is_locked
    BY DEF IInv, BookkeepingAgrees
  <2>4. QED
    BY <1>5, <2>1, <2>2, <2>3 DEF UnlockRequested, Finished, PamAccepts, CanUnlock
<1>6. CASE Submit \/ PamReturns \/ PamRejects \/ BackoffExpires
  <2>1. UNCHANGED <<lockVars, connected>>
    BY <1>6 DEF Submit, PamReturns, PamRejects, BackoffExpires
  <2>2. \A m \in Monitor : windows'[m].role = windows[m].role
    <3>1. TypeOK
      BY DEF IInv
    <3>2. windows' = windows
          \/ \E on \in BOOLEAN, st \in {"none", "busy", "error"} :
               HasCard /\ SetCard(on, st)
      BY <1>6 DEF Submit, TryAuth, PamReturns, PamRejects, OnAuthFail,
         BackoffExpires, windowVars
    <3>3. QED BY <3>1, <3>2, SetCardLemma DEF TypeOK
  <2>3. QED BY <2>1, <2>2, SameRoles DEF lockVars, Phase
<1>7. CASE MonitorsChanged
  <2>1. UNCHANGED lockVars /\ connected' \in SUBSET Monitor /\ connected' # connected
    BY <1>7 DEF MonitorsChanged, IInv, TypeOK
  <2>2. UNCHANGED <<Phase, announced>>
    BY <2>1 DEF lockVars, Phase
  <2>3. CASE is_locked
    <3>1. is_locked' /\ Phase = "locked"
      BY <2>1, <2>3 DEF lockVars, Phase
    <3>2. \A m \in Monitor :
            windows'[m].role = IF m \notin connected' THEN "none"
                               ELSE IF m = primary_monitor' THEN "card" ELSE "clock"
      BY <3>1 DEF IInv, OneWindowPerOutput
    <3>3. /\ Surfaces' = {m \in Monitor : m \in connected'}
          /\ Cards' = {m \in Monitor : m \in connected' /\ m = primary_monitor'}
      BY <3>2 DEF Surfaces, Cards
    <3>4. connected' # {} => primary_monitor' \in connected'
      BY <3>1 DEF IInv, CardIsPresent
    <3>5. Lock!Covers(Surfaces', Cards', connected')
      BY <2>1, <3>3, <3>4, CoversLemma
    <3>6. QED BY <2>1, <2>2, <3>1, <3>5 DEF Lock!Hotplug
  <2>4. CASE ~is_locked
    <3>1. ~is_locked' /\ Phase # "locked"
      BY <2>1, <2>4 DEF lockVars, Phase
    <3>2. Surfaces = {} /\ Cards = {}
      BY <2>4, NoSurfaces
    <3>3. Surfaces' = {} /\ Cards' = {}
      <4>1. \A m \in Monitor : windows'[m] = NoWindow
        BY <3>1, WindowTypes DEF IInv, OneWindowPerOutput, NoWindows
      <4>2. QED BY <4>1 DEF Surfaces, Cards, NoWindow
    <3>4. QED BY <2>1, <2>2, <3>1, <3>2, <3>3 DEF Lock!Hotplug
  <2>5. QED BY <2>3, <2>4
<1>8. QED BY <1>u, <1>1, <1>2, <1>3, <1>5, <1>6, <1>7 DEF Next

(* LockManager implements SessionLock, on any set of outputs.              *)
THEOREM Refinement == Spec => ImplementsSessionLock
<1>1. Init => Lock!Init
  BY WindowTypes DEF Init, Lock!Init, Phase, Surfaces, Cards, NoWindow
<1>2. IInv /\ IInv' /\ [Next]_vars => [Lock!Next]_(Lock!vars)
  BY Simulation
<1>3. QED
  BY <1>1, <1>2, Invariance, PTL DEF Spec, Lock!Spec, ImplementsSessionLock

-----------------------------------------------------------------------------
(* The machine that sleeps.                                                *)

(* The queue ends with logind's last announcement, and once it is empty the   *)
(* inhibitor is what that announcement asked for.  InhibitorInStep alone is   *)
(* not inductive: it says nothing of a queue that is about to be emptied.     *)
LastWord ==
    /\ power \in {"awake", "preparing", "asleep", "forced"}
    /\ signals \in Seq(BOOLEAN)
    /\ signals # <<>> => (signals[Len(signals)] <=> power # "awake")
    /\ signals = <<>> => (inhibit_fd <=> power = "awake")

LEMMA InitLastWord == SleepInit => LastWord
  BY DEF SleepInit, LastWord

(* What an announcement does to the queue.                                    *)
LEMMA Announced ==
    ASSUME NEW q \in Seq(BOOLEAN), NEW b \in BOOLEAN
    PROVE  /\ Append(q, b) \in Seq(BOOLEAN) /\ Append(q, b) # <<>>
           /\ Append(q, b)[Len(Append(q, b))] = b
  OBVIOUS

LEMMA Dispatched ==
    ASSUME NEW q \in Seq(BOOLEAN), q # <<>>
    PROVE  /\ Tail(q) \in Seq(BOOLEAN)
           /\ Tail(q) = <<>> => q[Len(q)] = Head(q)
           /\ Tail(q) # <<>> => Tail(q)[Len(Tail(q))] = q[Len(q)]
  OBVIOUS

LEMMA NextLastWord == LastWord /\ [SleepNext]_allVars => LastWord'
<1> SUFFICES ASSUME LastWord, [SleepNext]_allVars PROVE LastWord'
  OBVIOUS
<1>1. CASE UNCHANGED sleepVars
  BY <1>1 DEF sleepVars, LastWord
<1>2. CASE PrepareForSleep
  <2>1. /\ signals \in Seq(BOOLEAN) /\ signals # <<>> /\ signals' = Tail(signals)
        /\ UNCHANGED power
        /\ inhibit_fd' = IF Head(signals) THEN FALSE ELSE inhibit_fd \/ power = "awake"
    BY <1>2 DEF PrepareForSleep, TakeDelayInhibitor, LastWord
  <2>2. CASE Tail(signals) = <<>>
    <3>1. Head(signals) <=> power # "awake"
      BY <2>1, <2>2, Dispatched DEF LastWord
    <3>2. inhibit_fd' <=> power = "awake"
      BY <2>1, <3>1
    <3> QED
      BY <2>1, <2>2, <3>2, Dispatched DEF LastWord
  <2>3. CASE Tail(signals) # <<>>
    BY <2>1, <2>3, Dispatched DEF LastWord
  <2> QED
    BY <2>2, <2>3
<1>3. CASE Suspend
  <2>1. power' = "preparing" /\ signals' = Append(signals, TRUE)
    BY <1>3 DEF Suspend
  <2> QED
    BY <2>1, Announced DEF LastWord
<1>4. CASE FallAsleep
  <2>1. power = "preparing" /\ power' \in {"asleep", "forced"} /\ UNCHANGED <<signals, inhibit_fd>>
    BY <1>4 DEF FallAsleep
  <2> QED
    BY <2>1 DEF LastWord
<1>5. CASE WakeUp
  <2>1. power' = "awake" /\ signals' = Append(signals, FALSE)
    BY <1>5 DEF WakeUp
  <2> QED
    BY <2>1, Announced DEF LastWord
<1> QED
  BY <1>1, <1>2, <1>3, <1>4, <1>5 DEF SleepNext, allVars

(* Awake with nothing to dispatch the lock screen holds the inhibitor for the *)
(* next sleep, and preparing with nothing to dispatch it does not hold that   *)
(* sleep up, however sleeps and their late signals follow one another         *)
(* (logind.vala take_delay_inhibitor(), manager.vala's handler).              *)
THEOREM InhibitorCorrect == SleepSpec => []InhibitorInStep
<1>1. LastWord => InhibitorInStep
  BY DEF LastWord, InhibitorInStep, InhibitorRearmed, SleepNotHeldUp
<1> QED
  BY <1>1, InitLastWord, NextLastWord, PTL DEF SleepSpec

(* The sleep handler locks as any other caller does, and nothing else of      *)
(* logind touches the lock screen: the composition is a LockManager.          *)
THEOREM SleepKeepsLock == SleepSpec => Spec
<1>1. SleepInit => Init
  BY DEF SleepInit
<1>2. [SleepNext]_allVars => [Next]_vars
  <2>1. PrepareForSleep => LockRequested \/ UNCHANGED vars
    BY Zenon DEF PrepareForSleep, LockRequested, vars
  <2> QED
    BY <2>1 DEF SleepNext, Next, allVars, Suspend, FallAsleep, WakeUp
<1> QED
  BY <1>1, <1>2, PTL DEF SleepSpec, Spec

(* The state stays well formed in a machine that sleeps, the bridge's too.    *)
THEOREM SleepTypesCorrect == SleepSpec => []SleepTypeOK
<1> DEFINE Bridge == inhibit_fd \in BOOLEAN
<1>1. LastWord /\ TypeOK /\ Bridge => SleepTypeOK
  BY DEF LastWord, SleepTypeOK
<1>2. SleepInit => Bridge
  BY DEF SleepInit
<1>3. Bridge /\ [SleepNext]_allVars => Bridge'
  BY Zenon DEF SleepNext, PrepareForSleep, TakeDelayInhibitor, Suspend, FallAsleep, WakeUp,
               allVars, sleepVars
<1> HIDE DEF Bridge
<1> QED
  BY <1>1, <1>2, <1>3, InitLastWord, NextLastWord, SleepKeepsLock, TypesCorrect, PTL
     DEF SleepSpec

(* So the lock stays an abstract session lock across sleeps.                  *)
THEOREM SleepRefinement == SleepSpec => ImplementsSessionLock
  BY SleepKeepsLock, Refinement, PTL
=============================================================================
