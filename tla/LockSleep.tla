----------------------------- MODULE LockSleep -----------------------------
(***************************************************************************)
(* LockManager composed with the logind bridge (lumen-common/logind.vala): *)
(* the delay inhibitor and the PrepareForSleep handler of manager.vala.    *)
(*                                                                         *)
(* logind is external.  It announces a sleep with PrepareForSleep(true),   *)
(* waits for delay inhibitors (or until its maximum delay has passed),     *)
(* suspends, and announces the wake-up with PrepareForSleep(false).  It    *)
(* grants no new delay inhibitor between the two.  Signals reach the lock  *)
(* screen's main loop in order, but late; while the machine sleeps the     *)
(* process is frozen.                                                      *)
(***************************************************************************)
EXTENDS LockManager, Sequences

CONSTANT MaxSignals     \* bound: no new sleep with this many signals queued

ASSUME SignalBoundAssumption == MaxSignals \in Nat

VARIABLES
    inhibit_fd,     \* the delay inhibitor is held
    power,          \* "awake", "preparing", "asleep" (inhibitors were released)
                    \* or "forced" (asleep after the maximum delay)
    signals         \* PrepareForSleep arguments not yet dispatched

sleepVars == <<inhibit_fd, power, signals>>
allVars == <<vars, sleepVars>>

SleepTypeOK ==
    /\ TypeOK
    /\ inhibit_fd \in BOOLEAN
    /\ power \in {"awake", "preparing", "asleep", "forced"}
    /\ signals \in Seq(BOOLEAN)

(* The bridge takes the inhibitor when it is constructed.                  *)
SleepInit ==
    /\ Init
    /\ inhibit_fd = TRUE
    /\ power = "awake"
    /\ signals = <<>>

Running == power \in {"awake", "preparing"}

-----------------------------------------------------------------------------
(* logind.                                                                 *)

Suspend ==
    /\ power = "awake"
    /\ Len(signals) < MaxSignals
    /\ power' = "preparing"
    /\ signals' = Append(signals, TRUE)
    /\ UNCHANGED <<vars, inhibit_fd>>

FallAsleep ==
    /\ power = "preparing"
    /\ power' = IF inhibit_fd THEN "forced" ELSE "asleep"
    /\ UNCHANGED <<vars, inhibit_fd, signals>>

(* The machine wakes up, or the suspend is abandoned.                      *)
WakeUp ==
    /\ power # "awake"
    /\ power' = "awake"
    /\ signals' = Append(signals, FALSE)
    /\ UNCHANGED <<vars, inhibit_fd>>

-----------------------------------------------------------------------------
(* take_delay_inhibitor(): a no-op when one is held; logind refuses a new  *)
(* one while it prepares a sleep.                                          *)
TakeDelayInhibitor == inhibit_fd' = (inhibit_fd \/ power = "awake")

(* slip: the inhibitor is not taken again after a sleep                    *)
PrepareForSleepOnce ==
    /\ signals # <<>>
    /\ signals' = Tail(signals)
    /\ IF Head(signals)
         THEN LockNow /\ inhibit_fd' = FALSE
         ELSE UNCHANGED <<lockVars, windowVars, monitors_handler, authVars,
                          backoffVars, armed, inhibit_fd>>
    /\ UNCHANGED <<connected, power>>

(* The prepare_for_sleep handler.                                          *)
PrepareForSleep ==
    /\ signals # <<>>
    /\ signals' = Tail(signals)
    /\ IF Head(signals)
         THEN LockNow /\ inhibit_fd' = FALSE
         ELSE /\ TakeDelayInhibitor
              /\ UNCHANGED <<lockVars, windowVars, monitors_handler, authVars,
                             backoffVars, armed>>
    /\ UNCHANGED <<connected, power>>

-----------------------------------------------------------------------------
SleepNext ==
    \/ Running /\ Next /\ UNCHANGED sleepVars
    \/ Running /\ PrepareForSleep
    \/ Suspend \/ FallAsleep \/ WakeUp

SleepSpec == SleepInit /\ [][SleepNext]_allVars

(* The machine wakes up, and between two sleeps the lock screen's process  *)
(* runs: what is due again and again is done, however often it is frozen.  *)
SleepFairSpec ==
    /\ SleepSpec
    /\ WF_allVars(WakeUp)
    /\ WF_allVars(Running /\ PrepareForSleep)
    /\ SF_allVars(Running /\ (OnLocked \/ OnFailed) /\ UNCHANGED sleepVars)
    /\ SF_allVars(Running /\ PamReturns /\ UNCHANGED sleepVars)
    /\ SF_allVars(Running /\ (PamAccepts \/ PamRejects) /\ UNCHANGED sleepVars)
    /\ SF_allVars(Running /\ BackoffExpires /\ UNCHANGED sleepVars)

-----------------------------------------------------------------------------
(* Awake and with no signal pending, the lock screen holds the inhibitor   *)
(* that the next sleep will wait for -- also after sleeps that followed so *)
(* quickly that a wake-up was handled while the next one was prepared.     *)
InhibitorRearmed == power = "awake" /\ signals = <<>> => inhibit_fd

(* logind is never made to wait out its maximum delay by an inhibitor that *)
(* outlives the handler: what it waits for is a signal still to dispatch.  *)
SleepNotHeldUp == power = "preparing" /\ signals = <<>> => ~inhibit_fd

(* The inhibitor is there for the next sleep, and it is given back for it. *)
InhibitorInStep == InhibitorRearmed /\ SleepNotHeldUp

(* logind.vala:14 "hold a *delay* sleep inhibitor so a locker can map      *)
(* before the kernel freezes the machine".  The handler releases the       *)
(* inhibitor when the request has been sent, not when it was granted, so   *)
(* the machine may be asleep with the request in flight: does not hold.    *)
LockMappedBeforeSleep == power = "asleep" => instance # "requested"
=============================================================================
