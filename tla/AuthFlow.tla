------------------------------ MODULE AuthFlow ------------------------------
(***************************************************************************)
(* lumen-polkit-agent: one authentication request, from polkitd's          *)
(* BeginAuthentication to the verdict the listener returns                 *)
(* (auth_flow.vala, listener.vala), with the state of the dialog that the  *)
(* flow depends on (dialog.vala).                                          *)
(*                                                                         *)
(* PolkitAgent.Session is external.  Its helper process asks for a         *)
(* password, reads what response() wrote, and completes.  Two of its calls *)
(* call back: cancel() emits `completed` with FALSE before it returns, and *)
(* so does initiate() when the helper cannot be started.  on_completed     *)
(* therefore runs inside restart_session() and start_session(); a step     *)
(* below is a main loop callback with all of that done.                    *)
(***************************************************************************)
EXTENDS Naturals

CONSTANTS
    Identity,       \* the identities polkit offers
    MAX_ATTEMPTS,
    SpawnMayFail,   \* can initiate() fail to start the helper?
    MaxAnswers      \* bound: responses the helper has not read yet

ASSUME AuthAssumption ==
    /\ Identity # {}
    /\ MAX_ATTEMPTS \in Nat \ {0}
    /\ SpawnMayFail \in BOOLEAN
    /\ MaxAnswers \in Nat \ {0}

VARIABLES
    run,            \* the coroutine: "new", "suspended" or "returned"
    returns,        \* how often it has returned to the listener
    verdict,        \* "none", "gained", "denied" or "cancelled"
    chosen,
    session,        \* the flow's Session and what its helper is doing
    done, gained, user_cancelled,
    cancellable,    \* polkitd's token is cancelled
    attempts,
    dialog,         \* "built", "shown" or "dismissed"
    busy,           \* the entry and its button are insensitive
    granted         \* history: the identity PAM accepted, if any

flowVars == <<done, gained, user_cancelled, cancellable, attempts>>
runVars  == <<run, returns, verdict, dialog>>
vars == <<flowVars, runVars, granted, chosen, session, busy>>

(* A live session asks its questions (asked) and reads its answers.        *)
Session == [live : BOOLEAN, identity : Identity, asked : BOOLEAN,
            answers : 0..MaxAnswers]

Fresh(id) == [live |-> TRUE, identity |-> id, asked |-> FALSE, answers |-> 0]
Dead(id)  == [live |-> FALSE, identity |-> id, asked |-> FALSE, answers |-> 0]

TypeOK ==
    /\ run \in {"new", "suspended", "returned"}
    /\ returns \in 0..2
    /\ verdict \in {"none", "gained", "denied", "cancelled"}
    /\ chosen \in Identity
    /\ session \in Session
    /\ done \in BOOLEAN /\ gained \in BOOLEAN /\ user_cancelled \in BOOLEAN
    /\ cancellable \in BOOLEAN
    /\ attempts \in 0..MAX_ATTEMPTS
    /\ dialog \in {"built", "shown", "dismissed"}
    /\ busy \in BOOLEAN
    /\ granted \in SUBSET Identity

Init ==
    /\ run = "new"
    /\ returns = 0
    /\ verdict = "none"
    /\ chosen \in Identity
    /\ session = Dead(chosen)
    /\ done = FALSE /\ gained = FALSE /\ user_cancelled = FALSE
    /\ cancellable = FALSE
    /\ attempts = 0
    /\ dialog = "built"
    /\ busy = FALSE
    /\ granted = {}

-----------------------------------------------------------------------------
(* finish(ok) resumes the coroutine, which decides, dismisses the dialog   *)
(* and returns, `times` over: the one call is the normal case.             *)
Return(ok, dismissed, times) ==
    /\ done' = TRUE
    /\ gained' = ok
    /\ run' = "returned"
    /\ returns' = returns + times
    /\ verdict' = IF dismissed THEN "cancelled"
                  ELSE IF ok THEN "gained" ELSE "denied"
    /\ dialog' = "dismissed"

(* How many sessions in a row fail in initiate() when n attempts are spent.*)
Failures(n) == IF SpawnMayFail THEN 0..(MAX_ATTEMPTS - n) ELSE {0}

(* start_session() for id with n attempts spent; each one that fails in    *)
(* initiate() is on_completed's retry, until the budget is spent.          *)
StartSession(id, n) ==
    \E f \in Failures(n) :
      /\ attempts' = n + f
      /\ IF n + f >= MAX_ATTEMPTS
           THEN Return(FALSE, user_cancelled \/ cancellable, 1) /\ session' = Dead(id)
           ELSE session' = Fresh(id) /\ UNCHANGED <<done, gained, runVars>>

(* slip: one retry too many                                                *)
DeniedOffByOne ==
    /\ busy' = FALSE
    /\ IF attempts + 1 > MAX_ATTEMPTS
         THEN /\ attempts' = attempts + 1
              /\ session' = Dead(chosen)
              /\ Return(FALSE, user_cancelled \/ cancellable, 1)
         ELSE /\ attempts' = attempts + 1
              /\ session' = Fresh(chosen)
              /\ UNCHANGED <<done, gained, runVars>>

(* on_completed(false) of the current session.                             *)
Denied ==
    /\ busy' = FALSE
    /\ IF attempts + 1 >= MAX_ATTEMPTS
         THEN /\ attempts' = attempts + 1
              /\ session' = Dead(chosen)
              /\ Return(FALSE, user_cancelled \/ cancellable, 1)
         ELSE StartSession(chosen, attempts + 1)

-----------------------------------------------------------------------------
(* initiate_authentication() -> run(): present, start a session, suspend.  *)
(* Sessions that all fail inside this call finish the flow before it is    *)
(* suspended: the coroutine is resumed while it runs, starts over from its *)
(* first statement, starts one more session, and returns; then the outer   *)
(* activation, which sees `done`, returns as well.                         *)
Run ==
    /\ run = "new"
    /\ \E f \in Failures(0) :
         /\ attempts' = f
         /\ IF f >= MAX_ATTEMPTS
              THEN /\ Return(FALSE, user_cancelled \/ cancellable, 2)
                   /\ session' \in {Fresh(chosen), Dead(chosen)}
              ELSE /\ run' = "suspended"
                   /\ dialog' = "shown"
                   /\ session' = Fresh(chosen)
                   /\ UNCHANGED <<done, gained, returns, verdict>>
    /\ UNCHANGED <<chosen, user_cancelled, cancellable, busy, granted>>

-----------------------------------------------------------------------------
(* The dialog.                                                             *)

(* on_submit(): Enter or the button, both insensitive while busy.          *)
Submit ==
    /\ dialog = "shown" /\ ~busy
    /\ session.live /\ ~done
    /\ session.answers < MaxAnswers
    /\ busy' = TRUE
    /\ session' = [session EXCEPT !.answers = @ + 1]
    /\ UNCHANGED <<flowVars, runVars, granted, chosen>>

(* slip: an early return of finish() is missed by the cancel handler       *)
CancelForgets ==
    /\ dialog = "shown"
    /\ ~done
    /\ Return(FALSE, cancellable, 1)
    /\ session' = Dead(chosen)
    /\ UNCHANGED <<user_cancelled, cancellable, attempts, chosen, busy, granted>>

(* Cancel, Esc or a close of the window.                                   *)
Cancel ==
    /\ dialog = "shown"
    /\ ~done
    /\ user_cancelled' = TRUE
    /\ Return(FALSE, TRUE, 1)
    /\ session' = Dead(chosen)
    /\ UNCHANGED <<cancellable, attempts, chosen, busy, granted>>

(* identity_changed -> restart_session().  Cancelling the old session runs *)
(* on_completed, which counts an attempt and either starts a session of    *)
(* its own, dropped a moment later for another one, or finishes the flow;  *)
(* restart_session() starts a session even then.                           *)
IdentityChanged(id) ==
    /\ dialog = "shown"
    /\ id # chosen
    /\ chosen' = id
    /\ busy' = FALSE
    /\ \E f \in Failures(attempts + 1) :
         LET n == attempts + 1 + f
         IN  IF n >= MAX_ATTEMPTS
             THEN /\ attempts' = n
                  /\ Return(FALSE, user_cancelled \/ cancellable, 1)
                  /\ session' \in IF SpawnMayFail THEN {Fresh(id), Dead(id)}
                                  ELSE {Fresh(id)}
             ELSE StartSession(id, n)
    /\ UNCHANGED <<user_cancelled, cancellable, granted>>

-----------------------------------------------------------------------------
(* The helper, and polkitd.                                                *)

(* The helper asks: show_prompt() gives the entry back.                    *)
Ask ==
    /\ session.live /\ ~session.asked /\ ~done
    /\ session' = [session EXCEPT !.asked = TRUE]
    /\ busy' = FALSE
    /\ UNCHANGED <<flowVars, runVars, granted, chosen>>

(* slip: only the first prompt gives the entry back                        *)
AskAgainStaysBusy ==
    /\ session.live /\ session.asked /\ session.answers > 0 /\ ~done
    /\ session' = [session EXCEPT !.answers = @ - 1]
    /\ UNCHANGED <<flowVars, runVars, granted, chosen, busy>>

(* It reads an answer and asks another question.                           *)
AskAgain ==
    /\ session.live /\ session.asked /\ session.answers > 0 /\ ~done
    /\ session' = [session EXCEPT !.answers = @ - 1]
    /\ busy' = FALSE
    /\ UNCHANGED <<flowVars, runVars, granted, chosen>>

(* It reads an answer and PAM accepts: completed(TRUE).                    *)
Accept ==
    /\ session.live /\ session.asked /\ session.answers > 0 /\ ~done
    /\ granted' = {session.identity}
    /\ Return(TRUE, user_cancelled \/ cancellable, 1)
    /\ session' = Dead(chosen)
    /\ UNCHANGED <<user_cancelled, cancellable, attempts, chosen, busy>>

(* PAM denies, or the helper gives up: completed(FALSE).                   *)
Deny ==
    /\ session.live /\ ~done
    /\ Denied
    /\ UNCHANGED <<user_cancelled, cancellable, chosen, granted>>

(* slip: finish() resumes a flow that is done already                      *)
CancelAuthenticationTwice ==
    /\ run # "new" /\ returns < 2
    /\ cancellable' = TRUE
    /\ Return(FALSE, TRUE, 1)
    /\ session' = Dead(chosen)
    /\ UNCHANGED <<user_cancelled, attempts, chosen, busy, granted>>

(* polkitd's CancelAuthentication.                                         *)
CancelAuthentication ==
    /\ run = "suspended"
    /\ cancellable' = TRUE
    /\ Return(FALSE, TRUE, 1)
    /\ session' = Dead(chosen)
    /\ UNCHANGED <<user_cancelled, attempts, chosen, busy, granted>>

Next ==
    \/ Run \/ Submit \/ Cancel
    \/ \E id \in Identity : IdentityChanged(id)
    \/ Ask \/ AskAgain \/ Accept \/ Deny \/ CancelAuthentication

Spec == Init /\ [][Next]_vars

(* The helper starts asking, and reacts to an answer it has asked for; the *)
(* number of its questions is not bounded, so it need not ever complete.   *)
FairSpec ==
    /\ Spec
    /\ WF_vars(Run)
    /\ WF_vars(Ask)
    /\ WF_vars(session.answers > 0 /\ session.asked /\ (AskAgain \/ Accept \/ Deny))

-----------------------------------------------------------------------------
(* A suspended flow always has a session to type into, for the identity    *)
(* that the dialog shows as chosen.                                        *)
SuspendedHasSession ==
    run = "suspended" => session.live /\ session.identity = chosen

(* auth_flow.vala:4 "suspends the listener's async                         *)
(* initiate_authentication() until the user either authenticates, cancels, *)
(* or runs out of attempts": the coroutine returns once, when the flow is  *)
(* done, and takes its dialog down.                                        *)
ReturnsOnce ==
    /\ returns = IF done THEN 1 ELSE 0
    /\ dialog = "dismissed" <=> done

(* Until it returns, and then once, the flow is one that a user can end.   *)
FlowInStep == SuspendedHasSession /\ ReturnsOnce

(* "gained" is returned only for a password PAM accepted for the identity  *)
(* that was chosen then; "denied" only when the budget is spent; and a     *)
(* cancellation is never reported as either.                               *)
VerdictIsRight ==
    /\ verdict = "gained" => granted = {chosen}
    /\ verdict = "denied" => attempts = MAX_ATTEMPTS
    /\ user_cancelled \/ cancellable => verdict = "cancelled"

(* A busy dialog is given back or the flow ends.                           *)
BusyEnds == busy ~> (~busy \/ done)

=============================================================================
