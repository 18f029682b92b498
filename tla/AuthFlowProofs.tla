--------------------------- MODULE AuthFlowProofs ---------------------------
(***************************************************************************)
(* The safety of an authentication flow, for any identities and any number *)
(* of attempts.  That the coroutine returns once needs a helper that can   *)
(* be started; the rest holds when it may fail to.                         *)
(***************************************************************************)
EXTENDS AuthFlow, TLAPS

(* How coroutine, dialog and budget belong together: a flow that has not      *)
(* returned has attempts left and nobody has cancelled it; one that has not   *)
(* started has no session yet; one that has returned has no dialog, so none   *)
(* of the user's actions reaches it.                                          *)
Phases ==
    /\ done <=> run = "returned"
    /\ dialog = "dismissed" <=> done
    /\ run = "new" => dialog = "built" /\ attempts = 0 /\ ~session.live
    /\ run = "suspended" => dialog = "shown"
    /\ ~done => /\ returns = 0 /\ attempts < MAX_ATTEMPTS
                /\ ~user_cancelled /\ ~cancellable /\ verdict = "none"

IInv == TypeOK /\ Phases /\ SuspendedHasSession /\ VerdictIsRight

(* A new session, and one that is over.                                       *)
LEMMA Fields ==
    ASSUME NEW id \in Identity
    PROVE  /\ Fresh(id) \in Session /\ Dead(id) \in Session
           /\ Fresh(id).live /\ Fresh(id).identity = id /\ ~Dead(id).live
<1>1. 0 \in 0..MaxAnswers
  BY AuthAssumption
<1>2. Fresh(id) \in Session /\ Dead(id) \in Session
  BY <1>1 DEF Session, Fresh, Dead
<1>3. Fresh(id).live /\ Fresh(id).identity = id /\ ~Dead(id).live
  BY DEF Fresh, Dead
<1> QED
  BY <1>2, <1>3

(* The counters of TypeOK, and the rest of it.                                *)
Counts == returns \in 0..2 /\ attempts \in 0..MAX_ATTEMPTS

Shapes ==
    /\ run \in {"new", "suspended", "returned"}
    /\ verdict \in {"none", "gained", "denied", "cancelled"}
    /\ chosen \in Identity /\ session \in Session /\ granted \in SUBSET Identity
    /\ done \in BOOLEAN /\ gained \in BOOLEAN /\ user_cancelled \in BOOLEAN
    /\ cancellable \in BOOLEAN /\ busy \in BOOLEAN
    /\ dialog \in {"built", "shown", "dismissed"}

LEMMA Parts == TypeOK <=> Counts /\ Shapes
  BY Zenon DEF TypeOK, Counts, Shapes

LEMMA PartsNext == Counts' /\ Shapes' => TypeOK'
  BY Zenon DEF TypeOK, Counts, Shapes

LEMMA InitIInv == Init => IInv
<1> SUFFICES ASSUME Init PROVE IInv
  OBVIOUS
<1>1. session \in Session /\ ~session.live
  BY Fields DEF Init
<1>2. Counts
  BY AuthAssumption DEF Init, Counts
<1>3. Shapes
  BY <1>1, Zenon DEF Init, Shapes
<1>4. Phases
  BY <1>1, AuthAssumption DEF Init, Phases
<1>5. SuspendedHasSession /\ VerdictIsRight
  BY DEF Init, SuspendedHasSession, VerdictIsRight
<1> QED
  BY <1>2, <1>3, <1>4, <1>5, Parts DEF IInv

(* A step by which a flow that has not returned waits with a live session.    *)
GoesOn ==
    /\ ~done /\ run' = "suspended" /\ dialog' = "shown"
    /\ UNCHANGED <<returns, verdict, done, gained, user_cancelled, cancellable, granted>>
    /\ chosen' \in Identity /\ session' \in Session /\ busy' \in BOOLEAN
    /\ session'.live /\ session'.identity = chosen'
    /\ attempts' \in Nat /\ attempts' < MAX_ATTEMPTS

LEMMA GoesOnKeeps == ASSUME IInv, GoesOn PROVE IInv'
<1>1. ~done /\ verdict = "none" /\ returns = 0 /\ ~user_cancelled /\ ~cancellable
  BY DEF IInv, GoesOn, Phases
<1>2. Counts'
  BY Parts, AuthAssumption DEF IInv, GoesOn, Counts
<1>3. Shapes'
  BY Parts, Zenon DEF IInv, GoesOn, Shapes
<1>4. Phases'
  BY <1>1 DEF GoesOn, Phases
<1>5. SuspendedHasSession'
  BY DEF GoesOn, SuspendedHasSession
<1>6. VerdictIsRight'
  BY <1>1 DEF GoesOn, VerdictIsRight
<1> QED
  BY <1>2, <1>3, <1>4, <1>5, <1>6, PartsNext DEF IInv

(* A step by which a flow that has not returned does, `times` over.           *)
Ends(ok, dismissed, times) ==
    /\ ~done
    /\ Return(ok, dismissed, times)
    /\ chosen' \in Identity /\ session' \in Session /\ busy' \in BOOLEAN
    /\ granted' \in SUBSET Identity
    /\ user_cancelled' \in BOOLEAN /\ cancellable' \in BOOLEAN
    /\ attempts' \in 0..MAX_ATTEMPTS

LEMMA EndsKeeps ==
    ASSUME IInv, NEW ok \in BOOLEAN, NEW dismissed, NEW times \in 1..2,
           Ends(ok, dismissed, times), VerdictIsRight'
    PROVE  IInv'
<1>1. returns = 0
  BY DEF IInv, Ends, Phases
<1>2. returns' = times /\ done' = TRUE /\ run' = "returned" /\ dialog' = "dismissed"
  BY <1>1 DEF Ends, Return
<1>3. gained' \in BOOLEAN /\ verdict' \in {"none", "gained", "denied", "cancelled"}
  BY Zenon DEF Ends, Return
<1>4. Counts'
  BY <1>2 DEF Ends, Counts
<1>5. Shapes'
  BY <1>2, <1>3, Zenon DEF Ends, Shapes
<1>6. Phases'
  BY <1>2 DEF Phases
<1>7. SuspendedHasSession'
  BY <1>2 DEF SuspendedHasSession
<1> QED
  BY <1>4, <1>5, <1>6, <1>7, PartsNext DEF IInv

(* Denied for good: every attempt is spent.                                   *)
LEMMA BudgetSpent ==
    ASSUME IInv, ~done, NEW times \in 1..2, Return(FALSE, user_cancelled \/ cancellable, times),
           attempts' = MAX_ATTEMPTS, session' \in Session, chosen' \in Identity,
           busy' \in BOOLEAN, UNCHANGED <<user_cancelled, cancellable, granted>>
    PROVE  IInv'
<1>1. ~user_cancelled /\ ~cancellable
  BY DEF IInv, Phases
<1>2. granted \in SUBSET Identity /\ user_cancelled \in BOOLEAN /\ cancellable \in BOOLEAN
  BY Parts, Zenon DEF IInv, Shapes
<1>3. attempts' \in 0..MAX_ATTEMPTS
  BY AuthAssumption
<1>4. verdict' = "denied"
  BY <1>1, Zenon DEF Return
<1>5. VerdictIsRight'
  BY <1>1, <1>4 DEF VerdictIsRight
<1>6. Ends(FALSE, user_cancelled \/ cancellable, times)
  BY <1>2, <1>3, Zenon DEF Ends
<1> QED
  BY <1>5, <1>6, EndsKeeps

(* How many sessions fail to start never exceeds the budget.                  *)
LEMMA FailuresFit ==
    ASSUME NEW n \in Nat, n <= MAX_ATTEMPTS, NEW f \in Failures(n)
    PROVE  f \in Nat /\ n + f \in Nat /\ n + f <= MAX_ATTEMPTS
<1>1. CASE SpawnMayFail
  BY <1>1, AuthAssumption DEF Failures
<1>2. CASE ~SpawnMayFail
  BY <1>2, AuthAssumption DEF Failures
<1> QED
  BY <1>1, <1>2

(* A session that is started is there, or the last attempt is spent on it.    *)
LEMMA Starts ==
    ASSUME NEW id \in Identity, NEW n \in Nat, n <= MAX_ATTEMPTS, StartSession(id, n)
    PROVE  \/ /\ attempts' = MAX_ATTEMPTS /\ session' = Dead(id)
              /\ Return(FALSE, user_cancelled \/ cancellable, 1)
           \/ /\ attempts' \in Nat /\ attempts' < MAX_ATTEMPTS /\ session' = Fresh(id)
              /\ UNCHANGED <<done, gained, run, returns, verdict, dialog>>
<1>1. PICK f \in Failures(n) :
        /\ attempts' = n + f
        /\ IF n + f >= MAX_ATTEMPTS
             THEN Return(FALSE, user_cancelled \/ cancellable, 1) /\ session' = Dead(id)
             ELSE session' = Fresh(id) /\ UNCHANGED <<done, gained, runVars>>
  BY Zenon DEF StartSession
<1>2. n + f \in Nat /\ n + f <= MAX_ATTEMPTS
  BY FailuresFit
<1>3. CASE n + f >= MAX_ATTEMPTS
  <2>1. n + f = MAX_ATTEMPTS
    BY <1>2, <1>3, AuthAssumption
  <2> QED
    BY <1>1, <1>3, <2>1, Zenon
<1>4. CASE ~(n + f >= MAX_ATTEMPTS)
  <2>1. n + f < MAX_ATTEMPTS
    BY <1>2, <1>4, AuthAssumption
  <2>2. session' = Fresh(id) /\ UNCHANGED <<done, gained, runVars>>
    BY <1>1, <1>4, Zenon
  <2>3. attempts' \in Nat /\ attempts' < MAX_ATTEMPTS
    BY <1>1, <1>2, <2>1
  <2> QED
    BY <2>2, <2>3, Zenon DEF runVars
<1> QED
  BY <1>3, <1>4

(* A suspended flow that spends an attempt gets another session for `id`, or  *)
(* ends denied: what a denial and an identity change have in common.          *)
SpendsAttempt(id) ==
    /\ run = "suspended" /\ chosen' = id /\ busy' = FALSE
    /\ UNCHANGED <<user_cancelled, cancellable, granted>>
    /\ \/ /\ attempts' = MAX_ATTEMPTS /\ session' \in Session
          /\ Return(FALSE, user_cancelled \/ cancellable, 1)
       \/ StartSession(id, attempts + 1)

LEMMA SpendsAttemptKeeps == ASSUME IInv, NEW id \in Identity, SpendsAttempt(id) PROVE IInv'
<1>0. 1 \in 1..2
  OBVIOUS
<1>1. ~done /\ dialog = "shown"
  BY DEF IInv, Phases, SpendsAttempt
<1>2. attempts + 1 \in Nat /\ attempts + 1 <= MAX_ATTEMPTS
  BY <1>1, Parts, AuthAssumption DEF IInv, Phases, Counts
<1>3. CASE /\ attempts' = MAX_ATTEMPTS /\ session' \in Session
           /\ Return(FALSE, user_cancelled \/ cancellable, 1)
  BY <1>0, <1>1, <1>3, BudgetSpent DEF SpendsAttempt
<1>4. CASE /\ attempts' \in Nat /\ attempts' < MAX_ATTEMPTS /\ session' = Fresh(id)
           /\ UNCHANGED <<done, gained, run, returns, verdict, dialog>>
  <2>1. GoesOn
    BY <1>1, <1>4, Fields, Zenon DEF SpendsAttempt, GoesOn
  <2> QED
    BY <2>1, GoesOnKeeps
<1> QED
  BY <1>2, <1>3, <1>4, Starts, Fields, Zenon DEF SpendsAttempt

LEMMA NextIInv == IInv /\ [Next]_vars => IInv'
<1> SUFFICES ASSUME IInv, [Next]_vars PROVE IInv'
  OBVIOUS
<1>a. Counts /\ Shapes
  BY Parts DEF IInv
<1>b. /\ session.live /\ ~done => run = "suspended"
      /\ dialog = "shown" => run = "suspended"
  BY <1>a DEF IInv, Shapes, Phases
<1>c. run = "suspended" => ~done /\ dialog = "shown" /\ session.live /\ session.identity = chosen
  BY DEF IInv, Phases, SuspendedHasSession
<1>d. attempts \in Nat /\ (~done => attempts < MAX_ATTEMPTS)
  BY <1>a DEF Counts, IInv, Phases
<1>e. 1 \in 1..2
  OBVIOUS
<1>1. CASE Run
  <2>1. PICK f \in Failures(0) :
          /\ attempts' = f
          /\ IF f >= MAX_ATTEMPTS
               THEN /\ Return(FALSE, user_cancelled \/ cancellable, 2)
                    /\ session' \in {Fresh(chosen), Dead(chosen)}
               ELSE /\ run' = "suspended" /\ dialog' = "shown" /\ session' = Fresh(chosen)
                    /\ UNCHANGED <<done, gained, returns, verdict>>
    BY <1>1, Zenon DEF Run
  <2>2. /\ run = "new"
        /\ UNCHANGED <<chosen, user_cancelled, cancellable, busy, granted>>
    BY <1>1, Zenon DEF Run
  <2>3. ~done /\ chosen' \in Identity /\ busy' \in BOOLEAN
    BY <1>a, <2>2 DEF IInv, Phases, Shapes
  <2>4. f \in Nat /\ f <= MAX_ATTEMPTS
    BY FailuresFit, AuthAssumption
  <2>5. CASE f >= MAX_ATTEMPTS
    <3>1. attempts' = MAX_ATTEMPTS
      BY <2>1, <2>4, <2>5, AuthAssumption
    <3>2. /\ Return(FALSE, user_cancelled \/ cancellable, 2)
          /\ session' \in {Fresh(chosen), Dead(chosen)}
      BY <2>1, <2>5, Zenon
    <3>3. session' \in Session
      BY <1>a, <3>2, Fields DEF Shapes
    <3> QED
      BY <2>2, <2>3, <3>1, <3>2, <3>3, BudgetSpent
  <2>6. CASE ~(f >= MAX_ATTEMPTS)
    <3>1. attempts' \in Nat /\ attempts' < MAX_ATTEMPTS
      BY <2>1, <2>4, <2>6, AuthAssumption
    <3>2. /\ run' = "suspended" /\ dialog' = "shown" /\ session' = Fresh(chosen)
          /\ UNCHANGED <<done, gained, returns, verdict>>
      BY <2>1, <2>6, Zenon
    <3>3. session' \in Session /\ session'.live /\ session'.identity = chosen'
      BY <1>a, <2>2, <3>2, Fields DEF Shapes
    <3>4. GoesOn
      BY <2>2, <2>3, <3>1, <3>2, <3>3, Zenon DEF GoesOn
    <3> QED
      BY <3>4, GoesOnKeeps
  <2> QED
    BY <2>5, <2>6
<1>2. CASE Submit \/ Ask \/ AskAgain
  <2>1. /\ run = "suspended" /\ UNCHANGED <<flowVars, runVars, granted, chosen>>
        /\ busy' \in BOOLEAN
    BY <1>2, <1>b, Zenon DEF Submit, Ask, AskAgain
  <2>2. session' \in Session /\ session'.live /\ session'.identity = chosen'
    <3>1. session.answers \in 0..MaxAnswers /\ session \in Session
      BY <1>a DEF Shapes, Session
    <3>2. CASE Submit
      BY <1>a, <1>c, <2>1, <3>1, <3>2, AuthAssumption DEF Submit, Session
    <3>3. CASE Ask
      BY <1>a, <1>c, <2>1, <3>1, <3>3 DEF Ask, Session
    <3>4. CASE AskAgain
      BY <1>a, <1>c, <2>1, <3>1, <3>4, AuthAssumption DEF AskAgain, Session
    <3> QED
      BY <1>2, <3>2, <3>3, <3>4
  <2>3. attempts' \in Nat /\ attempts' < MAX_ATTEMPTS
    BY <1>c, <1>d, <2>1 DEF flowVars
  <2>4. GoesOn
    BY <1>a, <1>c, <2>1, <2>2, <2>3, Zenon DEF GoesOn, Shapes, flowVars, runVars
  <2> QED
    BY <2>4, GoesOnKeeps
<1>3. CASE Cancel \/ CancelAuthentication
  <2>1. /\ run = "suspended" /\ Return(FALSE, TRUE, 1) /\ session' = Dead(chosen)
        /\ user_cancelled' \in BOOLEAN /\ cancellable' \in BOOLEAN
        /\ UNCHANGED <<attempts, chosen, busy, granted>>
    BY <1>3, <1>a, <1>b, Zenon DEF Cancel, CancelAuthentication, Shapes
  <2>2. VerdictIsRight'
    BY <2>1 DEF Return, VerdictIsRight
  <2>3. Ends(FALSE, TRUE, 1)
    BY <1>a, <1>c, <2>1, Fields, Zenon DEF Ends, Shapes, Counts
  <2> QED
    BY <1>e, <2>2, <2>3, EndsKeeps
<1>4. ASSUME NEW id \in Identity, IdentityChanged(id) PROVE IInv'
  <2>1. /\ run = "suspended" /\ ~done /\ chosen' = id /\ busy' = FALSE
        /\ UNCHANGED <<user_cancelled, cancellable, granted>>
    BY <1>4, <1>b, <1>c, Zenon DEF IdentityChanged
  <2>2. PICK f \in Failures(attempts + 1) :
          IF attempts + 1 + f >= MAX_ATTEMPTS
          THEN /\ attempts' = attempts + 1 + f
               /\ Return(FALSE, user_cancelled \/ cancellable, 1)
               /\ session' \in IF SpawnMayFail THEN {Fresh(id), Dead(id)} ELSE {Fresh(id)}
          ELSE StartSession(id, attempts + 1 + f)
    BY <1>4, Zenon DEF IdentityChanged
  <2>3. attempts + 1 \in Nat /\ attempts + 1 <= MAX_ATTEMPTS
    BY <1>d, <2>1, AuthAssumption
  <2>4. attempts + 1 + f \in Nat /\ attempts + 1 + f <= MAX_ATTEMPTS
    BY <2>3, FailuresFit
  <2>5. CASE attempts + 1 + f >= MAX_ATTEMPTS
    <3>1. attempts + 1 + f = MAX_ATTEMPTS
      BY <2>4, <2>5, AuthAssumption
    <3>2. /\ attempts' = MAX_ATTEMPTS
          /\ Return(FALSE, user_cancelled \/ cancellable, 1)
          /\ session' \in IF SpawnMayFail THEN {Fresh(id), Dead(id)} ELSE {Fresh(id)}
      BY <2>2, <2>5, <3>1, Zenon
    <3>3. session' \in Session
      BY <3>2, Fields
    <3> QED
      BY <1>e, <2>1, <3>2, <3>3, BudgetSpent
  <2>6. CASE ~(attempts + 1 + f >= MAX_ATTEMPTS)
    <3>1. StartSession(id, attempts + 1 + f)
      BY <2>2, <2>6, Zenon
    <3>2. CASE /\ attempts' = MAX_ATTEMPTS /\ session' = Dead(id)
               /\ Return(FALSE, user_cancelled \/ cancellable, 1)
      BY <1>e, <2>1, <3>2, BudgetSpent, Fields
    <3>3. CASE /\ attempts' \in Nat /\ attempts' < MAX_ATTEMPTS /\ session' = Fresh(id)
               /\ UNCHANGED <<done, gained, run, returns, verdict, dialog>>
      <4>1. GoesOn
        BY <1>c, <2>1, <3>3, Fields, Zenon DEF GoesOn
      <4> QED
        BY <4>1, GoesOnKeeps
    <3> QED
      BY <2>4, <3>1, <3>2, <3>3, Starts
  <2> QED
    BY <2>5, <2>6
<1>5. CASE Accept
  <2>1. /\ run = "suspended" /\ Return(TRUE, user_cancelled \/ cancellable, 1)
        /\ session' = Dead(chosen) /\ granted' = {chosen}
        /\ UNCHANGED <<user_cancelled, cancellable, attempts, chosen, busy>>
    BY <1>5, <1>b, <1>c, Zenon DEF Accept
  <2>2. ~user_cancelled /\ ~cancellable
    BY <1>c, <2>1 DEF IInv, Phases
  <2>3. verdict' = "gained"
    BY <2>1, <2>2, Zenon DEF Return
  <2>4. VerdictIsRight'
    BY <2>1, <2>2, <2>3 DEF VerdictIsRight
  <2>5. granted' \in SUBSET Identity
    BY <1>a, <2>1 DEF Shapes
  <2>6. Ends(TRUE, user_cancelled \/ cancellable, 1)
    BY <1>a, <1>c, <2>1, <2>5, Fields, Zenon DEF Ends, Shapes, Counts
  <2> QED
    BY <1>e, <2>4, <2>6, EndsKeeps
<1>6. CASE Deny
  <2>1. /\ run = "suspended" /\ Denied
        /\ UNCHANGED <<user_cancelled, cancellable, chosen, granted>>
    BY <1>6, <1>b, Zenon DEF Deny
  <2>2. chosen \in Identity /\ chosen' = chosen /\ busy' = FALSE
    BY <1>a, <2>1, Zenon DEF Denied, Shapes
  <2>3. CASE attempts + 1 >= MAX_ATTEMPTS
    <3>1. /\ attempts' = attempts + 1 /\ session' = Dead(chosen)
          /\ Return(FALSE, user_cancelled \/ cancellable, 1)
      BY <2>1, <2>3, Zenon DEF Denied
    <3>2. attempts' = MAX_ATTEMPTS
      BY <1>c, <1>d, <2>1, <2>3, <3>1, AuthAssumption
    <3>3. SpendsAttempt(chosen)
      BY <2>1, <2>2, <3>1, <3>2, Fields, Zenon DEF SpendsAttempt
    <3> QED
      BY <2>2, <3>3, SpendsAttemptKeeps
  <2>4. CASE ~(attempts + 1 >= MAX_ATTEMPTS)
    <3>1. SpendsAttempt(chosen)
      BY <2>1, <2>2, <2>4, Zenon DEF SpendsAttempt, Denied
    <3> QED
      BY <2>2, <3>1, SpendsAttemptKeeps
  <2> QED
    BY <2>3, <2>4
<1>7. CASE UNCHANGED vars
  <2>1. Counts' /\ Shapes'
    BY <1>7, <1>a DEF vars, flowVars, runVars, Counts, Shapes
  <2>2. Phases' /\ SuspendedHasSession' /\ VerdictIsRight'
    BY <1>7 DEF vars, flowVars, runVars, IInv, Phases, SuspendedHasSession, VerdictIsRight
  <2> QED
    BY <2>1, <2>2, PartsNext DEF IInv
<1> QED
  BY <1>1, <1>2, <1>3, <1>4, <1>5, <1>6, <1>7 DEF Next

LEMMA Invariance == Spec => []IInv
  BY InitIInv, NextIInv, PTL DEF Spec

(* The budget is never overdrawn and the coroutine never returns a third      *)
(* time, also when helpers fail to start inside any of the calls              *)
(* (auth_flow.vala on_completed(), restart_session()).                        *)
THEOREM TypesCorrect == Spec => []TypeOK
<1>1. IInv => TypeOK
  BY DEF IInv
<1> QED
  BY <1>1, Invariance, PTL

(* Nobody is told "gained" but for a password PAM accepted for the chosen     *)
(* identity, nor "denied" with attempts left or after a cancellation.         *)
THEOREM VerdictCorrect == Spec => []VerdictIsRight
<1>1. IInv => VerdictIsRight
  BY DEF IInv
<1> QED
  BY <1>1, Invariance, PTL

(* How often a step returns to the listener: once when it finishes a flow     *)
(* that was not done.                                                         *)
ReturnedOnce == returns = IF done THEN 1 ELSE 0

LEMMA StepsReturnOnce ==
    ~SpawnMayFail /\ IInv /\ ReturnedOnce /\ [Next]_vars => ReturnedOnce'
<1> SUFFICES ASSUME ~SpawnMayFail, IInv, ReturnedOnce, [Next]_vars PROVE ReturnedOnce'
  OBVIOUS
<1>1. \/ UNCHANGED <<done, returns>>
      \/ ~done /\ \E ok, dismissed : Return(ok, dismissed, 1)
  <2>a. /\ dialog = "shown" => ~done
        /\ run = "suspended" => ~done
    BY DEF IInv, Phases
  <2>1. CASE Run
    <3>1. Failures(0) = {0} /\ ~(0 >= MAX_ATTEMPTS)
      BY AuthAssumption DEF Failures
    <3> QED
      BY <2>1, <3>1, Zenon DEF Run
  <2>2. ASSUME NEW id, NEW n, StartSession(id, n)
        PROVE  \/ UNCHANGED <<done, returns>>
               \/ Return(FALSE, user_cancelled \/ cancellable, 1)
    BY <2>2, Zenon DEF StartSession, runVars
  <2>3. ASSUME NEW id \in Identity, IdentityChanged(id) PROVE <1>1!1 \/ <1>1!2
    BY <2>a, <2>2, <2>3, Zenon DEF IdentityChanged
  <2>4. CASE Deny
    BY <2>2, <2>4, Zenon DEF Deny, Denied
  <2>5. CASE Submit \/ Ask \/ AskAgain \/ UNCHANGED vars
    BY <2>5, Zenon DEF Submit, Ask, AskAgain, vars, flowVars, runVars
  <2>6. CASE Cancel \/ Accept \/ CancelAuthentication
    BY <2>a, <2>6, Zenon DEF Cancel, Accept, CancelAuthentication
  <2> QED
    BY <2>1, <2>3, <2>4, <2>5, <2>6 DEF Next
<1>2. CASE UNCHANGED <<done, returns>>
  BY <1>2 DEF ReturnedOnce
<1>3. ASSUME ~done, NEW ok, NEW dismissed, Return(ok, dismissed, 1) PROVE ReturnedOnce'
  <2>1. returns = 0 /\ returns' = returns + 1 /\ done' = TRUE
    BY <1>3, Zenon DEF Return, ReturnedOnce
  <2> QED
    BY <2>1 DEF ReturnedOnce
<1> QED
  BY <1>1, <1>2, <1>3

(* The coroutine returns to the listener once, with its dialog down, and a    *)
(* flow that waits has a session for the identity that is chosen, across      *)
(* every order of answers, denials, identity changes and cancellations        *)
(* (auth_flow.vala run(), on_completed(), finish()).                          *)
THEOREM FlowCorrect == ASSUME ~SpawnMayFail PROVE Spec => []FlowInStep
<1>1. Init => ReturnedOnce
  BY DEF Init, ReturnedOnce
<1>2. IInv /\ ReturnedOnce /\ [Next]_vars => ReturnedOnce'
  BY StepsReturnOnce
<1>3. IInv /\ ReturnedOnce => FlowInStep
  BY DEF IInv, Phases, ReturnedOnce, FlowInStep, ReturnsOnce
<1> QED
  BY <1>1, <1>2, <1>3, Invariance, PTL DEF Spec
=============================================================================
