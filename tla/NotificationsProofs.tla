------------------------ MODULE NotificationsProofs ------------------------
(***************************************************************************)
(* The safety of lumen-notifications, for any number of notifications,     *)
(* replacements and cascades.  A cascade may hold any ids: what is not in  *)
(* the store is not closed, which is all the proof needs to know of it.    *)
(***************************************************************************)
EXTENDS Notifications, FiniteSetTheorems, SequenceTheorems, TLAPS

Ids ==
    /\ next_id \in Nat \ {0}
    /\ store \subseteq Id /\ leaving \subseteq Id
    /\ \A id \in store \cup leaving : id < next_id

Timers ==
    /\ timed \in [Id -> BOOLEAN] /\ expire_source \in [Id -> BOOLEAN]
    /\ sources \in [Id -> Nat]
    /\ OneTimerEach

Signals == closed \in [Id -> Nat] /\ ClosedExactlyOnce

IInv == Ids /\ Timers /\ Signals /\ WindowMatchesStack

LEMMA InitIInv == Init => IInv
<1> SUFFICES ASSUME Init PROVE IInv
  OBVIOUS
<1>1. Ids
  BY DEF Init, Ids
<1>2. Timers
  BY DEF Init, Timers, OneTimerEach
<1>3. Signals
  BY DEF Init, Signals, ClosedExactlyOnce
<1>4. WindowMatchesStack
  <2>1. Cardinality({}) = 0
    BY FS_EmptySet
  <2>2. ~(Cardinality(by_id) > ClearThreshold)
    BY <2>1, NotificationBounds DEF Init
  <2> QED
    BY <2>2, Zenon DEF Init, WindowMatchesStack
<1> QED
  BY <1>1, <1>2, <1>3, <1>4 DEF IInv

(* The parts that a step leaves alone.                                        *)
LEMMA Unchanged ==
    /\ Ids /\ UNCHANGED <<next_id, store, leaving>> => Ids'
    /\ Timers /\ UNCHANGED <<timed, expire_source, sources, store>> => Timers'
    /\ Signals /\ UNCHANGED <<closed, next_id, store>> => Signals'
    /\ WindowMatchesStack /\ UNCHANGED <<by_id, store, leaving, visible, clear_visible>>
         => WindowMatchesStack'
  BY DEF Ids, Timers, OneTimerEach, Signals, ClosedExactlyOnce, WindowMatchesStack

(* What cancel_expire() leaves of the timeouts.                               *)
LEMMA CancelledTimers ==
    ASSUME Timers, NEW id \in Id
    PROVE  Cancelled(id) = [sources EXCEPT ![id] = 0]
<1>1. /\ sources \in [Id -> Nat] /\ sources[id] \in {0, 1}
      /\ (expire_source[id] <=> sources[id] = 1)
  BY DEF Timers, OneTimerEach
<1>2. CASE expire_source[id]
  <2>1. Cancelled(id) = [sources EXCEPT ![id] = sources[id] - 1]
    BY <1>2, Zenon DEF Cancelled
  <2> QED
    BY <1>1, <1>2, <2>1
<1>3. CASE ~expire_source[id]
  <2>1. Cancelled(id) = sources /\ sources[id] = 0
    BY <1>1, <1>3 DEF Cancelled
  <2> QED
    BY <1>1, <2>1
<1> QED
  BY <1>2, <1>3

(* An open notification goes, with its timer, one signal and its banner:      *)
(* close(), whoever calls it, and the expiry.                                 *)
LEMMA GoesAway ==
    ASSUME IInv, NEW id \in store,
           sources' = [sources EXCEPT ![id] = 0],
           expire_source' = [expire_source EXCEPT ![id] = FALSE],
           store' = store \ {id}, closed' = [closed EXCEPT ![id] = @ + 1],
           DismissBanner(id), UNCHANGED <<next_id, timed, visible>>
    PROVE  IInv'
<1>1. id \in Id /\ id \in by_id /\ id < next_id
  BY DEF IInv, Ids, WindowMatchesStack
<1>2. by_id' = by_id \ {id} /\ leaving' = leaving \cup {id} /\ CountChanged
  BY <1>1, Zenon DEF DismissBanner
<1>3. Ids'
  BY <1>1, <1>2 DEF IInv, Ids
<1>4. Timers'
  BY <1>1 DEF IInv, Timers, OneTimerEach
<1>5. Signals'
  BY <1>1 DEF IInv, Ids, Signals, ClosedExactlyOnce
<1>6. WindowMatchesStack'
  <2>1. by_id' = store' /\ leaving' \cap store' = {} /\ by_id' \cup leaving' = by_id \cup leaving
    BY <1>1, <1>2 DEF IInv, WindowMatchesStack
  <2> QED
    BY <1>2, <2>1, Zenon DEF IInv, WindowMatchesStack, CountChanged
<1> QED
  BY <1>3, <1>4, <1>5, <1>6 DEF IInv

LEMMA CloseKeeps ==
    ASSUME IInv, NEW id, Close(id), UNCHANGED <<next_id, timed, visible>>
    PROVE  IInv'
<1>1. CASE id \in store
  <2>1. id \in Id
    BY <1>1 DEF IInv, Ids
  <2>2. Cancelled(id) = [sources EXCEPT ![id] = 0]
    BY <2>1, CancelledTimers DEF IInv
  <2> QED
    BY <1>1, <2>2, GoesAway DEF Close
<1>2. CASE id \notin store
  BY <1>2, Unchanged DEF Close, managerVars, IInv
<1> QED
  BY <1>1, <1>2

LEMMA NextIInv == IInv /\ [Next]_vars => IInv'
<1> SUFFICES ASSUME IInv, [Next]_vars PROVE IInv'
  OBVIOUS
<1>1. ASSUME NEW t \in BOOLEAN, Notify(t) PROVE IInv'
  <2>1. /\ next_id \in Id /\ next_id \notin store \cup leaving /\ next_id \in Nat \ {0}
    BY <1>1, NotificationBounds DEF Notify, Id, IInv, Ids
  <2>2. Ids'
    BY <1>1, <2>1 DEF Notify, IInv, Ids
  <2>3. Timers'
    <3>1. /\ timed' = [timed EXCEPT ![next_id] = t]
          /\ expire_source' = [expire_source EXCEPT ![next_id] = t]
          /\ sources' = [sources EXCEPT ![next_id] = IF t THEN 1 ELSE 0]
          /\ store' = store \cup {next_id}
      <4>1. sources \in [Id -> Nat] /\ sources[next_id] = 0
        BY <2>1 DEF IInv, Timers, OneTimerEach
      <4>2. sources' = IF t THEN [sources EXCEPT ![next_id] = @ + 1] ELSE sources
        BY <1>1, Zenon DEF Notify, Arm
      <4>3. sources' = [sources EXCEPT ![next_id] = IF t THEN 1 ELSE 0]
        <5>1. CASE t
          BY <2>1, <4>1, <4>2, <5>1
        <5>2. CASE ~t
          <6>1. sources' = sources
            BY <4>2, <5>2, Zenon
          <6>2. sources' = [sources EXCEPT ![next_id] = 0]
            BY <2>1, <4>1, <6>1
          <6> QED
            BY <5>2, <6>2, Zenon
        <5> QED
          BY <5>1, <5>2
      <4>4. /\ timed' = [timed EXCEPT ![next_id] = t]
            /\ expire_source' = [expire_source EXCEPT ![next_id] = t]
            /\ store' = store \cup {next_id}
        BY <1>1, Zenon DEF Notify, Arm
      <4> QED
        BY <4>3, <4>4, Zenon
    <3> QED
      BY <2>1, <3>1 DEF IInv, Timers, OneTimerEach
  <2>4. Signals'
    BY <1>1, <2>1 DEF Notify, IInv, Ids, Signals, ClosedExactlyOnce, Id
  <2>5. WindowMatchesStack'
    <3>1. /\ by_id' = store' /\ leaving' \cap store' = {} /\ by_id' \cup leaving' # {}
      BY <1>1, <2>1 DEF Notify, IInv, WindowMatchesStack
    <3> QED
      BY <1>1, <3>1, Zenon DEF Notify, WindowMatchesStack, CountChanged
  <2> QED
    BY <2>2, <2>3, <2>4, <2>5 DEF IInv
<1>2. ASSUME NEW id \in Id, NEW t \in BOOLEAN, Replace(id, t) PROVE IInv'
  <2>1. Cancelled(id) = [sources EXCEPT ![id] = 0]
    BY CancelledTimers DEF IInv
  <2>2. /\ timed' = [timed EXCEPT ![id] = t] /\ expire_source' = [expire_source EXCEPT ![id] = t]
        /\ sources' = [sources EXCEPT ![id] = IF t THEN 1 ELSE 0]
        /\ id \in store /\ UNCHANGED store
    BY <1>2, <2>1 DEF Replace, Arm, IInv, Timers
  <2>3. Timers'
    BY <2>2 DEF IInv, Timers, OneTimerEach
  <2> QED
    BY <1>2, <2>3, Unchanged DEF Replace, stackVars, IInv
<1>3. ASSUME NEW id, Close(id), UNCHANGED <<next_id, timed, visible>> PROVE IInv'
  BY <1>3, CloseKeeps
<1>4. ASSUME NEW id \in Id,
             CloseNotification(id) \/ Dismiss(id) \/ InvokeAction(id)
      PROVE  IInv'
  BY <1>3, <1>4 DEF CloseNotification, Dismiss, InvokeAction, clientVars
<1>5. CASE ClearAll
  BY <1>3, <1>5 DEF ClearAll, clientVars
<1>6. ASSUME NEW k, CascadeStep(k) PROVE IInv'
  BY <1>3, <1>6 DEF CascadeStep, clientVars
<1>7. ASSUME NEW id \in Id, Expire(id) PROVE IInv'
  <2>1. id \in store /\ sources[id] = 1
    BY <1>7 DEF Expire, IInv, Timers, OneTimerEach
  <2>2. sources' = [sources EXCEPT ![id] = 0]
    BY <1>7, <2>1 DEF Expire
  <2> QED
    BY <1>7, <2>1, <2>2, GoesAway DEF Expire, clientVars
<1>8. ASSUME NEW id \in Id, LeaveEnds(id) PROVE IInv'
  <2>1. Ids'
    BY <1>8 DEF LeaveEnds, managerVars, clientVars, IInv, Ids
  <2>2. WindowMatchesStack'
    <3>1. /\ UNCHANGED <<by_id, store, clear_visible>> /\ leaving' \cap store' = {}
      BY <1>8 DEF LeaveEnds, managerVars, IInv, WindowMatchesStack
    <3>2. visible' <=> by_id' \cup leaving' # {}
      BY <1>8 DEF LeaveEnds, IInv, WindowMatchesStack
    <3> QED
      BY <3>1, <3>2, Zenon DEF IInv, WindowMatchesStack
  <2> QED
    BY <1>8, <2>1, <2>2, Unchanged DEF LeaveEnds, managerVars, clientVars, IInv
<1>9. CASE UNCHANGED vars
  BY <1>9, Unchanged DEF vars, managerVars, stackVars, clientVars, IInv
<1> QED
  BY <1>1, <1>2, <1>4, <1>5, <1>6, <1>7, <1>8, <1>9 DEF Next

LEMMA Invariance == Spec => []IInv
  BY InitIInv, NextIInv, PTL DEF Spec

(* One timeout for each notification that is to expire and none besides,      *)
(* across replacement, close, expiry and clear-all (notification_manager.vala *)
(* arm_expire(), cancel_expire()).                                            *)
THEOREM TimersCorrect == Spec => []OneTimerEach
<1>1. IInv => OneTimerEach
  BY DEF IInv, Timers
<1> QED
  BY <1>1, Invariance, PTL

(* NotificationClosed is sent once, however the causes of a close overlap.    *)
THEOREM SignalsCorrect == Spec => []ClosedExactlyOnce
<1>1. IInv => ClosedExactlyOnce
  BY DEF IInv, Signals
<1> QED
  BY <1>1, Invariance, PTL

(* The window is up exactly while a banner is active or leaving.              *)
THEOREM WindowCorrect == Spec => []WindowMatchesStack
<1>1. IInv => WindowMatchesStack
  BY DEF IInv
<1> QED
  BY <1>1, Invariance, PTL

-----------------------------------------------------------------------------
(* The cascades.                                                              *)

(* Every place of a finite set of numbers is taken: the places are distinct   *)
(* and as many as its members.                                                *)
LEMMA Places ==
    ASSUME NEW S \in SUBSET Nat, IsFiniteSet(S)
    PROVE  \A k \in 1..Cardinality(S) : \E i \in S : Cardinality({j \in S : j <= i}) = k
<1> DEFINE upto(i) == {j \in S : j <= i}
           place   == [i \in S |-> Cardinality(upto(i))]
           n       == Cardinality(S)
<1>1. n \in Nat /\ IsFiniteSet(1..n) /\ Cardinality(1..n) = n
  BY FS_CardinalityType, FS_Interval
<1>2. ASSUME NEW i \in S
      PROVE  IsFiniteSet(upto(i)) /\ Cardinality(upto(i)) \in 1..n
  <2>1. upto(i) \in SUBSET S /\ i \in upto(i)
    OBVIOUS
  <2> HIDE DEF upto
  <2>2. IsFiniteSet(upto(i)) /\ Cardinality(upto(i)) <= n
    BY <2>1, FS_Subset
  <2>3. Cardinality(upto(i)) \in Nat /\ Cardinality(upto(i)) # 0
    BY <2>1, <2>2, FS_CardinalityType, FS_EmptySet
  <2> QED
    BY <1>1, <2>2, <2>3
<1>3. ASSUME NEW i \in S, NEW j \in S, i < j
      PROVE  Cardinality(upto(i)) # Cardinality(upto(j))
  <2>1. i \in Nat /\ j \in Nat
    OBVIOUS
  <2>2. ASSUME NEW x \in S, x <= i PROVE x <= j
    <3>1. x \in Nat
      OBVIOUS
    <3> QED
      BY <1>3, <2>1, <2>2, <3>1
  <2>3. upto(i) \subseteq upto(j)
    BY <2>2
  <2>4. j \in upto(j) /\ j \notin upto(i)
    BY <1>3, <2>1
  <2>5. upto(i) \in SUBSET upto(j) /\ j \in upto(j) /\ j \notin upto(i)
    BY <2>3, <2>4
  <2> HIDE DEF upto
  <2>6. IsFiniteSet(upto(j))
    BY <1>2
  <2> QED
    BY <2>5, <2>6, FS_Subset
<1> HIDE DEF upto, n
<1>4. place \in Injection(S, 1..n)
  <2>1. place \in [S -> 1..n]
    BY <1>2
  <2>2. \A i, j \in S : place[i] = place[j] => i = j
    <3> SUFFICES ASSUME NEW i \in S, NEW j \in S, i # j PROVE place[i] # place[j]
      OBVIOUS
    <3>1. i < j \/ j < i
      OBVIOUS
    <3> QED
      BY <1>3, <3>1
  <2> QED
    BY <2>1, <2>2 DEF Injection, IsInjective
<1>5. place \in Surjection(S, 1..n)
  BY <1>1, <1>4, FS_Injection DEF n
<1> QED
  BY <1>5 DEF Surjection, n, upto

LEMMA SnapshotTypes ==
    ASSUME by_id \subseteq Id
    PROVE  Snapshot \in Seq(Id) /\ Len(Snapshot) = Cardinality(by_id)
<1>1. Id \in SUBSET Nat /\ IsFiniteSet(Id)
  BY FS_Interval, NotificationBounds DEF Id
<1>2. by_id \in SUBSET Nat /\ IsFiniteSet(by_id)
  BY <1>1, FS_Subset
<1>3. Cardinality(by_id) \in Nat
  BY <1>2, FS_CardinalityType
<1> DEFINE at(k) == CHOOSE id \in by_id : Cardinality({i \in by_id : i <= id}) = k
<1>4. \A k \in 1..Cardinality(by_id) : at(k) \in Id
  BY <1>2, Places
<1>5. Snapshot = [k \in 1..Cardinality(by_id) |-> at(k)]
  BY DEF Snapshot
<1> HIDE DEF at
<1> QED
  BY <1>3, <1>4, <1>5

(* What is left of a cascade when one of its ids has been closed.             *)
LEMMA TailLeft ==
    ASSUME NEW c \in Seq(Id) \ {<<>>}, Len(c) > 1
    PROVE  Tail(c) \in Seq(Id) \ {<<>>}
<1> DEFINE n == Len(c)
           m == Len(Tail(c))
<1>1. Tail(c) \in Seq(Id) /\ n \in Nat /\ n > 1 /\ m = n - 1
  BY HeadTailProperties
<1>2. m # 0
  <2> HIDE DEF n, m
  <2> QED
    BY <1>1
<1>3. Tail(c) # <<>>
  BY <1>2, EmptySeq
<1> QED
  BY <1>1, <1>3

LEMMA OneLeft ==
    ASSUME NEW S, NEW s \in Seq(S), NEW i \in DOMAIN s
    PROVE  RemoveAt(s, i) \in Seq(S)
<1>1. i \in 1 .. Len(s) /\ Len(s) \in Nat
  OBVIOUS
<1> DEFINE before == SubSeq(s, 1, i - 1)
           after  == SubSeq(s, i + 1, Len(s))
<1>2. before \in Seq(S) /\ after \in Seq(S)
  BY <1>1
<1>3. RemoveAt(s, i) = before \o after
  BY Zenon DEF RemoveAt
<1> HIDE DEF before, after
<1>4. before \o after \in Seq(S)
  BY <1>2
<1> QED
  BY <1>3, <1>4

(* The ids that are left to close are ids, and no cascade outlives its last.  *)
Bounds ==
    /\ next_id \in 1..(MaxId + 1) /\ replaces \in 0..MaxReplaces
    /\ cascades \in Seq(Seq(Id) \ {<<>>})

LEMMA ShowsStay == Spec => [](clear_visible \in BOOLEAN /\ visible \in BOOLEAN)
<1> DEFINE Shows == clear_visible \in BOOLEAN /\ visible \in BOOLEAN
<1>1. Init => Shows
  BY DEF Init
<1>2. Shows /\ [Next]_vars => Shows'
  <2> SUFFICES ASSUME Shows, [Next]_vars PROVE Shows'
    OBVIOUS
  <2>1. \A n : (n > ClearThreshold) \in BOOLEAN
    OBVIOUS
  <2>2. CountChanged => clear_visible' \in BOOLEAN
    BY <2>1 DEF CountChanged
  <2>3. \A id : Close(id) \/ DismissBanner(id) => clear_visible' \in BOOLEAN
    BY <2>2 DEF Close, DismissBanner
  <2>4. clear_visible' \in BOOLEAN
    BY <2>2, <2>3 DEF Next, vars, stackVars, Notify, Replace, CloseNotification, Expire, Dismiss,
       InvokeAction, ClearAll, CascadeStep, LeaveEnds
  <2>5. visible' \in BOOLEAN
    BY DEF Next, vars, stackVars, Notify, Replace, CloseNotification, Expire, Dismiss,
       InvokeAction, ClearAll, CascadeStep, LeaveEnds
  <2> QED
    BY <2>4, <2>5
<1> QED
  BY <1>1, <1>2, PTL DEF Spec

LEMMA InitBounds == Init => Bounds
  BY NotificationBounds, EmptySeq DEF Init, Bounds

LEMMA NextBounds == IInv /\ Bounds /\ [Next]_vars => Bounds'
<1> SUFFICES ASSUME IInv, Bounds, [Next]_vars PROVE Bounds'
  OBVIOUS
<1>1. ASSUME NEW t \in BOOLEAN, Notify(t) PROVE Bounds'
  BY <1>1, NotificationBounds DEF Notify, Bounds
<1>2. ASSUME NEW id \in Id, NEW t \in BOOLEAN, Replace(id, t) PROVE Bounds'
  BY <1>2, NotificationBounds DEF Replace, Bounds
<1>3. CASE \/ \E id \in Id : \/ CloseNotification(id) \/ Expire(id) \/ Dismiss(id)
                             \/ InvokeAction(id) \/ LeaveEnds(id)
           \/ UNCHANGED vars
  <2>1. UNCHANGED <<next_id, replaces, cascades>>
    BY <1>3 DEF CloseNotification, Expire, Dismiss, InvokeAction, LeaveEnds, clientVars, vars
  <2> QED
    BY <2>1 DEF Bounds
<1>4. CASE ClearAll
  <2>1. UNCHANGED <<next_id, replaces>>
    BY <1>4 DEF ClearAll, clientVars
  <2>2. cascades' \in Seq(Seq(Id) \ {<<>>})
    <3>1. Snapshot \in Seq(Id)
      BY SnapshotTypes DEF IInv, Ids, WindowMatchesStack
    <3>2. CASE Len(Snapshot) > 1 /\ cascades' = Append(cascades, Tail(Snapshot))
      <4>1. Snapshot # <<>>
        BY <3>2, EmptySeq
      <4>2. Tail(Snapshot) \in Seq(Id) \ {<<>>}
        BY <3>1, <3>2, <4>1, TailLeft
      <4> HIDE DEF Snapshot
      <4> QED
        BY <3>2, <4>2, AppendProperties DEF Bounds
    <3>3. CASE cascades' = cascades
      BY <3>3 DEF Bounds
    <3> QED
      BY <1>4, <3>2, <3>3 DEF ClearAll
  <2> QED
    BY <2>1, <2>2 DEF Bounds
<1>5. ASSUME NEW k, CascadeStep(k) PROVE Bounds'
  <2>1. UNCHANGED <<next_id, replaces>> /\ k \in DOMAIN cascades
    BY <1>5 DEF CascadeStep, clientVars
  <2>2. cascades \in Seq(Seq(Id) \ {<<>>})
    BY DEF Bounds
  <2>3. cascades[k] \in Seq(Id) \ {<<>>}
    BY <2>1, <2>2, ElementOfSeq, LenProperties
  <2>4. CASE Len(cascades[k]) > 1 /\ cascades' = [cascades EXCEPT ![k] = Tail(@)]
    <3>1. Tail(cascades[k]) \in Seq(Id) \ {<<>>}
      BY <2>3, <2>4, TailLeft
    <3>2. cascades' \in Seq(Seq(Id) \ {<<>>})
      BY <2>1, <2>2, <2>4, <3>1, ExceptSeq
    <3> QED
      BY <2>1, <3>2 DEF Bounds
  <2>5. CASE cascades' = RemoveAt(cascades, k)
    <3>1. cascades' \in Seq(Seq(Id) \ {<<>>})
      BY <2>1, <2>2, <2>5, OneLeft
    <3> QED
      BY <2>1, <3>1 DEF Bounds
  <2> QED
    BY <1>5, <2>4, <2>5 DEF CascadeStep
<1> QED
  BY <1>1, <1>2, <1>3, <1>4, <1>5 DEF Next

(* No cascade holds anything but ids or steps on when it is used up, no timer *)
(* count drops below nothing (notification_manager.vala, stack.vala).         *)
THEOREM TypesCorrect == Spec => []TypeOK
<1>1. IInv /\ Bounds /\ clear_visible \in BOOLEAN /\ visible \in BOOLEAN => TypeOK
  BY DEF TypeOK, IInv, Ids, Timers, Signals, Bounds, WindowMatchesStack
<1> QED
  BY <1>1, InitBounds, NextBounds, Invariance, ShowsStay, PTL DEF Spec
==============================================================================
