--------------------------- MODULE Notifications ---------------------------
(***************************************************************************)
(* lumen-notifications: the notification store and its expiry timers       *)
(* (notification_manager.vala), the banner stack with its leave animations *)
(* and the clear-all cascade (stack.vala, layer_window.vala), wired        *)
(* together in main.vala and driven from the bus (dbus_service.vala).      *)
(*                                                                         *)
(* All of it runs on one main loop.  A step is one D-Bus call, one user    *)
(* input, one timeout or the end of one animation, with every handler that *)
(* is called from it.  What a banner shows is abstracted away; a timeout   *)
(* is only "some" or "never".                                              *)
(***************************************************************************)
EXTENDS Naturals, Sequences, FiniteSets, SequencesExt

CONSTANTS
    MaxId,          \* bound: notifications submitted
    MaxReplaces,    \* bound: replacements of a notification by its client
    MaxCascades,    \* bound: cascades under way at once
    ClearThreshold  \* Theme.clear_threshold

ASSUME NotificationBounds ==
    /\ MaxId \in Nat /\ MaxReplaces \in Nat /\ MaxCascades \in Nat
    /\ ClearThreshold \in Nat

VARIABLES
    next_id,
    store,          \* ids in NotificationManager.store
    timed,          \* per id: expire_timeout # 0
    expire_source,  \* per id: the expire_source field is not 0
    sources,        \* per id: expiry timeouts pending on the main loop
    by_id,          \* ids of active banners
    leaving,        \* ids of banners whose leave animation runs
    clear_visible,  \* the "Clear all" button is shown
    visible,        \* the layer window is mapped
    cascades,       \* per running cascade, the ids still to close
    closed,         \* per id: NotificationClosed signals sent
    replaces        \* replacements so far (for the bound only)

managerVars == <<store, expire_source, sources, closed>>
stackVars   == <<by_id, leaving, clear_visible, visible>>
clientVars  == <<next_id, timed, replaces>>
vars == <<managerVars, stackVars, clientVars, cascades>>

Id == 1..MaxId

TypeOK ==
    /\ next_id \in 1..(MaxId + 1)
    /\ store \subseteq Id
    /\ timed \in [Id -> BOOLEAN]
    /\ expire_source \in [Id -> BOOLEAN]
    /\ sources \in [Id -> Nat]
    /\ by_id \subseteq Id /\ leaving \subseteq Id
    /\ clear_visible \in BOOLEAN /\ visible \in BOOLEAN
    /\ cascades \in Seq(Seq(Id) \ {<<>>})
    /\ closed \in [Id -> Nat]
    /\ replaces \in 0..MaxReplaces

Init ==
    /\ next_id = 1
    /\ store = {}
    /\ timed = [i \in Id |-> FALSE]
    /\ expire_source = [i \in Id |-> FALSE]
    /\ sources = [i \in Id |-> 0]
    /\ by_id = {} /\ leaving = {}
    /\ clear_visible = FALSE /\ visible = FALSE
    /\ cascades = <<>>
    /\ closed = [i \in Id |-> 0]
    /\ replaces = 0

-----------------------------------------------------------------------------
(* Helpers of the manager.                                                 *)

(* The pending timeouts after cancel_expire(id).                           *)
Cancelled(id) ==
    IF expire_source[id] THEN [sources EXCEPT ![id] = @ - 1] ELSE sources

(* arm_expire(id) with `rest` pending: a timeout unless it never expires.  *)
Arm(id, t, rest) ==
    /\ sources' = IF t THEN [rest EXCEPT ![id] = @ + 1] ELSE rest
    /\ expire_source' = [expire_source EXCEPT ![id] = t]

(* count_changed with the new active count.                                *)
CountChanged == clear_visible' = (Cardinality(by_id') > ClearThreshold)

(* dismiss_banner(): out of the active map at once, and start to leave.    *)
DismissBanner(id) ==
    IF id \in by_id
    THEN /\ by_id' = by_id \ {id}
         /\ leaving' = leaving \cup {id}
         /\ CountChanged
    ELSE UNCHANGED <<by_id, leaving, clear_visible>>

(* slip: the closing signal is sent before the id is looked up             *)
CloseUnchecked(id) ==
    /\ sources' = IF id \in store THEN Cancelled(id) ELSE sources
    /\ expire_source' = [expire_source EXCEPT ![id] = FALSE]
    /\ store' = store \ {id}
    /\ closed' = [closed EXCEPT ![id] = @ + 1]
    /\ DismissBanner(id)

(* close(): cancel the timer, drop it, tell the bus and dismiss the banner.*)
Close(id) ==
    IF id \in store
    THEN /\ sources' = Cancelled(id)
         /\ expire_source' = [expire_source EXCEPT ![id] = FALSE]
         /\ store' = store \ {id}
         /\ closed' = [closed EXCEPT ![id] = @ + 1]
         /\ DismissBanner(id)
    ELSE UNCHANGED <<managerVars, by_id, leaving, clear_visible>>

-----------------------------------------------------------------------------
(* The bus.                                                                *)

(* Notify with no replaces_id, or one that is not open: a new id.          *)
Notify(t) ==
    /\ next_id <= MaxId
    /\ next_id' = next_id + 1
    /\ store' = store \cup {next_id}
    /\ timed' = [timed EXCEPT ![next_id] = t]
    /\ by_id' = by_id \cup {next_id}
    /\ CountChanged
    /\ visible' = TRUE
    /\ Arm(next_id, t, sources)
    /\ UNCHANGED <<leaving, closed, replaces, cascades>>

(* slip: a replacement only arms a new timer                               *)
ReplaceKeepsTimer(id, t) ==
    /\ id \in store
    /\ replaces < MaxReplaces
    /\ replaces' = replaces + 1
    /\ timed' = [timed EXCEPT ![id] = t]
    /\ Arm(id, t, sources)
    /\ UNCHANGED <<next_id, store, closed, stackVars, cascades>>

(* slip: a replacement cancels the timer and arms none                     *)
ReplaceNeverArms(id, t) ==
    /\ id \in store
    /\ replaces < MaxReplaces
    /\ replaces' = replaces + 1
    /\ timed' = [timed EXCEPT ![id] = t]
    /\ Arm(id, FALSE, Cancelled(id))
    /\ UNCHANGED <<next_id, store, closed, stackVars, cascades>>

(* Notify that replaces an open notification in place.                     *)
Replace(id, t) ==
    /\ id \in store
    /\ replaces < MaxReplaces
    /\ replaces' = replaces + 1
    /\ timed' = [timed EXCEPT ![id] = t]
    /\ Arm(id, t, Cancelled(id))
    /\ UNCHANGED <<next_id, store, closed, stackVars, cascades>>

(* CloseNotification.                                                      *)
CloseNotification(id) ==
    /\ id < next_id
    /\ Close(id)
    /\ UNCHANGED <<clientVars, visible, cascades>>

-----------------------------------------------------------------------------
(* Timers.                                                                 *)

(* The timeout of arm_expire fires.                                        *)
Expire(id) ==
    /\ sources[id] > 0
    /\ sources' = [sources EXCEPT ![id] = @ - 1]
    /\ IF id \in store
         THEN /\ expire_source' = [expire_source EXCEPT ![id] = FALSE]
              /\ store' = store \ {id}
              /\ closed' = [closed EXCEPT ![id] = @ + 1]
              /\ DismissBanner(id)
         ELSE UNCHANGED <<expire_source, store, closed, by_id, leaving,
                          clear_visible>>
    /\ UNCHANGED <<clientVars, visible, cascades>>

-----------------------------------------------------------------------------
(* The user.                                                               *)

(* Banners that take input: a leaving one is insensitive.                  *)
Clickable == by_id

(* A click on the card.                                                    *)
Dismiss(id) ==
    /\ id \in Clickable
    /\ Close(id)
    /\ UNCHANGED <<clientVars, visible, cascades>>

(* An action button: ActionInvoked goes out, then the notification closes. *)
InvokeAction(id) ==
    /\ id \in Clickable
    /\ Close(id)
    /\ UNCHANGED <<clientVars, visible, cascades>>

(* The ids cascade_dismiss() snapshots, in display order.                  *)
Snapshot ==
    [k \in 1..Cardinality(by_id) |->
        CHOOSE id \in by_id : Cardinality({i \in by_id : i <= id}) = k]

(* "Clear all": close the first at once, the rest one timeout step each.   *)
ClearAll ==
    /\ clear_visible
    /\ Len(cascades) < MaxCascades
    /\ by_id # {}
    /\ Close(Head(Snapshot))
    /\ cascades' = IF Len(Snapshot) > 1 THEN Append(cascades, Tail(Snapshot))
                   ELSE cascades
    /\ UNCHANGED <<clientVars, visible>>

(* slip: index <= ids.length                                               *)
CascadeOffByOne(k) ==
    /\ k \in DOMAIN cascades
    /\ Close(Head(cascades[k]))
    /\ cascades' = [cascades EXCEPT ![k] = Tail(@)]
    /\ UNCHANGED <<clientVars, visible>>

(* The cascade's timeout: close the next id if it is still open.           *)
CascadeStep(k) ==
    /\ k \in DOMAIN cascades
    /\ Close(Head(cascades[k]))
    /\ cascades' = IF Len(cascades[k]) > 1 THEN [cascades EXCEPT ![k] = Tail(@)]
                   ELSE RemoveAt(cascades, k)
    /\ UNCHANGED <<clientVars, visible>>

-----------------------------------------------------------------------------
(* slip: the window is hidden when the last animation ends, whatever came  *)
(* in meanwhile                                                            *)
LeaveEndsHides(id) ==
    /\ id \in leaving
    /\ IF leaving = {id}
         THEN leaving' = {} /\ visible' = FALSE
         ELSE leaving' = leaving \ {id} /\ UNCHANGED visible
    /\ UNCHANGED <<managerVars, by_id, clear_visible, clientVars, cascades>>

(* The leave animation ends.  With no active banner `empty` hides the      *)
(* window, which ends the other animations as well: an unmapped revealer   *)
(* jumps to its target.                                                    *)
LeaveEnds(id) ==
    /\ id \in leaving
    /\ IF by_id = {}
         THEN leaving' = {} /\ visible' = FALSE
         ELSE leaving' = leaving \ {id} /\ UNCHANGED visible
    /\ UNCHANGED <<managerVars, by_id, clear_visible, clientVars, cascades>>

-----------------------------------------------------------------------------
Next ==
    \/ \E t \in BOOLEAN : Notify(t)
    \/ \E id \in Id, t \in BOOLEAN : Replace(id, t)
    \/ \E id \in Id : CloseNotification(id)
    \/ \E id \in Id : Expire(id)
    \/ \E id \in Id : Dismiss(id)
    \/ \E id \in Id : InvokeAction(id)
    \/ ClearAll
    \/ \E k \in 1..MaxCascades : CascadeStep(k)
    \/ \E id \in Id : LeaveEnds(id)

Spec == Init /\ [][Next]_vars

(* Timeouts fire and animations end; nothing is assumed of clients or of   *)
(* the user.                                                               *)
FairSpec ==
    /\ Spec
    /\ \A id \in Id : WF_vars(Expire(id))
    /\ \A id \in Id : WF_vars(LeaveEnds(id))
    /\ \A k \in 1..MaxCascades : WF_vars(CascadeStep(k))

-----------------------------------------------------------------------------
(* Every open notification that expires has exactly one timeout pending,   *)
(* which its expire_source names; no other timeout is pending, so a closed *)
(* or replaced notification leaves none behind.                            *)
OneTimerEach ==
    \A id \in Id :
      /\ sources[id] = IF id \in store /\ timed[id] THEN 1 ELSE 0
      /\ expire_source[id] <=> sources[id] = 1

(* The active banners are the open notifications and the leaving ones are  *)
(* closed; the window is shown exactly while there is a banner of either   *)
(* kind, and offers "Clear all" exactly above the threshold.               *)
WindowMatchesStack ==
    /\ by_id = store /\ leaving \cap store = {}
    /\ visible <=> by_id \cup leaving # {}
    /\ clear_visible <=> Cardinality(by_id) > ClearThreshold

(* NotificationClosed is sent once for each notification that was opened   *)
(* and is no longer open, however its close causes overlap.                *)
ClosedExactlyOnce ==
    \A id \in Id :
      closed[id] = IF id < next_id /\ id \notin store THEN 1 ELSE 0

(* A notification with a timeout is closed, unless made permanent.         *)
TimedNotificationsClose ==
    \A id \in Id : (id \in store /\ timed[id]) ~> (id \notin store \/ ~timed[id])

(* With all notifications closed the window goes away.                     *)
WindowHides == (store = {} /\ visible) ~> (~visible \/ store # {})

(* Whatever has a time to go is gone at last: notifications, then the      *)
(* window that showed them.                                                *)
EverythingEnds == TimedNotificationsClose /\ WindowHides
=============================================================================
