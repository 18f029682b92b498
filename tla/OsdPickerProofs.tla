--------------------------- MODULE OsdPickerProofs ---------------------------
(***************************************************************************)
(* The safety invariants of OsdPicker for any set of outputs and any       *)
(* number of outstanding children.                                         *)
(***************************************************************************)
EXTENDS OsdPicker, TLAPS

(* The inductive invariant.  Both timers are 0 or 1, so cancelling one leaves  *)
(* none; that the picker ends with every mirror dark needs PickerUndisturbed,  *)
(* and that a pill's timer is the only one needs NothingStaysOnScreen.         *)
IInv ==
    /\ hide \in {0, 1} /\ lit \subseteq mirrors
    /\ GrabOnlyWhilePicking
    /\ OneDismissTimer
    /\ PickerUndisturbed
    /\ PillUndisturbed
    /\ NothingStaysOnScreen
    /\ OneWindowEach

LEMMA InitIInv == Init => IInv
  BY DEF Init, IInv, GrabOnlyWhilePicking, OneDismissTimer, PickerUndisturbed,
         PillUndisturbed, NothingStaysOnScreen, OneWindowEach

(* The end of a pick, by key, pointer or timer, re-establishes the invariant.  *)
LEMMA EndPickKeeps ==
    ASSUME IInv, active, EndPick,
           UNCHANGED <<hide, view, primary_monitor, mirrors, lit, connected>>
    PROVE  IInv'
  BY DEF IInv, EndPick, Cancelled, GrabOnlyWhilePicking, OneDismissTimer,
         PickerUndisturbed, PillUndisturbed, NothingStaysOnScreen, OneWindowEach

(* So does a move of the highlight in an open picker.                          *)
LEMMA MoveToKeeps ==
    ASSUME IInv, active, NEW i, MoveTo(i),
           UNCHANGED <<hide, primary_monitor, mirrors, lit, connected>>
    PROVE  IInv'
  BY DEF IInv, MoveTo, Arm, Cancelled, GrabOnlyWhilePicking, OneDismissTimer,
         PickerUndisturbed, PillUndisturbed, NothingStaysOnScreen, OneWindowEach

LEMMA NextIInv == IInv /\ [Next]_vars => IInv'
<1> SUFFICES ASSUME IInv, [Next]_vars PROVE IInv'
  OBVIOUS
<1> USE DEF group, picker, primary, children, Elsewhere
<1>1. CASE BeginPicker
  <2>1. CASE ~active
    BY <1>1, <2>1 DEF BeginPicker, Open, Arm, Cancelled, IInv, GrabOnlyWhilePicking,
         OneDismissTimer, PickerUndisturbed,
         PillUndisturbed, NothingStaysOnScreen, OneWindowEach
  <2>2. CASE active
    <3>1. hide' = hide
      BY <1>1, <2>2 DEF BeginPicker, Cancelled, IInv, PickerUndisturbed
    <3> QED BY <1>1, <2>2, <3>1, MoveToKeeps DEF BeginPicker
  <2> QED BY <2>1, <2>2
<1>2. CASE FocusIn
  BY <1>2 DEF FocusIn, IInv, GrabOnlyWhilePicking, OneDismissTimer, PickerUndisturbed,
              PillUndisturbed, NothingStaysOnScreen, OneWindowEach
<1>3. CASE SuperDown
  BY <1>3 DEF SuperDown, IInv, GrabOnlyWhilePicking, OneDismissTimer, PickerUndisturbed,
              PillUndisturbed, NothingStaysOnScreen, OneWindowEach
<1>4. ASSUME NEW asKey \in BOOLEAN, SuperUp(asKey) PROVE IInv'
  <2>1. CASE active /\ focused /\ (asKey \/ saw_super)
    BY <1>4, <2>1, EndPickKeeps DEF SuperUp, Commit
  <2>2. CASE ~(active /\ focused /\ (asKey \/ saw_super))
    BY <1>4, <2>2 DEF SuperUp, IInv, GrabOnlyWhilePicking, OneDismissTimer,
                      PickerUndisturbed,
                      PillUndisturbed, NothingStaysOnScreen, OneWindowEach
  <2> QED BY <2>1, <2>2
<1>5. ASSUME NEW k \in {"Escape", "Left", "Right", "Return"}, Key(k) PROVE IInv'
  <2>1. CASE Cancel
    BY <1>5, <2>1, EndPickKeeps DEF Key, Cancel
  <2>2. CASE MoveTo((index - 1 + TILE_COUNT) % TILE_COUNT)
    BY <1>5, <2>2, MoveToKeeps DEF Key
  <2>3. CASE MoveTo((index + 1) % TILE_COUNT)
    BY <1>5, <2>3, MoveToKeeps DEF Key
  <2>4. CASE Commit(index)
    BY <1>5, <2>4, EndPickKeeps DEF Key, Commit
  <2> QED BY <1>5, <2>1, <2>2, <2>3, <2>4 DEF Key
<1>6. ASSUME NEW i \in 0 .. ABORT_INDEX, Hovered(i) PROVE IInv'
  BY <1>6, MoveToKeeps DEF Hovered
<1>7. ASSUME NEW i \in 0 .. ABORT_INDEX, Chosen(i) PROVE IInv'
  BY <1>7, EndPickKeeps DEF Chosen, Commit
<1>8. CASE DismissTimeout
  <2>1. active
    BY <1>8 DEF DismissTimeout, IInv, OneDismissTimer
  <2> QED BY <1>8, <2>1, EndPickKeeps DEF DismissTimeout, Cancel
<1>9. ASSUME NEW i \in DOMAIN seeds, SeedReads(i) \/ SeedFails(i) PROVE IInv'
  BY <1>9 DEF SeedReads, SeedFails, IInv, GrabOnlyWhilePicking, OneDismissTimer,
              PickerUndisturbed, PillUndisturbed, NothingStaysOnScreen, OneWindowEach
<1>10. ASSUME NEW i \in DOMAIN seeds, SeedArrives(i) PROVE IInv'
  BY <1>10 DEF SeedArrives, IInv, GrabOnlyWhilePicking, OneDismissTimer,
               PickerUndisturbed, PillUndisturbed, NothingStaysOnScreen, OneWindowEach
<1>11. ASSUME NEW i \in DOMAIN applies, NEW worked \in BOOLEAN, ApplyEnds(i, worked)
       PROVE  IInv'
  BY <1>11 DEF ApplyEnds, IInv, GrabOnlyWhilePicking, OneDismissTimer,
               PickerUndisturbed, PillUndisturbed, NothingStaysOnScreen, OneWindowEach
<1>12. ASSUME NEW ofApply \in BOOLEAN, Show(ofApply) PROVE IInv'
  BY <1>12 DEF Show, Present, Arm, Cancelled, IInv, GrabOnlyWhilePicking,
               OneDismissTimer, PickerUndisturbed,
               PillUndisturbed, NothingStaysOnScreen, OneWindowEach
<1>13. CASE Hide \/ HideTimeout
  BY <1>13 DEF Hide, HideTimeout, DoHide, Cancelled, IInv, GrabOnlyWhilePicking,
               OneDismissTimer, PickerUndisturbed,
               PillUndisturbed, NothingStaysOnScreen, OneWindowEach
<1>14. ASSUME NEW live \in SUBSET Monitor, MonitorsChanged(live) PROVE IInv'
  <2>1. OneWindowEach' /\ lit' = lit \cap mirrors'
    BY <1>14 DEF MonitorsChanged, Reconcile, OneWindowEach
  <2> QED
    BY <1>14, <2>1 DEF MonitorsChanged, IInv, GrabOnlyWhilePicking, OneDismissTimer,
                       PickerUndisturbed, PillUndisturbed, NothingStaysOnScreen
<1>15. CASE UNCHANGED vars
  BY <1>15 DEF vars, IInv, GrabOnlyWhilePicking, OneDismissTimer, PickerUndisturbed,
               PillUndisturbed, NothingStaysOnScreen, OneWindowEach
<1> QED BY <1>1, <1>2, <1>3, <1>4, <1>5, <1>6, <1>7, <1>8, <1>9, <1>10, <1>11,
           <1>12, <1>13, <1>14, <1>15 DEF Next

LEMMA Invariance == Spec => []IInv
  BY InitIInv, NextIInv, PTL DEF Spec

(* The keyboard grab, the idle timer and the picker agree in every state: no   *)
(* way out of a pick leaves the keyboard grabbed or a timer behind.            *)
THEOREM PickIsBracketed == Spec => []PickBracketed
<1>1. IInv => PickBracketed
  BY DEF IInv, PickBracketed
<1> QED BY <1>1, Invariance, PTL

(* Pill and picker never disturb each other on the window they share, and      *)
(* nothing is left on screen without a timer or a pick that takes it off.      *)
THEOREM ScreenIsShared == Spec => []ScreenShared
<1>1. IInv => ScreenShared
  BY DEF IInv, ScreenShared
<1> QED BY <1>1, Invariance, PTL

(* Any sequence of hotplugs leaves one window per output.                      *)
THEOREM OutputsCovered == Spec => []OneWindowEach
<1>1. IInv => OneWindowEach
  BY DEF IInv
<1> QED BY <1>1, Invariance, PTL
------------------------------------------------------------------------------
(* The types.  dismiss and hide are natural because of IInv alone: each is     *)
(* lowered in places that trust the other invariants.                          *)

Flags == {active, saw_super, user_moved, grabbed, visible, focused, super_down} \subseteq BOOLEAN

Tiles == index \in 0 .. ABORT_INDEX /\ last_index \in Modes /\ view \in {"pill", "selector"}

Outputs ==
    /\ primary_monitor \in Monitor \cup {NoMonitor}
    /\ mirrors \subseteq Monitor /\ connected \subseteq Monitor

Queries == mode \in Modes /\ seeds \in Seq(0 .. ABORT_INDEX) /\ Len(seeds) <= MaxSeeds

Changes == /\ applies \in Seq(Modes) /\ Len(applies) <= MaxApplies
           /\ chips \in 0 .. MaxApplies

Typed == Flags /\ Tiles /\ Outputs /\ Queries /\ Changes

LEMMA TypedIsTypeOK == IInv /\ Typed => TypeOK
<1> SUFFICES ASSUME IInv, Typed PROVE TypeOK
  OBVIOUS
<1>1. dismiss \in Nat /\ hide \in Nat /\ lit \subseteq mirrors
  BY DEF IInv, OneDismissTimer
<1> QED
  BY <1>1, Zenon DEF Typed, Flags, Tiles, Outputs, Queries, Changes, TypeOK

(* Two queues in a row are a queue.                                            *)
LEMMA Joined ==
    ASSUME NEW S, NEW a \in Seq(S), NEW b \in Seq(S)
    PROVE  a \o b \in Seq(S) /\ Len(a \o b) = Len(a) + Len(b)
  OBVIOUS

(* A child that ends leaves a queue that is one shorter.                       *)
LEMMA RemoveAtShortens ==
    ASSUME NEW S, NEW s \in Seq(S), NEW i \in DOMAIN s
    PROVE  /\ RemoveAt(s, i) \in Seq(S)
           /\ Len(RemoveAt(s, i)) = Len(s) - 1
           /\ s[i] \in S
<1>1. i \in 1 .. Len(s) /\ Len(s) \in Nat
  OBVIOUS
<1> DEFINE before == SubSeq(s, 1, i - 1)
           after  == SubSeq(s, i + 1, Len(s))
<1>2. before \in Seq(S) /\ Len(before) = i - 1
  BY <1>1
<1>3. after \in Seq(S) /\ Len(after) = Len(s) - i
  BY <1>1
<1>4. RemoveAt(s, i) = before \o after
  BY Zenon DEF RemoveAt
<1> HIDE DEF before, after
<1>5. before \o after \in Seq(S) /\ Len(before \o after) = Len(before) + Len(after)
  BY <1>2, <1>3, Joined
<1> QED
  BY <1>1, <1>2, <1>3, <1>4, <1>5

LEMMA InitTyped == Init => Typed
<1> SUFFICES ASSUME Init PROVE Typed
  OBVIOUS
<1>1. Flags /\ Outputs
  BY DEF Init, Flags, Outputs
<1>2. Tiles
  BY DEF Init, Tiles, ABORT_INDEX, Modes
<1>3. Queries /\ Changes
  BY PickerBoundAssumption DEF Init, Queries, Changes
<1> QED
  BY <1>1, <1>2, <1>3 DEF Typed

(* The highlight stays on a tile, in both directions.                          *)
LEMMA TileArithmetic ==
    ASSUME NEW t \in 0 .. ABORT_INDEX
    PROVE  /\ (t + 1) % TILE_COUNT \in 0 .. ABORT_INDEX
           /\ (t - 1 + TILE_COUNT) % TILE_COUNT \in 0 .. ABORT_INDEX
           /\ t # ABORT_INDEX => t \in Modes
  BY DEF ABORT_INDEX, TILE_COUNT, Modes

(* The steps that a pick is made of.                                           *)
LEMMA CommitTyped ==
    ASSUME Typed, NEW i \in 0 .. ABORT_INDEX, Commit(i),
           user_moved' \in BOOLEAN, super_down' \in BOOLEAN,
           UNCHANGED <<group, mode, seeds, chips>>
    PROVE  Typed'
<1>1. Flags'
  BY DEF Typed, Flags, Commit, EndPick
<1>2. Tiles'
  BY TileArithmetic DEF Typed, Tiles, Commit
<1>3. Outputs'
  BY DEF Typed, Outputs, group
<1>4. Queries'
  BY DEF Typed, Queries
<1>5. Changes'
  <2>1. CASE UNCHANGED applies
    BY <2>1 DEF Typed, Changes
  <2>2. CASE i # ABORT_INDEX /\ Len(applies) < MaxApplies /\ applies' = Append(applies, i)
    BY <2>2, TileArithmetic, PickerBoundAssumption DEF Typed, Changes
  <2> QED
    BY <2>1, <2>2 DEF Commit
<1> QED
  BY <1>1, <1>2, <1>3, <1>4, <1>5 DEF Typed

LEMMA CancelTyped ==
    ASSUME Typed, Cancel, super_down' \in BOOLEAN, UNCHANGED <<group, mode, seeds, chips>>
    PROVE  Typed'
<1>1. Flags'
  BY DEF Typed, Flags, Cancel, EndPick
<1> QED
  BY <1>1 DEF Typed, Tiles, Outputs, Queries, Changes, Cancel, group

LEMMA MoveToTyped ==
    ASSUME Typed, NEW i \in 0 .. ABORT_INDEX, MoveTo(i), UNCHANGED super_down,
           UNCHANGED <<primary_monitor, mirrors, connected, mode, seeds, chips>>
    PROVE  Typed'
<1>1. Flags'
  BY DEF Typed, Flags, MoveTo
<1> QED
  BY <1>1 DEF Typed, Tiles, Outputs, Queries, Changes, MoveTo

LEMMA NextTyped == Typed /\ [Next]_vars => Typed'
<1> SUFFICES ASSUME Typed, [Next]_vars PROVE Typed'
  OBVIOUS
<1>a. index \in 0 .. ABORT_INDEX
  BY DEF Typed, Tiles
<1>1. CASE BeginPicker
  <2>1. CASE active /\ MoveTo((index + 1) % TILE_COUNT) /\ UNCHANGED <<lit, seeds>>
    BY <1>a, <1>1, <2>1, MoveToTyped, TileArithmetic DEF BeginPicker
  <2>2. CASE ~active /\ Open
    <3>1. Flags'
      BY <1>1, <2>2 DEF Typed, Flags, BeginPicker, Open
    <3>2. Tiles'
      BY <2>2 DEF Typed, Tiles, Open, Modes, ABORT_INDEX
    <3>3. Queries'
      <4>1. /\ seeds \in Seq(0 .. ABORT_INDEX) /\ Len(seeds) < MaxSeeds
            /\ seeds' = Append(seeds, Unread) /\ UNCHANGED mode
        BY <1>1, <2>2 DEF Typed, Queries, BeginPicker, Open
      <4> QED
        BY <4>1, PickerBoundAssumption DEF Typed, Queries, Unread, ABORT_INDEX
    <3>4. Outputs' /\ Changes'
      BY <1>1, <2>2 DEF Typed, Outputs, Changes, BeginPicker, Open
    <3> QED
      BY <3>1, <3>2, <3>3, <3>4 DEF Typed
  <2> QED
    BY <1>1, <2>1, <2>2 DEF BeginPicker
<1>2. CASE FocusIn \/ SuperDown
  <2>1. Flags'
    BY <1>2, Zenon DEF Typed, Flags, FocusIn, SuperDown, primary
  <2> QED
    BY <1>2, <2>1 DEF Typed, Tiles, Outputs, Queries, Changes, FocusIn, SuperDown, primary,
                      Elsewhere, group
<1>3. ASSUME NEW asKey \in BOOLEAN, SuperUp(asKey) PROVE Typed'
  <2>1. super_down' = FALSE /\ UNCHANGED Elsewhere
    BY <1>3 DEF SuperUp
  <2>2. CASE Commit(index) /\ UNCHANGED user_moved
    BY <1>a, <2>1, <2>2, CommitTyped DEF Elsewhere, Typed, Flags
  <2>3. CASE UNCHANGED <<picker, dismiss, primary, focused, applies>>
    BY <2>1, <2>3 DEF Typed, Flags, Tiles, Outputs, Queries, Changes, picker, primary,
                      Elsewhere, group
  <2> QED
    BY <1>3, <2>2, <2>3 DEF SuperUp
<1>4. ASSUME NEW k \in {"Escape", "Left", "Right", "Return"}, Key(k) PROVE Typed'
  <2>1. UNCHANGED super_down /\ UNCHANGED Elsewhere /\ super_down' \in BOOLEAN
    BY <1>4 DEF Key, Typed, Flags
  <2>2. CASE Cancel
    BY <2>1, <2>2, CancelTyped DEF Elsewhere
  <2>3. CASE MoveTo((index - 1 + TILE_COUNT) % TILE_COUNT)
    BY <1>a, <2>1, <2>3, MoveToTyped, TileArithmetic DEF Elsewhere, group
  <2>4. CASE MoveTo((index + 1) % TILE_COUNT)
    BY <1>a, <2>1, <2>4, MoveToTyped, TileArithmetic DEF Elsewhere, group
  <2>5. CASE Commit(index) /\ UNCHANGED user_moved
    BY <1>a, <2>1, <2>5, CommitTyped DEF Elsewhere, Typed, Flags
  <2> QED
    BY <1>4, <2>2, <2>3, <2>4, <2>5 DEF Key
<1>5. ASSUME NEW i \in 0 .. ABORT_INDEX, Hovered(i) PROVE Typed'
  BY <1>5, MoveToTyped DEF Hovered, Elsewhere, group
<1>6. ASSUME NEW i \in 0 .. ABORT_INDEX, Chosen(i) PROVE Typed'
  BY <1>6, CommitTyped DEF Chosen, Elsewhere, Typed, Flags
<1>7. CASE DismissTimeout
  <2>1. UNCHANGED super_down /\ UNCHANGED Elsewhere /\ super_down' \in BOOLEAN
    BY <1>7 DEF DismissTimeout, Typed, Flags
  <2>2. CASE Cancel
    BY <2>1, <2>2, CancelTyped DEF Elsewhere
  <2>3. CASE UNCHANGED <<picker, primary, focused, applies>>
    BY <2>1, <2>3 DEF Typed, Flags, Tiles, Outputs, Queries, Changes, picker, primary,
                      Elsewhere, group
  <2> QED
    BY <1>7, <2>2, <2>3 DEF DismissTimeout
<1>8. ASSUME NEW i \in DOMAIN seeds, SeedReads(i) \/ SeedArrives(i) \/ SeedFails(i)
      PROVE  Typed'
  <2>a. mode \in 0 .. ABORT_INDEX /\ seeds \in Seq(0 .. ABORT_INDEX)
    BY DEF Typed, Queries, Modes, ABORT_INDEX
  <2>1. seeds' \in Seq(0 .. ABORT_INDEX) /\ Len(seeds') <= Len(seeds)
    <3>1. CASE seeds' = [seeds EXCEPT ![i] = mode]
      BY <2>a, <3>1
    <3>2. CASE seeds' = RemoveAt(seeds, i)
      BY <2>a, <3>2, RemoveAtShortens
    <3> QED
      BY <1>8, <3>1, <3>2 DEF SeedReads, SeedArrives, SeedFails
  <2>2. Queries'
    BY <1>8, <2>a, <2>1, PickerBoundAssumption
       DEF Typed, Queries, SeedReads, SeedArrives, SeedFails
  <2>3. Tiles'
    BY <1>8, <2>a, RemoveAtShortens
       DEF Typed, Tiles, SeedReads, SeedArrives, SeedFails, picker, primary
  <2> QED
    BY <1>8, <2>2, <2>3 DEF Typed, Flags, Outputs, Changes, SeedReads, SeedArrives, SeedFails,
                            picker, primary, group
<1>9. ASSUME NEW i \in DOMAIN applies, NEW worked \in BOOLEAN, ApplyEnds(i, worked)
      PROVE  Typed'
  <2>1. /\ applies \in Seq(Modes) /\ applies' = RemoveAt(applies, i)
        /\ UNCHANGED <<picker, primary, group, focused, super_down, seeds>>
    BY <1>9 DEF ApplyEnds, Typed, Changes
  <2>2. applies' \in Seq(Modes) /\ Len(applies') <= MaxApplies /\ applies[i] \in Modes
    BY <2>1, RemoveAtShortens, PickerBoundAssumption DEF Typed, Changes
  <2>3. mode' \in Modes
    BY <1>9, <2>2, Zenon DEF ApplyEnds, Typed, Queries
  <2>4. chips' = chips \/ (chips < MaxApplies /\ chips' = chips + 1)
    BY <1>9, Zenon DEF ApplyEnds
  <2>5. Changes'
    BY <2>2, <2>4, PickerBoundAssumption DEF Typed, Changes
  <2> QED
    BY <2>1, <2>3, <2>5 DEF Typed, Flags, Tiles, Outputs, Queries, picker, primary, group
<1>10. ASSUME NEW ofApply \in BOOLEAN, Show(ofApply) PROVE Typed'
  <2>1. Flags' /\ Tiles' /\ Outputs' /\ Queries'
    BY <1>10 DEF Typed, Flags, Tiles, Outputs, Queries, Show, Present, picker
  <2>2. chips' = chips \/ (chips > 0 /\ chips' = chips - 1)
    BY <1>10, Zenon DEF Show
  <2>3. Changes'
    BY <1>10, <2>2, PickerBoundAssumption DEF Typed, Changes, Show
  <2> QED
    BY <2>1, <2>3 DEF Typed
<1>11. CASE Hide \/ HideTimeout
  BY <1>11 DEF Typed, Flags, Tiles, Outputs, Queries, Changes, Hide, HideTimeout, DoHide,
               picker, children
<1>12. ASSUME NEW live \in SUBSET Monitor, MonitorsChanged(live) PROVE Typed'
  <2>1. Outputs'
    BY <1>12 DEF Typed, Outputs, MonitorsChanged, Reconcile
  <2> QED
    BY <1>12, <2>1 DEF Typed, Flags, Tiles, Queries, Changes, MonitorsChanged, picker,
                       primary, children
<1>13. CASE UNCHANGED vars
  BY <1>13 DEF Typed, Flags, Tiles, Outputs, Queries, Changes, vars, picker, primary, group,
               children
<1> QED
  BY <1>1, <1>2, <1>3, <1>4, <1>5, <1>6, <1>7, <1>8, <1>9, <1>10, <1>11, <1>12, <1>13 DEF Next

(* No timer is cancelled that is not there, the highlight stays on a tile, and *)
(* only a real mode is ever remembered, queried or applied (picker.vala        *)
(* commit(), move_to(), seed_current_mode()).                                  *)
THEOREM TypesCorrect == Spec => []TypeOK
  BY InitTyped, NextTyped, TypedIsTypeOK, Invariance, PTL DEF Spec
==============================================================================
