---------------------------- MODULE WlhooksProofs ----------------------------
(***************************************************************************)
(* The safety of the two pages and panels that live on wlhooks alone: the  *)
(* Display page, a client of its output management, for any monitors with  *)
(* any modes; and the taskbars with the drawer's focus watcher, clients of *)
(* its window list, for any windows, apps, outputs and panels.             *)
(***************************************************************************)
EXTENDS DisplaySettings, Taskbar, FiniteSetTheorems, SequenceTheorems, TLAPS

(***************************************************************************)
(* The Display page.                                                       *)
(***************************************************************************)

(* What a list of edits and a configuration make of a layout is a layout.     *)
LEMMA ConfiguredIsLayout ==
    ASSUME NEW layout, IsLayout(layout), IsLayout(live)
    PROVE  IsLayout(Configured(layout))
<1> SUFFICES ASSUME NEW m \in DOMAIN live PROVE Configured(layout)[m] \in Entry(m)
  BY DEF IsLayout, Configured
<1> QED
  BY DEF IsLayout, Configured, Entry

LEMMA ReportedIsLayout == \A l \in Reported : IsLayout(l)
  BY DEF Reported

(* The parts of TypeOK.                                                       *)
LayoutsTyped == IsLayout(live) /\ IsLayout(baseline) /\ IsLayout(working) /\ heads \subseteq Monitor
ClockTyped ==
    /\ countdown \in 0 .. Seconds
    /\ asked \in {"none", "apply", "revert"} /\ (asked = "revert" => countdown = 0)
FlagsTyped ==
    /\ stale \in BOOLEAN /\ calm \in BOOLEAN /\ reload_pending \in BOOLEAN
    /\ sensitive \in BOOLEAN /\ bar \in BOOLEAN

LEMMA Parts == TypeOK <=> LayoutsTyped /\ ClockTyped /\ FlagsTyped
  BY DEF TypeOK, LayoutsTyped, ClockTyped, FlagsTyped

LEMMA InitTypeOK == Init => TypeOK
<1> SUFFICES ASSUME Init PROVE LayoutsTyped /\ ClockTyped /\ FlagsTyped
  BY Parts
<1>1. IsLayout(live)
  BY ReportedIsLayout DEF Init
<1>2. LayoutsTyped
  BY <1>1 DEF Init, LayoutsTyped, IsLayout
<1>3. ClockTyped
  BY SecondsAssumption DEF Init, ClockTyped
<1>4. FlagsTyped
  BY DEF Init, FlagsTyped
<1> QED BY <1>2, <1>3, <1>4

(* A roundtrip brings connectors of the compositor, and a flag stays a flag.  *)
LEMMA RefreshTyped ==
    ASSUME TypeOK, Refresh
    PROVE  heads' \subseteq Monitor /\ reload_pending' \in BOOLEAN
  BY DEF TypeOK, Refresh, IsLayout

LEMMA NextTypeOK == TypeOK /\ [Next]_vars => TypeOK'
<1> SUFFICES ASSUME TypeOK, LayoutsTyped, ClockTyped, FlagsTyped, [Next]_vars
             PROVE  LayoutsTyped' /\ ClockTyped' /\ FlagsTyped'
  BY Parts, PTL
<1>1. CASE OthersChange
  <2>1. LayoutsTyped'
    BY <1>1, ReportedIsLayout DEF OthersChange, page, LayoutsTyped, IsLayout, Entry
  <2>2. ClockTyped'
    BY <1>1, SecondsAssumption DEF OthersChange, page, ClockTyped
  <2>3. FlagsTyped'
    BY <1>1 DEF OthersChange, page, FlagsTyped
  <2> QED BY <2>1, <2>2, <2>3
<1>2. CASE Settle \/ Pump
  <2>1. LayoutsTyped'
    BY <1>2, RefreshTyped DEF Settle, Pump, compositor, page, LayoutsTyped, IsLayout, Entry
  <2>2. ClockTyped'
    BY <1>2, SecondsAssumption DEF Settle, Pump, compositor, page, ClockTyped
  <2>3. FlagsTyped'
    BY <1>2, RefreshTyped DEF Settle, Pump, compositor, page, FlagsTyped
  <2> QED BY <2>1, <2>2, <2>3
<1>3. CASE Reload
  <2>1. LayoutsTyped'
    BY <1>3 DEF Reload, compositor, LayoutsTyped, IsLayout, Entry
  <2>2. ClockTyped'
    BY <1>3, SecondsAssumption DEF Reload, compositor, ClockTyped
  <2>3. FlagsTyped'
    BY <1>3 DEF Reload, compositor, FlagsTyped
  <2> QED BY <2>1, <2>2, <2>3
<1>4. ASSUME NEW m \in Monitor, Toggle(m) PROVE LayoutsTyped' /\ ClockTyped' /\ FlagsTyped'
  <2>1. IsLayout(working')
    BY <1>4 DEF Toggle, LayoutsTyped, IsLayout, Entry
  <2> QED
    BY <1>4, <2>1 DEF Toggle, Edit, compositor, LayoutsTyped, ClockTyped, FlagsTyped,
                      IsLayout, Entry
<1>5. ASSUME NEW m \in Monitor, NEW mode \in Modes[m], PickMode(m, mode)
      PROVE  LayoutsTyped' /\ ClockTyped' /\ FlagsTyped'
  <2>1. IsLayout(working')
    BY <1>5 DEF PickMode, LayoutsTyped, IsLayout, Entry
  <2> QED
    BY <1>5, <2>1 DEF PickMode, Edit, compositor, LayoutsTyped, ClockTyped, FlagsTyped,
                      IsLayout, Entry
<1>6. CASE Apply
  <2>1. LayoutsTyped'
    BY <1>6, RefreshTyped DEF Apply, Send, page, LayoutsTyped, IsLayout, Entry
  <2>2. ClockTyped'
    BY <1>6, SecondsAssumption DEF Apply, Send, page, ClockTyped
  <2>3. FlagsTyped'
    BY <1>6, RefreshTyped DEF Apply, Send, page, FlagsTyped
  <2> QED BY <2>1, <2>2, <2>3
<1>7. CASE Keep
  <2>1. LayoutsTyped'
    BY <1>7 DEF Keep, compositor, LayoutsTyped, IsLayout, Entry
  <2>2. ClockTyped'
    BY <1>7, SecondsAssumption DEF Keep, compositor, ClockTyped
  <2>3. FlagsTyped'
    BY <1>7 DEF Keep, compositor, FlagsTyped
  <2> QED BY <2>1, <2>2, <2>3
<1>8. CASE RevertClicked
  <2>1. LayoutsTyped'
    BY <1>8, RefreshTyped DEF RevertClicked, Revert, Send, LayoutsTyped, IsLayout, Entry
  <2>2. ClockTyped'
    BY <1>8, SecondsAssumption DEF RevertClicked, Revert, Send, ClockTyped
  <2>3. FlagsTyped'
    BY <1>8, RefreshTyped DEF RevertClicked, Revert, Send, FlagsTyped
  <2> QED BY <2>1, <2>2, <2>3
<1>9. CASE Tick
  <2>1. LayoutsTyped'
    BY <1>9, RefreshTyped DEF Tick, Revert, Send, compositor, LayoutsTyped, IsLayout, Entry
  <2>2. ClockTyped'
    BY <1>9, SecondsAssumption DEF Tick, Revert, Send, compositor, ClockTyped
  <2>3. FlagsTyped'
    BY <1>9, RefreshTyped DEF Tick, Revert, Send, compositor, FlagsTyped
  <2> QED BY <2>1, <2>2, <2>3
<1>10. CASE Answered
  <2>1. LayoutsTyped'
    <3>1. IsLayout(live')
      BY <1>10, ConfiguredIsLayout DEF Answered, LayoutsTyped
    <3> QED
      BY <1>10, <3>1, RefreshTyped
         DEF Answered, ApplyReturns, RevertReturns, LayoutsTyped, IsLayout, Entry
  <2>2. ClockTyped'
    BY <1>10, SecondsAssumption DEF Answered, ApplyReturns, RevertReturns, ClockTyped
  <2>3. FlagsTyped'
    BY <1>10, RefreshTyped DEF Answered, ApplyReturns, RevertReturns, FlagsTyped
  <2> QED BY <2>1, <2>2, <2>3
<1>11. CASE UNCHANGED vars
  <2>1. LayoutsTyped'
    BY <1>11 DEF vars, compositor, page, LayoutsTyped, IsLayout, Entry
  <2>2. ClockTyped'
    BY <1>11, SecondsAssumption DEF vars, compositor, page, ClockTyped
  <2>3. FlagsTyped'
    BY <1>11 DEF vars, compositor, page, FlagsTyped
  <2> QED BY <2>1, <2>2, <2>3
<1> QED
  BY <1>1, <1>2, <1>3, <1>4, <1>5, <1>6, <1>7, <1>8, <1>9, <1>10, <1>11 DEF Next

(* The fields of the page have their types whatever the monitors report, and  *)
(* a revert that waits for its answer has stopped the countdown.              *)
THEOREM TypeCorrect == Spec => []TypeOK
  BY InitTypeOK, NextTypeOK, PTL DEF Spec

(* Turning a display off leaves another one enabled: that is what the count   *)
(* in the toggled handler is for.                                             *)
LEMMA AnotherIsEnabled ==
    ASSUME NEW m \in DOMAIN working, working[m].enabled, ~(enabled_count <= 1)
    PROVE  \E other \in DOMAIN working \ {m} : working[other].enabled
<1> DEFINE E == {x \in DOMAIN working : working[x].enabled}
<1>1. SUFFICES ASSUME E = {m} PROVE FALSE
  OBVIOUS
<1>2. Cardinality(E) = 1
  BY <1>1, FS_Singleton
<1> QED BY <1>2 DEF enabled_count

(* No switch turns the last enabled display off.                              *)
LEMMA ToggleLeavesOne ==
    ASSUME TypeOK, LastStaysEnabled, NEW m \in Monitor, Toggle(m)
    PROVE  LastStaysEnabled'
<1>1. m \in DOMAIN working /\ UNCHANGED baseline /\ working[m] \in Entry(m)
  BY DEF Toggle, Edit, TypeOK, IsLayout
<1>2. CASE working[m].enabled /\ enabled_count <= 1
  BY <1>1, <1>2 DEF Toggle, LastStaysEnabled, SomeEnabled
<1>3. CASE ~(working[m].enabled /\ enabled_count <= 1)
  <2>1. /\ DOMAIN working' = DOMAIN working
        /\ working'[m].enabled = ~working[m].enabled
        /\ \A x \in DOMAIN working \ {m} : working'[x] = working[x]
    BY <1>1, <1>3 DEF Toggle, Entry
  <2>2. CASE working[m].enabled
    BY <1>1, <1>3, <2>1, <2>2, AnotherIsEnabled DEF LastStaysEnabled, SomeEnabled
  <2>3. CASE ~working[m].enabled
    BY <1>1, <2>1, <2>3 DEF LastStaysEnabled, SomeEnabled
  <2> QED BY <2>2, <2>3
<1> QED BY <1>2, <1>3

(* With the types, the agreement of the page is inductive as it stands.        *)
IInv == TypeOK /\ PageInStep

LEMMA InitIInv == Init => IInv
  BY InitTypeOK DEF Init, IInv, PageInStep, KnowsMonitors, BarWhileCounting, LastStaysEnabled

LEMMA NextIInv == IInv /\ [Next]_vars => IInv'
<1> SUFFICES ASSUME IInv, [Next]_vars PROVE IInv'
  OBVIOUS
<1> TypeOK'
  BY NextTypeOK DEF IInv
<1> USE DEF IInv, PageInStep, KnowsMonitors, BarWhileCounting, LastStaysEnabled, SomeEnabled
<1>1. CASE OthersChange
  BY <1>1 DEF OthersChange, page
<1>2. CASE Settle \/ Pump
  BY <1>2 DEF Settle, Pump, Refresh, compositor, page
<1>3. CASE Reload
  BY <1>3 DEF Reload, compositor
<1>4. ASSUME NEW m \in Monitor, Toggle(m) PROVE IInv'
  <2>1. LastStaysEnabled'
    BY <1>4, ToggleLeavesOne
  <2>2. DOMAIN working' = DOMAIN working
    BY <1>4 DEF Toggle
  <2> QED
    BY <1>4, <2>1, <2>2 DEF Toggle, Edit, compositor
<1>5. ASSUME NEW m \in Monitor, NEW mode \in Modes[m], PickMode(m, mode) PROVE IInv'
  <2>1. /\ DOMAIN working' = DOMAIN working
        /\ \A x \in DOMAIN working : working'[x].enabled = working[x].enabled
    BY <1>5 DEF PickMode, TypeOK, IsLayout, Entry
  <2> QED
    BY <1>5, <2>1 DEF PickMode, Edit, compositor
<1>6. CASE Apply
  BY <1>6 DEF Apply, Send, Refresh, page
<1>7. CASE Keep
  BY <1>7 DEF Keep, compositor
<1>8. CASE RevertClicked
  BY <1>8 DEF RevertClicked, Revert, Send, Refresh
<1>9. CASE Tick
  BY <1>9 DEF Tick, Revert, Send, Refresh, compositor, TypeOK
<1>10. CASE Answered
  <2>1. LastStaysEnabled'
    BY <1>10 DEF Answered, ApplyReturns, RevertReturns
  <2>2. KnowsMonitors'
    BY <1>10 DEF Answered, ApplyReturns, RevertReturns, Refresh
  <2>3. BarWhileCounting'
    BY <1>10 DEF Answered, ApplyReturns, RevertReturns, TypeOK
  <2> QED
    BY <2>1, <2>2, <2>3
<1>11. CASE UNCHANGED vars
  BY <1>11 DEF vars, compositor, page
<1> QED
  BY <1>1, <1>2, <1>3, <1>4, <1>5, <1>6, <1>7, <1>8, <1>9, <1>10, <1>11 DEF Next

(* Through every interleaving of hotplug, pump, nested roundtrips, edits and  *)
(* countdown, on any monitors: the page knows the monitors its client knows   *)
(* or reloads, a layout on trial can be answered, and no sequence of edits    *)
(* disables the last display.                                                 *)
THEOREM PageCorrect == Spec => []PageInStep
<1>1. IInv => PageInStep
  BY DEF IInv
<1> QED
  BY <1>1, InitIInv, NextIInv, PTL DEF Spec

(***************************************************************************)
(* The taskbars: lists that hold every window once.                        *)
(***************************************************************************)
(* A window's place in an entry is one where it stands.                       *)
LEMMA PlaceOf ==
    ASSUME NEW s, NEW id \in ToSet(s)
    PROVE  index_of(s, id) \in DOMAIN s /\ s[index_of(s, id)] = id
<1>1. \E i \in DOMAIN s : s[i] = id
  BY DEF ToSet
<1> QED
  BY <1>1 DEF index_of

(* Two lists in a row, place by place.                                        *)
LEMMA JoinedAt ==
    ASSUME NEW S, NEW a \in Seq(S), NEW b \in Seq(S)
    PROVE  /\ a \o b \in Seq(S) /\ Len(a \o b) = Len(a) + Len(b)
           /\ \A k \in 1 .. Len(a) : (a \o b)[k] = a[k]
           /\ \A k \in 1 .. Len(b) : (a \o b)[Len(a) + k] = b[k]
  OBVIOUS

(* Removing at a place shifts what comes after it.                            *)
LEMMA RemoveAtShifts ==
    ASSUME NEW S, NEW s \in Seq(S), NEW i \in DOMAIN s
    PROVE  /\ RemoveAt(s, i) \in Seq(S)
           /\ Len(RemoveAt(s, i)) = Len(s) - 1
           /\ \A k \in 1 .. Len(s) - 1 : RemoveAt(s, i)[k] = IF k < i THEN s[k] ELSE s[k + 1]
<1> DEFINE n == Len(s)
           before == SubSeq(s, 1, i - 1)
           after  == SubSeq(s, i + 1, n)
<1>1. n \in Nat /\ i \in 1 .. n
  OBVIOUS
<1>2. before \in Seq(S) /\ Len(before) = i - 1 /\ \A k \in 1 .. i - 1 : before[k] = s[k]
  BY <1>1
<1>3. after \in Seq(S) /\ Len(after) = n - i /\ \A k \in 1 .. n - i : after[k] = s[i + k]
  BY <1>1
<1>4. RemoveAt(s, i) = before \o after
  BY Zenon DEF RemoveAt
<1> HIDE DEF before, after
<1>5. /\ before \o after \in Seq(S) /\ Len(before \o after) = i - 1 + (n - i)
      /\ \A k \in 1 .. i - 1 : (before \o after)[k] = before[k]
      /\ \A k \in 1 .. n - i : (before \o after)[i - 1 + k] = after[k]
  <2> HIDE DEF n
  <2>1. /\ before \o after \in Seq(S) /\ Len(before \o after) = Len(before) + Len(after)
        /\ \A k \in 1 .. Len(before) : (before \o after)[k] = before[k]
        /\ \A k \in 1 .. Len(after) : (before \o after)[Len(before) + k] = after[k]
    <3>1. before \in Seq(S) /\ after \in Seq(S)
      BY <1>2, <1>3
    <3> QED
      BY <3>1, JoinedAt
  <2> QED
    BY <1>2, <1>3, <2>1
<1>6. ASSUME NEW k \in 1 .. n - 1 PROVE (before \o after)[k] = IF k < i THEN s[k] ELSE s[k + 1]
  <2> HIDE DEF n
  <2>1. CASE k < i
    <3>1. k \in 1 .. i - 1
      BY <1>1, <2>1
    <3> QED
      BY <1>2, <1>5, <2>1, <3>1
  <2>2. CASE ~(k < i)
    <3>1. k - (i - 1) \in 1 .. n - i /\ i + (k - (i - 1)) = k + 1 /\ i - 1 + (k - (i - 1)) = k
      BY <1>1, <2>2
    <3>2. (before \o after)[k] = after[k - (i - 1)]
      BY <1>5, <3>1
    <3> QED
      BY <1>3, <2>2, <3>1, <3>2
  <2> QED BY <2>1, <2>2
<1>7. i - 1 + (n - i) = n - 1
  BY <1>1
<1> QED
  BY <1>4, <1>5, <1>6, <1>7

(* An entry that lists its windows once has one fewer, and not that one.      *)
LEMMA RemovedOnce ==
    ASSUME NEW S, NEW s \in Seq(S), IsInjective(s), NEW i \in DOMAIN s
    PROVE  LET r == RemoveAt(s, i)
           IN  r \in Seq(S) /\ Len(r) = Len(s) - 1 /\ IsInjective(r) /\ ToSet(r) = ToSet(s) \ {s[i]}
<1> DEFINE n == Len(s)
           r == RemoveAt(s, i)
           from(k) == IF k < i THEN k ELSE k + 1
<1>1. n \in Nat /\ i \in 1 .. n /\ DOMAIN s = 1 .. n
  OBVIOUS
<1>2. r \in Seq(S) /\ Len(r) = n - 1 /\ \A k \in 1 .. n - 1 : r[k] = s[from(k)]
  BY RemoveAtShifts
<1>3. DOMAIN r = 1 .. n - 1
  BY <1>2
<1>4. \A x, y \in 1 .. n : s[x] = s[y] => x = y
  BY <1>1 DEF IsInjective
<1> HIDE DEF n, r
<1>5. /\ \A k \in 1 .. n - 1 : from(k) \in (1 .. n) \ {i}
      /\ \A k, l \in 1 .. n - 1 : from(k) = from(l) => k = l
      /\ \A x \in (1 .. n) \ {i} : \E k \in 1 .. n - 1 : from(k) = x
  <2>1. \A k, l \in 1 .. n - 1 : from(k) \in (1 .. n) \ {i} /\ (from(k) = from(l) => k = l)
    BY <1>1
  <2>2. ASSUME NEW x \in (1 .. n) \ {i} PROVE \E k \in 1 .. n - 1 : from(k) = x
    <3>1. CASE x < i
      <4>1. x \in 1 .. n - 1 /\ from(x) = x
        BY <1>1, <3>1
      <4> QED BY <4>1
    <3>2. CASE ~(x < i)
      <4>1. x - 1 \in 1 .. n - 1 /\ from(x - 1) = x
        BY <1>1, <3>2
      <4> QED BY <4>1
    <3> QED BY <3>1, <3>2
  <2> QED BY <2>1, <2>2
<1> HIDE DEF from
<1>6. IsInjective(r)
  BY <1>2, <1>3, <1>4, <1>5 DEF IsInjective
<1>7. ToSet(r) = ToSet(s) \ {s[i]}
  <2>1. ToSet(r) = {s[from(k)] : k \in 1 .. n - 1}
    BY <1>2, <1>3 DEF ToSet
  <2>2. ToSet(s) = {s[x] : x \in 1 .. n}
    BY <1>1 DEF ToSet
  <2> QED
    BY <1>1, <1>4, <1>5, <2>1, <2>2
<1> QED
  BY <1>2, <1>6, <1>7 DEF r, n

(* An entry that gets a window it does not have lists it last, once.          *)
LEMMA AppendedOnce ==
    ASSUME NEW S, NEW s \in Seq(S), IsInjective(s), NEW id \in S, id \notin ToSet(s)
    PROVE  LET r == Append(s, id)
           IN  r \in Seq(S) /\ Len(r) = Len(s) + 1 /\ IsInjective(r) /\ ToSet(r) = ToSet(s) \union {id}
<1> DEFINE n == Len(s)
           r == Append(s, id)
<1>1. n \in Nat /\ DOMAIN s = 1 .. n
  OBVIOUS
<1>2. r \in Seq(S) /\ Len(r) = n + 1 /\ DOMAIN r = 1 .. n + 1
  OBVIOUS
<1>3. r[n + 1] = id /\ \A k \in 1 .. n : r[k] = s[k]
  OBVIOUS
<1>4. \A k \in 1 .. n : s[k] # id
  BY <1>1 DEF ToSet
<1>5. \A x, y \in 1 .. n : s[x] = s[y] => x = y
  BY <1>1 DEF IsInjective
<1> HIDE DEF n, r
<1>6. \A k \in 1 .. n + 1 : k = n + 1 \/ k \in 1 .. n
  BY <1>1
<1>7. n + 1 \in 1 .. n + 1 /\ 1 .. n \subseteq 1 .. n + 1
  BY <1>1
<1>8. IsInjective(r)
  BY <1>2, <1>3, <1>4, <1>5, <1>6 DEF IsInjective
<1>9. ToSet(r) = ToSet(s) \union {id}
  BY <1>1, <1>2, <1>3, <1>6, <1>7 DEF ToSet
<1> QED
  BY <1>2, <1>8, <1>9 DEF r, n

(* A replay lists every window of a finite set once.                          *)
LEMMA ReplayedOnce ==
    ASSUME NEW S, IsFiniteSet(S)
    PROVE  LET r == SetToSeq(S)
           IN  r \in Seq(S) /\ IsInjective(r) /\ ToSet(r) = S
<1> DEFINE n == Cardinality(S)
           r == SetToSeq(S)
<1>1. n \in Nat /\ IsFiniteSet(1 .. n) /\ Cardinality(1 .. n) = n
  BY FS_CardinalityType, FS_Interval
<1>2. PICK f : f \in Bijection(1 .. n, S)
  BY FS_CardinalityType DEF ExistsBijection
<1>3. f \in [1 .. n -> S] /\ IsInjective(f)
  BY <1>2 DEF Bijection, Injection, IsInjective
<1>4. r \in [1 .. n -> S] /\ IsInjective(r)
  BY <1>3 DEF SetToSeq
<1> HIDE DEF r
<1>5. r \in Injection(1 .. n, S)
  BY <1>4 DEF Injection, IsInjective
<1>6. r \in Surjection(1 .. n, S)
  BY <1>1, <1>5, FS_Injection
<1>7. ToSet(r) = S
  BY <1>4, <1>6 DEF ToSet, Surjection
<1>8. r \in Seq(S)
  BY <1>1, <1>4
<1> QED
  BY <1>4, <1>7, <1>8 DEF r

(***************************************************************************)
(* One taskbar, and what each signal of the store makes of it.             *)
(***************************************************************************)

(* A taskbar: its parts, the next window of a click within each entry, every  *)
(* window listed once, and an entry for what is pinned or has windows.        *)
BarParts == [pinned : SUBSET Apps, entries : SUBSET Apps,
             window_ids : [Apps -> Seq(Ids)], cycle_idx : [Apps -> Nat]]
InCycle(n, c) == c <= n /\ (n > 0 => c < n)
Cycles(b) == \A a \in Apps : InCycle(Len(b.window_ids[a]), b.cycle_idx[a])
EachOnce(b) ==
    /\ \A a \in Apps : IsInjective(b.window_ids[a])
    /\ \A a1, a2 \in Apps : \A id \in ToSet(b.window_ids[a1]) :
          id \in ToSet(b.window_ids[a2]) => a1 = a2
EntriesStay(b) == b.entries = b.pinned \union {a \in Apps : b.window_ids[a] # <<>>}
WellKept(b) == b \in BarParts /\ Cycles(b) /\ EachOnce(b) /\ EntriesStay(b)

(* A listed window has one app, the one it is listed under.                   *)
LEMMA AppOfListed ==
    ASSUME NEW b, EachOnce(b), NEW a \in Apps, NEW id \in ToSet(b.window_ids[a])
    PROVE  id \in Listed(b) /\ AppOf(b, id) = a
<1>1. id \in Listed(b)
  BY DEF Listed
<1>2. \A x \in Apps : id \in ToSet(b.window_ids[x]) => x = a
  BY DEF EachOnce
<1> QED
  BY <1>1, <1>2 DEF AppOf

LEMMA ListedSomewhere ==
    ASSUME NEW b, NEW id \in Listed(b)
    PROVE  AppOf(b, id) \in Apps /\ id \in ToSet(b.window_ids[AppOf(b, id)])
<1>1. \E a \in Apps : id \in ToSet(b.window_ids[a])
  BY DEF Listed
<1> QED
  BY <1>1 DEF AppOf

(* A list is empty when it has no places.                                     *)
LEMMA EmptyLength ==
    ASSUME NEW S, NEW s \in Seq(S)
    PROVE  /\ Len(s) \in Nat /\ (s = <<>> <=> Len(s) = 0)
           /\ s = <<>> <=> ToSet(s) = {}
<1>1. Len(s) \in Nat /\ (s = <<>> <=> Len(s) = 0) /\ DOMAIN s = 1 .. Len(s)
  OBVIOUS
<1>2. s = <<>> <=> DOMAIN s = {}
  <2> DEFINE n == Len(s)
  <2>1. n \in Nat /\ (n = 0 <=> 1 .. n = {})
    <3>1. n \in Nat
      BY <1>1
    <3> HIDE DEF n
    <3> QED BY <3>1
  <2> QED
    BY <1>1, <2>1
<1> QED
  BY <1>1, <1>2 DEF ToSet

(* What a window more or less makes of entries that list every window once.   *)
LEMMA OnceAfterAdding ==
    ASSUME NEW b, NEW c, NEW a \in Apps, NEW id, EachOnce(b), IsInjective(c.window_ids[a]),
           ToSet(c.window_ids[a]) = ToSet(b.window_ids[a]) \union {id},
           \A x \in Apps : id \notin ToSet(b.window_ids[x]),
           \A x \in Apps \ {a} : c.window_ids[x] = b.window_ids[x]
    PROVE  EachOnce(c)
<1>1. \A x \in Apps : IsInjective(c.window_ids[x])
  BY DEF EachOnce
<1>2. ASSUME NEW a1 \in Apps, NEW a2 \in Apps, NEW i \in ToSet(c.window_ids[a1]),
             i \in ToSet(c.window_ids[a2])
      PROVE  a1 = a2
  <2>1. \A x \in Apps :
           i \in ToSet(c.window_ids[x]) <=> (i \in ToSet(b.window_ids[x]) \/ (x = a /\ i = id))
    OBVIOUS
  <2> QED
    BY <1>2, <2>1 DEF EachOnce
<1> QED
  BY <1>1, <1>2 DEF EachOnce

(* Fewer windows are listed once as well.                                     *)
LEMMA OnceAfterRemoving ==
    ASSUME NEW b, NEW c, EachOnce(b),
           \A x \in Apps : /\ IsInjective(c.window_ids[x])
                           /\ ToSet(c.window_ids[x]) \subseteq ToSet(b.window_ids[x])
    PROVE  EachOnce(c)
  BY DEF EachOnce

(* AddWindow, RemoveWindow, mark_focused and the constructor leave a taskbar  *)
(* well kept, and list one window more, one less, the same, or the store's.   *)
LEMMA AddedWindow ==
    ASSUME NEW b, WellKept(b), NEW id \in Ids, NEW a \in Apps, id \notin Listed(b)
    PROVE  LET c == AddWindow(b, id, a)
           IN  /\ WellKept(c)
               /\ ToSet(c.window_ids[a]) = ToSet(b.window_ids[a]) \union {id}
               /\ \A x \in Apps \ {a} : c.window_ids[x] = b.window_ids[x]
<1> DEFINE c == AddWindow(b, id, a)
           s == b.window_ids[a]
           r == Append(s, id)
<1>1. b \in BarParts /\ Cycles(b) /\ EachOnce(b) /\ EntriesStay(b)
  BY DEF WellKept
<1>2. s \in Seq(Ids) /\ IsInjective(s) /\ id \notin ToSet(s) /\ b.cycle_idx[a] \in Nat
  BY <1>1 DEF BarParts, EachOnce, Listed
<1>3. r \in Seq(Ids) /\ Len(r) = Len(s) + 1 /\ IsInjective(r) /\ ToSet(r) = ToSet(s) \union {id}
  BY <1>2, AppendedOnce
<1>4. Len(s) \in Nat /\ r # <<>>
  BY <1>2, <1>3, EmptyLength
<1> HIDE DEF r
<1>5. c = [b EXCEPT !.entries = @ \union {a}, !.window_ids[a] = r]
  BY <1>2 DEF AddWindow, r
<1> HIDE DEF c
<1>6. /\ c \in BarParts /\ c.pinned = b.pinned /\ c.cycle_idx = b.cycle_idx
      /\ c.entries = b.entries \union {a}
      /\ c.window_ids[a] = r /\ \A x \in Apps \ {a} : c.window_ids[x] = b.window_ids[x]
  BY <1>1, <1>3, <1>5 DEF BarParts
<1>7. InCycle(Len(r), b.cycle_idx[a])
  <2>1. InCycle(Len(s), b.cycle_idx[a])
    BY <1>1 DEF Cycles
  <2> QED
    BY <1>2, <1>3, <1>4, <2>1 DEF InCycle
<1>8. Cycles(c)
  BY <1>1, <1>6, <1>7 DEF Cycles
<1>9. EachOnce(c)
  <2>1. \A x \in Apps : id \notin ToSet(b.window_ids[x])
    BY DEF Listed
  <2> QED
    BY <1>1, <1>3, <1>6, <2>1, OnceAfterAdding
<1>10. EntriesStay(c)
  BY <1>1, <1>4, <1>6 DEF EntriesStay
<1> QED
  BY <1>3, <1>6, <1>8, <1>9, <1>10 DEF WellKept, c

LEMMA MarkedFocused ==
    ASSUME NEW b, WellKept(b), NEW id
    PROVE  LET c == mark_focused(b, id) IN WellKept(c) /\ c.window_ids = b.window_ids
<1>1. CASE id \notin Listed(b)
  BY <1>1 DEF mark_focused
<1>2. CASE id \in Listed(b)
  <2> DEFINE c == mark_focused(b, id)
             a == AppOf(b, id)
             n == Len(b.window_ids[a])
             i == index_of(b.window_ids[a], id)
  <2>1. b \in BarParts /\ Cycles(b) /\ EachOnce(b) /\ EntriesStay(b)
    BY DEF WellKept
  <2>2. a \in Apps /\ b.window_ids[a] \in Seq(Ids) /\ i \in DOMAIN b.window_ids[a]
    BY <1>2, <2>1, ListedSomewhere, PlaceOf DEF BarParts
  <2>3. n \in Nat /\ i \in 1 .. n
    BY <2>2
  <2>4. c = [b EXCEPT !.cycle_idx[a] = i % n]
    BY <1>2 DEF mark_focused
  <2> HIDE DEF c, i, n
  <2>5. i % n \in 0 .. n - 1
    BY <2>3
  <2>6. i % n \in Nat /\ InCycle(n, i % n)
    BY <2>3, <2>5 DEF InCycle
  <2> HIDE DEF a
  <2>7. /\ c \in BarParts /\ c.pinned = b.pinned /\ c.entries = b.entries
        /\ c.window_ids = b.window_ids
        /\ c.cycle_idx[a] = i % n /\ \A x \in Apps \ {a} : c.cycle_idx[x] = b.cycle_idx[x]
    BY <2>1, <2>2, <2>4, <2>6 DEF BarParts
  <2>8. Cycles(c)
    BY <2>1, <2>6, <2>7 DEF Cycles, n
  <2> QED
    BY <2>1, <2>7, <2>8 DEF WellKept, EachOnce, EntriesStay, c
<1> QED BY <1>1, <1>2

LEMMA RemovedWindow ==
    ASSUME NEW b, WellKept(b), NEW id
    PROVE  LET c == RemoveWindow(b, id)
           IN  WellKept(c) /\ \A x \in Apps : ToSet(c.window_ids[x]) = ToSet(b.window_ids[x]) \ {id}
<1>1. CASE id \notin Listed(b)
  BY <1>1 DEF RemoveWindow, Listed
<1>2. CASE id \in Listed(b)
  <2> DEFINE c == RemoveWindow(b, id)
             a == AppOf(b, id)
             s == b.window_ids[a]
             left == RemoveAt(s, index_of(s, id))
             k == IF b.cycle_idx[a] >= Len(left) THEN 0 ELSE b.cycle_idx[a]
             b1 == [b EXCEPT !.window_ids[a] = left, !.cycle_idx[a] = k]
  <2>1. b \in BarParts /\ Cycles(b) /\ EachOnce(b) /\ EntriesStay(b)
    BY DEF WellKept
  <2>2. a \in Apps /\ s \in Seq(Ids) /\ IsInjective(s) /\ id \in ToSet(s) /\ b.cycle_idx[a] \in Nat
    BY <1>2, <2>1, ListedSomewhere DEF BarParts, EachOnce
  <2>3. \A x \in Apps \ {a} : id \notin ToSet(b.window_ids[x])
    BY <2>1, <2>2 DEF EachOnce
  <2>4. left \in Seq(Ids) /\ IsInjective(left) /\ ToSet(left) = ToSet(s) \ {id}
    BY <2>2, PlaceOf, RemovedOnce
  <2>5. Len(left) \in Nat /\ (left = <<>> => Len(left) = 0)
    BY <2>4, EmptyLength
  <2>6. c = IF a \notin b.pinned /\ left = <<>> THEN RemoveEntry(b1, a) ELSE b1
    BY <1>2 DEF RemoveWindow
  <2> HIDE DEF c, a, s, left
  <2>7. k \in Nat /\ InCycle(Len(left), k) /\ InCycle(Len(left), 0)
    BY <2>2, <2>5 DEF InCycle
  <2> HIDE DEF k
  <2>8. /\ b1 \in BarParts /\ b1.pinned = b.pinned /\ b1.entries = b.entries
        /\ b1.window_ids[a] = left /\ b1.cycle_idx[a] = k
        /\ \A x \in Apps \ {a} : b1.window_ids[x] = b.window_ids[x] /\ b1.cycle_idx[x] = b.cycle_idx[x]
    BY <2>1, <2>2, <2>4, <2>7 DEF BarParts
  <2> HIDE DEF b1
  <2>9. b.window_ids[a] = s
    BY DEF s
  <2>10. EachOnce(b1) /\ \A x \in Apps : ToSet(b1.window_ids[x]) = ToSet(b.window_ids[x]) \ {id}
    <3>1. \A x \in Apps : ToSet(b1.window_ids[x]) = ToSet(b.window_ids[x]) \ {id}
      BY <2>3, <2>4, <2>8, <2>9
    <3>2. \A x \in Apps : IsInjective(b1.window_ids[x])
      BY <2>1, <2>4, <2>8 DEF EachOnce
    <3> QED
      BY <2>1, <3>1, <3>2, OnceAfterRemoving
  <2>11. Cycles(b1)
    BY <2>1, <2>7, <2>8 DEF Cycles
  <2>12. s # <<>>
    BY <2>2 DEF ToSet
  <2>13. CASE a \notin b.pinned /\ left = <<>>
    <3>1. c = [b1 EXCEPT !.entries = @ \ {a}, !.pinned = @ \ {a}, !.cycle_idx[a] = 0]
      BY <2>6, <2>13 DEF RemoveEntry
    <3>2. /\ c \in BarParts /\ c.pinned = b1.pinned \ {a} /\ c.entries = b1.entries \ {a}
          /\ c.window_ids = b1.window_ids
          /\ c.cycle_idx[a] = 0 /\ \A x \in Apps \ {a} : c.cycle_idx[x] = b1.cycle_idx[x]
      BY <2>2, <2>8, <3>1 DEF BarParts
    <3>3. Cycles(c)
      BY <2>7, <2>8, <2>11, <3>2 DEF Cycles
    <3>4. EntriesStay(c)
      BY <2>1, <2>8, <2>13, <3>2 DEF EntriesStay
    <3> QED
      BY <2>10, <3>2, <3>3, <3>4 DEF WellKept, EachOnce, c
  <2>14. CASE ~(a \notin b.pinned /\ left = <<>>)
    <3>1. EntriesStay(b1)
      BY <2>1, <2>2, <2>8, <2>9, <2>12, <2>14 DEF EntriesStay
    <3> QED
      BY <2>6, <2>8, <2>10, <2>11, <2>14, <3>1 DEF WellKept, c
  <2> QED BY <2>13, <2>14
<1> QED BY <1>1, <1>2

LEMMA BuiltBar ==
    ASSUME NEW ms, NEW p, NEW store, IsFiniteSet(DOMAIN store), DOMAIN store \subseteq Ids,
           pins \subseteq Apps
    PROVE  LET c == NewAppBar(ms, p, store)
           IN  /\ WellKept(c)
               /\ \A a \in Apps : ToSet(c.window_ids[a]) =
                     {id \in DOMAIN store : store[id].app_id = a /\ accepts(ms, p, store[id])}
<1> DEFINE mine(a) == {id \in DOMAIN store : store[id].app_id = a /\ accepts(ms, p, store[id])}
           c == NewAppBar(ms, p, store)
<1>1. ASSUME NEW a \in Apps
      PROVE  /\ SetToSeq(mine(a)) \in Seq(Ids) /\ IsInjective(SetToSeq(mine(a)))
             /\ ToSet(SetToSeq(mine(a))) = mine(a)
             /\ SetToSeq(mine(a)) = <<>> <=> mine(a) = {}
             /\ InCycle(Len(SetToSeq(mine(a))), 0)
  <2>1. mine(a) \in SUBSET DOMAIN store /\ mine(a) \subseteq Ids
    OBVIOUS
  <2> HIDE DEF mine
  <2>2. IsFiniteSet(mine(a))
    BY <2>1, FS_Subset
  <2>3. /\ SetToSeq(mine(a)) \in Seq(mine(a)) /\ IsInjective(SetToSeq(mine(a)))
        /\ ToSet(SetToSeq(mine(a))) = mine(a)
    BY <2>2, ReplayedOnce
  <2>4. SetToSeq(mine(a)) \in Seq(Ids)
    BY <2>1, <2>3
  <2>5. Len(SetToSeq(mine(a))) \in Nat
    BY <2>4
  <2>6. InCycle(Len(SetToSeq(mine(a))), 0)
    BY <2>5 DEF InCycle
  <2> QED
    BY <2>3, <2>4, <2>6, EmptyLength
<1>2. c = [pinned |-> pins, entries |-> pins \union {a \in Apps : mine(a) # {}},
           window_ids |-> [a \in Apps |-> SetToSeq(mine(a))], cycle_idx |-> [a \in Apps |-> 0]]
  BY DEF NewAppBar
<1>3. \A a1, a2 \in Apps : \A id \in mine(a1) : id \in mine(a2) => a1 = a2
  OBVIOUS
<1> HIDE DEF mine, c
<1>4. c \in BarParts
  BY <1>1, <1>2 DEF BarParts
<1>5. \A a \in Apps : c.window_ids[a] = SetToSeq(mine(a)) /\ c.cycle_idx[a] = 0
  BY <1>2
<1>6. Cycles(c)
  BY <1>1, <1>5 DEF Cycles
<1>7. EachOnce(c)
  BY <1>1, <1>3, <1>5 DEF EachOnce
<1>8. EntriesStay(c)
  BY <1>1, <1>2, <1>5 DEF EntriesStay
<1>9. \A a \in Apps : ToSet(c.window_ids[a]) = mine(a)
  BY <1>1, <1>5
<1> QED
  BY <1>4, <1>6, <1>7, <1>8, <1>9 DEF WellKept, mine, c

(* A taskbar shows the windows of the store that belong on it, by app.        *)
Shows(ms, p, b, store) ==
    \A a \in Apps : ToSet(b.window_ids[a]) =
        {id \in DOMAIN store : store[id].app_id = a /\ accepts(ms, p, store[id])}
Follows(ms, p, b, store) == WellKept(b) /\ Shows(ms, p, b, store)
Typed(store) == \A id \in DOMAIN store : store[id] \in Toplevel

(* On a taskbar that follows the store, listed means accepted.                *)
LEMMA ListedIfAccepted ==
    ASSUME NEW ms, NEW p, NEW b, NEW store, Shows(ms, p, b, store), Typed(store), NEW id
    PROVE  id \in Listed(b) <=> id \in DOMAIN store /\ accepts(ms, p, store[id])
<1>1. id \in Listed(b) <=> \E a \in Apps : id \in ToSet(b.window_ids[a])
  BY DEF Listed
<1>2. id \in DOMAIN store => store[id].app_id \in Apps
  BY DEF Typed, Toplevel
<1> QED
  BY <1>1, <1>2 DEF Shows

(* A taskbar follows the store through each of its four signals: a new window,*)
(* a closed one, the focus, and an output.                                    *)
LEMMA FollowsNew ==
    ASSUME NEW ms, NEW p, NEW b, NEW store, NEW store2, Follows(ms, p, b, store), Typed(store),
           NEW id \in Ids \ DOMAIN store, DOMAIN store2 = DOMAIN store \union {id},
           \A k \in DOMAIN store : store2[k] = store[k],
           store2[id].app_id \in Apps
    PROVE  Follows(ms, p, IF accepts(ms, p, store2[id])
                          THEN AddWindow(b, id, store2[id].app_id) ELSE b, store2)
<1> DEFINE a == store2[id].app_id
           shown(s, x) == {k \in DOMAIN s : s[k].app_id = x /\ accepts(ms, p, s[k])}
<1>1. id \notin Listed(b)
  BY ListedIfAccepted DEF Follows
<1>2. \A x \in Apps : ToSet(b.window_ids[x]) = shown(store, x)
  BY DEF Follows, Shows
<1>3. ASSUME NEW x \in Apps
      PROVE  shown(store2, x) = shown(store, x) \union
                                (IF x = a /\ accepts(ms, p, store2[id]) THEN {id} ELSE {})
  <2> HIDE DEF a
  <2>1. a = store2[id].app_id
    BY DEF a
  <2> QED
    BY <2>1
<1>4. CASE accepts(ms, p, store2[id])
  <2> DEFINE c == AddWindow(b, id, a)
  <2>1. /\ WellKept(c) /\ ToSet(c.window_ids[a]) = ToSet(b.window_ids[a]) \union {id}
        /\ \A x \in Apps \ {a} : c.window_ids[x] = b.window_ids[x]
    BY <1>1, AddedWindow DEF Follows
  <2> HIDE DEF c, shown
  <2>2. \A x \in Apps : ToSet(c.window_ids[x]) = shown(store2, x)
    BY <1>2, <1>3, <1>4, <2>1
  <2> QED
    BY <1>4, <2>1, <2>2 DEF Follows, Shows, shown, c
<1>5. CASE ~accepts(ms, p, store2[id])
  <2> HIDE DEF shown
  <2>1. \A x \in Apps : ToSet(b.window_ids[x]) = shown(store2, x)
    BY <1>2, <1>3, <1>5
  <2> QED
    BY <1>5, <2>1 DEF Follows, Shows, shown
<1> QED BY <1>4, <1>5

LEMMA FollowsRemoval ==
    ASSUME NEW ms, NEW p, NEW b, NEW store, NEW store2, Follows(ms, p, b, store),
           NEW id, DOMAIN store2 = DOMAIN store \ {id},
           \A k \in DOMAIN store2 : store2[k] = store[k]
    PROVE  Follows(ms, p, RemoveWindow(b, id), store2)
<1> DEFINE c == RemoveWindow(b, id)
<1>1. WellKept(c) /\ \A x \in Apps : ToSet(c.window_ids[x]) = ToSet(b.window_ids[x]) \ {id}
  BY RemovedWindow DEF Follows
<1> HIDE DEF c
<1>2. Shows(ms, p, c, store2)
  BY <1>1 DEF Follows, Shows
<1> QED
  BY <1>1, <1>2 DEF Follows, c

LEMMA FollowsFocus ==
    ASSUME NEW ms, NEW p, NEW b, NEW store, NEW store2, Follows(ms, p, b, store), NEW id,
           DOMAIN store2 = DOMAIN store,
           \A k \in DOMAIN store : /\ store2[k].app_id = store[k].app_id
                                   /\ store2[k].output = store[k].output
    PROVE  Follows(ms, p, mark_focused(b, id), store2)
<1> DEFINE c == mark_focused(b, id)
<1>1. WellKept(c) /\ c.window_ids = b.window_ids
  BY MarkedFocused DEF Follows
<1> HIDE DEF c
<1>2. \A k \in DOMAIN store : accepts(ms, p, store2[k]) <=> accepts(ms, p, store[k])
  BY DEF accepts
<1>3. Shows(ms, p, c, store2)
  BY <1>1, <1>2 DEF Follows, Shows
<1> QED
  BY <1>1, <1>3 DEF Follows, c

LEMMA FollowsOutput ==
    ASSUME NEW ms, NEW p, NEW b, NEW store, NEW store2, Follows(ms, p, b, store), Typed(store),
           NEW id \in DOMAIN store, id \in Ids, DOMAIN store2 = DOMAIN store,
           \A k \in DOMAIN store \ {id} : store2[k] = store[k],
           store2[id].app_id = store[id].app_id
    PROVE  LET want == accepts(ms, p, store2[id])
           IN  Follows(ms, p, IF ~Filters(p) \/ want = (id \in Listed(b)) THEN b
                              ELSE IF want THEN AddWindow(b, id, store2[id].app_id)
                              ELSE RemoveWindow(b, id), store2)
<1> DEFINE a == store2[id].app_id
           want == accepts(ms, p, store2[id])
           shown(s, x) == {k \in DOMAIN s : s[k].app_id = x /\ accepts(ms, p, s[k])}
<1>1. id \in Listed(b) <=> accepts(ms, p, store[id])
  BY ListedIfAccepted DEF Follows
<1>2. \A x \in Apps : ToSet(b.window_ids[x]) = shown(store, x)
  BY DEF Follows, Shows
<1>3. a \in Apps /\ WellKept(b)
  BY DEF Typed, Toplevel, Follows
<1>4. want \in BOOLEAN /\ (~Filters(p) => want /\ accepts(ms, p, store[id]))
  BY DEF accepts
<1>5. \A x \in Apps : shown(store2, x) =
         IF x = a THEN IF want THEN shown(store, x) \union {id} ELSE shown(store, x) \ {id}
         ELSE shown(store, x)
  OBVIOUS
<1>6. id \in shown(store, a) <=> accepts(ms, p, store[id])
  OBVIOUS
<1>7. \A x \in Apps \ {a} : id \notin shown(store, x)
  OBVIOUS
<1>8. (~Filters(p) \/ want = (id \in Listed(b))) \/ (Filters(p) /\ want /\ id \notin Listed(b))
      \/ (Filters(p) /\ ~want /\ id \in Listed(b))
  BY <1>4
<1> HIDE DEF want, shown, a
<1>9. CASE ~Filters(p) \/ want = (id \in Listed(b))
  <2>1. want <=> accepts(ms, p, store[id])
    BY <1>1, <1>4, <1>9
  <2>2. \A x \in Apps : ToSet(b.window_ids[x]) = shown(store2, x)
    BY <1>2, <1>5, <1>6, <2>1
  <2> QED
    BY <1>3, <1>9, <2>2 DEF Follows, Shows, shown, want
<1>10. CASE Filters(p) /\ want /\ id \notin Listed(b)
  <2> DEFINE c == AddWindow(b, id, a)
  <2>1. /\ WellKept(c) /\ ToSet(c.window_ids[a]) = ToSet(b.window_ids[a]) \union {id}
        /\ \A x \in Apps \ {a} : c.window_ids[x] = b.window_ids[x]
    BY <1>3, <1>10, AddedWindow
  <2> HIDE DEF c
  <2>2. \A x \in Apps : ToSet(c.window_ids[x]) = shown(store2, x)
    BY <1>2, <1>3, <1>5, <1>10, <2>1
  <2>3. Follows(ms, p, c, store2)
    BY <2>1, <2>2 DEF Follows, Shows, shown
  <2> QED
    BY <1>4, <1>10, <2>3 DEF want, c, a
<1>11. CASE Filters(p) /\ ~want /\ id \in Listed(b)
  <2> DEFINE c == RemoveWindow(b, id)
  <2>1. WellKept(c) /\ \A x \in Apps : ToSet(c.window_ids[x]) = ToSet(b.window_ids[x]) \ {id}
    BY <1>3, RemovedWindow
  <2> HIDE DEF c
  <2>2. \A x \in Apps : ToSet(c.window_ids[x]) = shown(store2, x)
    <3>1. ASSUME NEW x \in Apps PROVE shown(store2, x) = shown(store, x) \ {id}
      <4>1. CASE x = a
        BY <1>5, <1>11, <4>1
      <4>2. CASE x # a
        BY <1>5, <1>7, <4>2
      <4> QED BY <4>1, <4>2
    <3> QED
      BY <1>2, <2>1, <3>1
  <2>3. Follows(ms, p, c, store2)
    BY <2>1, <2>2 DEF Follows, Shows, shown
  <2> QED
    BY <1>4, <1>11, <2>3 DEF want, c
<1> QED BY <1>8, <1>9, <1>10, <1>11

(***************************************************************************)
(* The shell: the store, the drawer and the taskbars.                      *)
(***************************************************************************)

(* What the shell keeps: typed windows, the drawer's list of them, and a      *)
(* taskbar for every panel that shows them.                                   *)
DrawerTyped == drawer \in [live : SUBSET Ids, focused_id : Ids \union {0}, any_focused : BOOLEAN]
BarsShow == \A p \in DOMAIN bars : Follows(monitors, p, bars[p], by_id)
PanelsBuilt == IF bound THEN DOMAIN bars = Panels(monitors)
               ELSE DOMAIN by_id = {} /\ DOMAIN bars = {}
ShellAgrees ==
    /\ bound \in BOOLEAN
    /\ Typed(by_id) /\ DOMAIN by_id \subseteq Ids
    /\ DrawerTyped /\ drawer.live = DOMAIN by_id
    /\ BarsShow /\ PanelsBuilt

(* There are finitely many ids, and 0 is none.                                *)
LEMMA IdsFinite == IsFiniteSet(Ids) /\ 0 \notin Ids /\ \A S \in SUBSET Ids : IsFiniteSet(S)
<1>1. IsFiniteSet(Ids)
  BY TaskbarConstants, FS_Interval DEF Ids
<1>2. ASSUME NEW S \in SUBSET Ids PROVE IsFiniteSet(S)
  BY <1>1, FS_Subset
<1>3. 0 \notin Ids
  BY DEF Ids
<1> QED
  BY <1>1, <1>2, <1>3

(* The four callbacks of wlhooks, and what each makes of the store, of the    *)
(* drawer and of the taskbars.                                                *)
LEMMA Announces ==
    ASSUME ShellAgrees, bound, UNCHANGED <<bound, monitors>>,
           NEW id \in Ids \ DOMAIN by_id, NEW app \in Apps, on_new(id, app)
    PROVE  /\ ShellAgrees'
           /\ DOMAIN by_id' = DOMAIN by_id \union {id}
           /\ by_id'[id] = [app_id |-> app, output |-> NoOutput, activated |-> FALSE]
           /\ \A k \in DOMAIN by_id : by_id'[k] = by_id[k]
           /\ drawer'.focused_id = drawer.focused_id /\ drawer'.any_focused = drawer.any_focused
<1> DEFINE t == [app_id |-> app, output |-> NoOutput, activated |-> FALSE]
<1>1. /\ DOMAIN by_id' = DOMAIN by_id \union {id} /\ by_id'[id] = t
      /\ \A k \in DOMAIN by_id : by_id'[k] = by_id[k]
  BY DEF on_new
<1>2. t \in Toplevel /\ t.app_id = app
  BY DEF Toplevel
<1>3. \A p \in DOMAIN bars : bars'[p] = IF accepts(monitors, p, t) THEN AddWindow(bars[p], id, app)
                                        ELSE bars[p]
  BY DEF on_new
<1>4. DOMAIN bars' = DOMAIN bars /\ drawer' = [drawer EXCEPT !.live = @ \union {id}]
  BY DEF on_new
<1> HIDE DEF t
<1>5. Typed(by_id') /\ DOMAIN by_id' \subseteq Ids
  BY <1>1, <1>2 DEF Typed, ShellAgrees
<1>6. BarsShow'
  <2>1. ASSUME NEW p \in DOMAIN bars PROVE Follows(monitors, p, bars'[p], by_id')
    <3>1. Follows(monitors, p, IF accepts(monitors, p, by_id'[id])
                               THEN AddWindow(bars[p], id, by_id'[id].app_id) ELSE bars[p], by_id')
      BY <1>1, <1>2, FollowsNew DEF ShellAgrees, BarsShow
    <3> QED
      BY <1>1, <1>2, <1>3, <3>1
  <2> QED
    BY <1>4, <2>1 DEF BarsShow
<1>7. /\ DrawerTyped' /\ drawer'.live = DOMAIN by_id'
      /\ drawer'.focused_id = drawer.focused_id /\ drawer'.any_focused = drawer.any_focused
  BY <1>1, <1>4 DEF ShellAgrees, DrawerTyped
<1>8. PanelsBuilt' /\ bound' \in BOOLEAN
  BY <1>4 DEF ShellAgrees, PanelsBuilt
<1> QED
  BY <1>1, <1>5, <1>6, <1>7, <1>8 DEF ShellAgrees, t

LEMMA Forgets ==
    ASSUME ShellAgrees, bound, UNCHANGED <<bound, monitors>>, NEW id, on_rm(id)
    PROVE  /\ ShellAgrees'
           /\ DOMAIN by_id' = DOMAIN by_id \ {id}
           /\ \A k \in DOMAIN by_id' : by_id'[k] = by_id[k]
           /\ IF id = drawer.focused_id THEN ~drawer'.any_focused
              ELSE /\ drawer'.focused_id = drawer.focused_id
                   /\ drawer'.any_focused = drawer.any_focused
<1>1. DOMAIN by_id' = DOMAIN by_id \ {id} /\ \A k \in DOMAIN by_id' : by_id'[k] = by_id[k]
  BY DEF on_rm, Restrict
<1>2. DOMAIN bars' = DOMAIN bars /\ \A p \in DOMAIN bars : bars'[p] = RemoveWindow(bars[p], id)
  BY DEF on_rm
<1>3. drawer' = IF id = drawer.focused_id
                THEN [live |-> drawer.live \ {id}, focused_id |-> 0, any_focused |-> FALSE]
                ELSE [drawer EXCEPT !.live = @ \ {id}]
  BY DEF on_rm
<1>4. Typed(by_id') /\ DOMAIN by_id' \subseteq Ids
  BY <1>1 DEF Typed, ShellAgrees
<1>5. BarsShow'
  <2>1. ASSUME NEW p \in DOMAIN bars PROVE Follows(monitors, p, bars'[p], by_id')
    BY <1>1, <1>2, FollowsRemoval DEF ShellAgrees, BarsShow
  <2> QED
    BY <1>2, <2>1 DEF BarsShow
<1>6. /\ DrawerTyped' /\ drawer'.live = DOMAIN by_id'
      /\ IF id = drawer.focused_id THEN ~drawer'.any_focused
         ELSE /\ drawer'.focused_id = drawer.focused_id /\ drawer'.any_focused = drawer.any_focused
  BY <1>1, <1>3 DEF ShellAgrees, DrawerTyped
<1>7. PanelsBuilt' /\ bound' \in BOOLEAN
  BY <1>2 DEF ShellAgrees, PanelsBuilt
<1> QED
  BY <1>1, <1>4, <1>5, <1>6, <1>7 DEF ShellAgrees

LEMMA Focuses ==
    ASSUME ShellAgrees, bound, UNCHANGED <<bound, monitors>>, NEW id \in Ids \union {0}, on_focus(id)
    PROVE  /\ ShellAgrees'
           /\ DOMAIN by_id' = DOMAIN by_id
           /\ \A k \in DOMAIN by_id : /\ by_id'[k].activated = (k = id)
                                      /\ by_id'[k].output = by_id[k].output
           /\ drawer'.focused_id = id /\ drawer'.any_focused = (id \in DOMAIN by_id)
<1>1. DOMAIN by_id' = DOMAIN by_id
  BY DEF on_focus
<1>2. ASSUME NEW k \in DOMAIN by_id
      PROVE  /\ by_id'[k] \in Toplevel /\ by_id'[k].activated = (k = id)
             /\ by_id'[k].app_id = by_id[k].app_id /\ by_id'[k].output = by_id[k].output
  <2>1. by_id'[k] = [by_id[k] EXCEPT !.activated = (k = id)] /\ by_id[k] \in Toplevel
    BY DEF on_focus, ShellAgrees, Typed
  <2> DEFINE now == (k = id)
  <2>2. now \in BOOLEAN
    OBVIOUS
  <2> HIDE DEF now
  <2>3. by_id'[k] = [by_id[k] EXCEPT !.activated = now]
    BY <2>1 DEF now
  <2>4. /\ by_id'[k] \in Toplevel /\ by_id'[k].activated = now
        /\ by_id'[k].app_id = by_id[k].app_id /\ by_id'[k].output = by_id[k].output
    BY <2>1, <2>2, <2>3 DEF Toplevel
  <2> QED
    BY <2>4 DEF now
<1>3. DOMAIN bars' = DOMAIN bars /\ \A p \in DOMAIN bars : bars'[p] = mark_focused(bars[p], id)
  BY DEF on_focus
<1>4. Typed(by_id') /\ DOMAIN by_id' \subseteq Ids
  BY <1>1, <1>2 DEF Typed, ShellAgrees
<1>5. BarsShow'
  <2>1. ASSUME NEW p \in DOMAIN bars PROVE Follows(monitors, p, bars'[p], by_id')
    BY <1>1, <1>2, <1>3, FollowsFocus DEF ShellAgrees, BarsShow
  <2> QED
    BY <1>3, <2>1 DEF BarsShow
<1>6. /\ DrawerTyped' /\ drawer'.live = DOMAIN by_id'
      /\ drawer'.focused_id = id /\ drawer'.any_focused = (id \in DOMAIN by_id)
  <2> DEFINE any == (id \in drawer.live)
  <2>1. any \in BOOLEAN /\ drawer' = [drawer EXCEPT !.focused_id = id, !.any_focused = any]
    BY DEF on_focus
  <2> HIDE DEF any
  <2>2. /\ DrawerTyped' /\ drawer'.live = DOMAIN by_id'
        /\ drawer'.focused_id = id /\ drawer'.any_focused = any
    BY <1>1, <2>1 DEF ShellAgrees, DrawerTyped
  <2> QED
    BY <2>2 DEF any, ShellAgrees
<1>7. PanelsBuilt' /\ bound' \in BOOLEAN
  BY <1>3 DEF ShellAgrees, PanelsBuilt
<1> QED
  BY <1>1, <1>2, <1>4, <1>5, <1>6, <1>7 DEF ShellAgrees

LEMMA MovesOutput ==
    ASSUME ShellAgrees, bound, UNCHANGED <<bound, monitors>>, NEW id \in DOMAIN by_id,
           NEW o \in Outputs \union {NoOutput}, NEW entered \in BOOLEAN, on_output(id, o, entered)
    PROVE  /\ ShellAgrees'
           /\ DOMAIN by_id' = DOMAIN by_id
           /\ \A k \in DOMAIN by_id : by_id'[k].activated = by_id[k].activated
           /\ \A k \in DOMAIN by_id \ {id} : by_id'[k] = by_id[k]
           /\ entered => by_id'[id].output = o
           /\ drawer' = drawer
<1> DEFINE to == IF entered THEN o ELSE IF by_id[id].output = o THEN NoOutput ELSE by_id[id].output
           t == [by_id[id] EXCEPT !.output = to]
<1>1. by_id[id] \in Toplevel
  BY DEF ShellAgrees, Typed
<1>2. to \in Outputs \union {NoOutput} /\ (entered => to = o)
  BY <1>1 DEF Toplevel
<1>3. by_id' = [by_id EXCEPT ![id] = t] /\ drawer' = drawer /\ DOMAIN bars' = DOMAIN bars
  BY DEF on_output
<1>4. \A p \in DOMAIN bars :
         bars'[p] = IF ~Filters(p) \/ accepts(monitors, p, t) = (id \in Listed(bars[p])) THEN bars[p]
                    ELSE IF accepts(monitors, p, t) THEN AddWindow(bars[p], id, t.app_id)
                    ELSE RemoveWindow(bars[p], id)
  BY DEF on_output
<1> HIDE DEF to
<1>5. /\ t \in Toplevel /\ t.output = to /\ t.app_id = by_id[id].app_id
      /\ t.activated = by_id[id].activated
  BY <1>1, <1>2 DEF Toplevel
<1> HIDE DEF t
<1>6. /\ DOMAIN by_id' = DOMAIN by_id /\ by_id'[id] = t
      /\ \A k \in DOMAIN by_id \ {id} : by_id'[k] = by_id[k]
  BY <1>3
<1>7. Typed(by_id') /\ DOMAIN by_id' \subseteq Ids
  BY <1>5, <1>6 DEF Typed, ShellAgrees
<1>8. BarsShow'
  <2>1. ASSUME NEW p \in DOMAIN bars PROVE Follows(monitors, p, bars'[p], by_id')
    <3>1. Follows(monitors, p,
              IF ~Filters(p) \/ accepts(monitors, p, by_id'[id]) = (id \in Listed(bars[p])) THEN bars[p]
              ELSE IF accepts(monitors, p, by_id'[id]) THEN AddWindow(bars[p], id, by_id'[id].app_id)
              ELSE RemoveWindow(bars[p], id), by_id')
      BY <1>5, <1>6, FollowsOutput DEF ShellAgrees, BarsShow
    <3> QED
      BY <1>4, <1>6, <3>1
  <2> QED
    BY <1>3, <2>1 DEF BarsShow
<1>9. DrawerTyped' /\ drawer'.live = DOMAIN by_id'
  BY <1>3, <1>6 DEF ShellAgrees, DrawerTyped
<1>10. PanelsBuilt' /\ bound' \in BOOLEAN
  BY <1>3 DEF ShellAgrees, PanelsBuilt
<1> QED
  BY <1>2, <1>3, <1>5, <1>6, <1>7, <1>8, <1>9, <1>10 DEF ShellAgrees

(* Panels that are built anew show the store.                                 *)
LEMMA Rebuilt ==
    ASSUME NEW ms, NEW store, Typed(store), DOMAIN store \subseteq Ids, pins \subseteq Apps
    PROVE  LET bs == build_windows(ms, store)
           IN  DOMAIN bs = Panels(ms) /\ \A p \in DOMAIN bs : Follows(ms, p, bs[p], store)
<1>1. IsFiniteSet(DOMAIN store)
  BY IdsFinite
<1>2. ASSUME NEW p \in Panels(ms) PROVE Follows(ms, p, NewAppBar(ms, p, store), store)
  BY <1>1, BuiltBar DEF Follows, Shows
<1> QED
  BY <1>2 DEF build_windows

(***************************************************************************)
(* The invariant of wlhooks and the shell.                                 *)
(***************************************************************************)

(* What wlhooks keeps: typed windows with ids in sequence, each of the        *)
(* compositor's once, and tables of the compositor's protocols and outputs.   *)
WindowsTyped ==
    /\ next_window_id \in 1 .. MaxWindows + 1
    /\ DOMAIN windows \subseteq 1 .. next_window_id - 1
    /\ \A id \in DOMAIN windows : windows[id] \in Window
Opened == Cardinality(DOMAIN windows) = opened
ProtocolsTyped == globals \in (SUBSET {"wlr", "ext"}) \ {{}} /\ managers \subseteq globals
TableTyped ==
    /\ outputs \subseteq Outputs /\ IsFiniteSet(outputs) /\ Cardinality(outputs) <= MAX_OUTPUTS
    /\ pins \subseteq Apps
Hooks == WindowsTyped /\ Opened /\ ProtocolsTyped /\ TableTyped

(* The shell has the windows that were announced, and those have details.     *)
Announced ==
    /\ DOMAIN by_id = {id \in DOMAIN windows : windows[id].announced}
    /\ \A id \in DOMAIN windows : windows[id].announced => HasDetails(windows[id])

(* When the compositor names a window before it says more of it: what has     *)
(* focus or an output has details, what has details is announced, and an      *)
(* output that wlhooks knows is the one the store knows.                      *)
Known ==
    ~AnyOrder =>
        /\ \A id \in DOMAIN windows :
              /\ windows[id].activated \/ windows[id].output # NoOutput => HasDetails(windows[id])
              /\ bound /\ HasDetails(windows[id]) => windows[id].announced
        /\ \A id \in DOMAIN by_id :
              windows[id].output # NoOutput => by_id[id].output = windows[id].output
        /\ focus # 0 => HasDetails(windows[focus])

(* A focus change is on its way: wlhooks has these windows activated, and the *)
(* shell shows that one.                                                      *)
Gain    == [id |-> focus, activated |-> TRUE]
Loss(f) == [id |-> f, activated |-> FALSE]
Active     == {id \in DOMAIN windows : windows[id].activated}
Underlined == {id \in DOMAIN by_id : by_id[id].activated}
Underlines(id) ==
    /\ Underlined = {id} \ {0} /\ drawer.any_focused = (id # 0)
    /\ id # 0 => drawer.focused_id = id
Sees(active, shown) == ~AnyOrder => Active = active /\ (bound => Underlines(shown))
Settled == pending = <<>> /\ Sees({focus} \ {0}, focus)
Gaining == pending = <<Gain>> /\ focus # 0 /\ Sees({}, 0)
Losing(f) ==
    /\ pending = <<Loss(f)>>
    /\ Sees({f} \union ({focus} \ {0}), IF focus = 0 THEN f ELSE focus)
Passing(f) == pending \in {<<Loss(f), Gain>>, <<Gain, Loss(f)>>} /\ focus # 0 /\ Sees({f}, f)
FocusMoves ==
    /\ focus \in DOMAIN windows \union {0}
    /\ Settled \/ Gaining \/ \E f \in DOMAIN windows \ {focus} : Losing(f) \/ Passing(f)

TaskbarInv == Hooks /\ Announced /\ ShellAgrees /\ Known /\ FocusMoves

(* The ids of windows are ids.                                                *)
LEMMA KnownIds ==
    ASSUME WindowsTyped
    PROVE  DOMAIN windows \subseteq Ids /\ IsFiniteSet(DOMAIN windows) /\ 0 \notin DOMAIN windows
<1>1. DOMAIN windows \subseteq Ids
  BY TaskbarConstants DEF WindowsTyped, Ids
<1> QED
  BY <1>1, IdsFinite

(* Nothing is there in the first state, and it agrees.                        *)
LEMMA TaskbarInvInit == TaskbarInit => TaskbarInv
<1> SUFFICES ASSUME TaskbarInit PROVE TaskbarInv
  OBVIOUS
<1>1. DOMAIN windows = {} /\ DOMAIN by_id = {} /\ DOMAIN bars = {}
  BY DEF TaskbarInit
<1>2. Hooks
  <2>1. WindowsTyped
    BY <1>1, TaskbarConstants DEF TaskbarInit, WindowsTyped
  <2>2. Opened
    BY <1>1, FS_EmptySet DEF TaskbarInit, Opened
  <2>3. ProtocolsTyped
    BY TaskbarConstants DEF TaskbarInit, ProtocolsTyped
  <2>4. TableTyped
    BY TaskbarConstants, FS_EmptySet DEF TaskbarInit, TableTyped
  <2> QED
    BY <2>1, <2>2, <2>3, <2>4 DEF Hooks
<1>3. Announced
  BY <1>1 DEF Announced
<1>4. ShellAgrees
  BY <1>1 DEF TaskbarInit, ShellAgrees, Typed, DrawerTyped, BarsShow, PanelsBuilt
<1>5. Known
  BY <1>1 DEF TaskbarInit, Known
<1>6. FocusMoves
  BY <1>1 DEF TaskbarInit, FocusMoves, Settled, Sees, Active
<1> QED
  BY <1>2, <1>3, <1>4, <1>5, <1>6 DEF TaskbarInv

(* What leaves the shell and its panels alone leaves them agreeing.           *)
LEMMA ShellStays ==
    ASSUME ShellAgrees, UNCHANGED <<shell, bound, monitors>>
    PROVE  ShellAgrees'
  BY DEF ShellAgrees, shell, Typed, DrawerTyped, BarsShow, PanelsBuilt

(* A focus change that nothing touches stays where it is.                     *)
LEMMA FocusStays ==
    ASSUME FocusMoves, UNCHANGED <<focus, pending, bound>>, DOMAIN windows \subseteq DOMAIN windows',
           Active' = Active, Underlined' = Underlined,
           drawer'.any_focused = drawer.any_focused, drawer'.focused_id = drawer.focused_id
    PROVE  FocusMoves'
<1>1. ASSUME NEW active, NEW shown, Sees(active, shown) PROVE Sees(active, shown)'
  BY <1>1 DEF Sees, Underlines
<1>2. Gain' = Gain /\ \A f : Loss(f)' = Loss(f)
  BY DEF Gain, Loss
<1>3. focus' = focus /\ pending' = pending
  OBVIOUS
<1>4. Settled => Settled'
  BY <1>1, <1>3 DEF Settled
<1>5. Gaining => Gaining'
  BY <1>1, <1>2, <1>3 DEF Gaining
<1>6. ASSUME NEW f PROVE (Losing(f) => Losing(f)') /\ (Passing(f) => Passing(f)')
  BY <1>1, <1>2, <1>3 DEF Losing, Passing
<1> QED
  BY <1>3, <1>4, <1>5, <1>6 DEF FocusMoves

(* One window of the list changes.                                            *)
LEMMA OneWindowChanges ==
    ASSUME WindowsTyped, Opened, NEW id \in DOMAIN windows, NEW w \in Window,
           windows' = [windows EXCEPT ![id] = w], UNCHANGED <<next_window_id, opened>>
    PROVE  /\ WindowsTyped' /\ Opened'
           /\ DOMAIN windows' = DOMAIN windows /\ windows'[id] = w
           /\ \A k \in DOMAIN windows \ {id} : windows'[k] = windows[k]
<1>1. /\ DOMAIN windows' = DOMAIN windows /\ windows'[id] = w
      /\ \A k \in DOMAIN windows \ {id} : windows'[k] = windows[k]
  OBVIOUS
<1> QED
  BY <1>1 DEF WindowsTyped, Opened

(* Steps that touch neither windows, nor the store, nor the focus.            *)
LEMMA Quiet ==
    ASSUME TaskbarInv, UNCHANGED <<windows, by_id, drawer, focus, pending, bound>>
    PROVE  Announced' /\ Known' /\ FocusMoves'
<1>1. Announced'
  BY DEF TaskbarInv, Announced, HasDetails
<1>2. Known'
  BY DEF TaskbarInv, Known, HasDetails
<1>3. Active' = Active /\ Underlined' = Underlined
  BY DEF Active, Underlined
<1>4. FocusMoves'
  BY <1>3, FocusStays DEF TaskbarInv
<1> QED
  BY <1>1, <1>2, <1>4

(* The list of windows when nothing touches it.                               *)
LEMMA WindowsStay ==
    ASSUME WindowsTyped, Opened, UNCHANGED <<windows, next_window_id, opened>>
    PROVE  WindowsTyped' /\ Opened'
  BY DEF WindowsTyped, Opened

(* Every action keeps the invariant; first those of start-up, outputs and     *)
(* monitors.                                                                  *)
LEMMA GlobalStep ==
    ASSUME TaskbarInv, NEW protocol \in globals, registry_global(protocol)
    PROVE  TaskbarInv'
<1>1. WindowsTyped' /\ Opened'
  BY WindowsStay DEF TaskbarInv, Hooks, registry_global, toplevels
<1>2. ProtocolsTyped' /\ TableTyped'
  BY DEF TaskbarInv, Hooks, registry_global, toplevels, ProtocolsTyped, TableTyped
<1>3. ShellAgrees'
  BY ShellStays DEF TaskbarInv, registry_global
<1>4. Announced' /\ Known' /\ FocusMoves'
  BY Quiet DEF registry_global, toplevels, shell
<1> QED
  BY <1>1, <1>2, <1>3, <1>4 DEF TaskbarInv, Hooks

LEMMA OutputStep ==
    ASSUME TaskbarInv, NEW o \in Outputs, output_handler(o)
    PROVE  TaskbarInv'
<1>1. WindowsTyped' /\ Opened' /\ ProtocolsTyped'
  BY WindowsStay DEF TaskbarInv, Hooks, output_handler, toplevels, ProtocolsTyped
<1>2. TableTyped'
  <2> DEFINE n == Cardinality(outputs)
  <2>1. IsFiniteSet(outputs') /\ Cardinality(outputs') = n + 1 /\ n \in Nat
    BY FS_AddElement, FS_CardinalityType DEF TaskbarInv, Hooks, TableTyped, output_handler
  <2>2. n + 1 <= MAX_OUTPUTS
    <3>1. n < MAX_OUTPUTS
      BY DEF output_handler
    <3> HIDE DEF n
    <3> QED
      BY <2>1, <3>1, TaskbarConstants
  <2> QED
    BY <2>1, <2>2 DEF TaskbarInv, Hooks, TableTyped, output_handler
<1>3. ShellAgrees'
  BY ShellStays DEF TaskbarInv, output_handler
<1>4. Announced' /\ Known' /\ FocusMoves'
  BY Quiet DEF output_handler, toplevels, shell
<1> QED
  BY <1>1, <1>2, <1>3, <1>4 DEF TaskbarInv, Hooks

(* Panels that are rebuilt, or not yet built, agree with the store.           *)
LEMMA Rebuilds ==
    ASSUME ShellAgrees, pins \subseteq Apps, NEW ms, rebuild_windows(ms),
           UNCHANGED <<by_id, drawer, bound>>
    PROVE  ShellAgrees'
<1>1. Typed(by_id) /\ DOMAIN by_id \subseteq Ids
  BY DEF ShellAgrees
<1>2. CASE bound
  <2> DEFINE bs == build_windows(ms, by_id)
  <2>1. DOMAIN bs = Panels(ms) /\ \A p \in DOMAIN bs : Follows(ms, p, bs[p], by_id)
    BY <1>1, Rebuilt
  <2>2. bars' = bs /\ monitors' = ms
    BY <1>2 DEF rebuild_windows
  <2> HIDE DEF bs
  <2> QED
    BY <1>2, <2>1, <2>2 DEF ShellAgrees, Typed, DrawerTyped, BarsShow, PanelsBuilt
<1>3. CASE ~bound
  <2>1. bars' = bars /\ DOMAIN bars = {}
    BY <1>3 DEF rebuild_windows, ShellAgrees, PanelsBuilt
  <2> QED
    BY <1>3, <2>1 DEF ShellAgrees, Typed, DrawerTyped, BarsShow, PanelsBuilt
<1> QED BY <1>2, <1>3

LEMMA MonitorStep ==
    ASSUME TaskbarInv, NEW o \in Outputs, MonitorAdded(o)
    PROVE  TaskbarInv'
<1>1. WindowsTyped' /\ Opened' /\ ProtocolsTyped' /\ TableTyped'
  BY WindowsStay DEF TaskbarInv, Hooks, MonitorAdded, hooks, toplevels, ProtocolsTyped, TableTyped
<1>2. ShellAgrees'
  BY Rebuilds DEF TaskbarInv, Hooks, TableTyped, MonitorAdded
<1>3. Announced' /\ Known' /\ FocusMoves'
  BY Quiet DEF MonitorAdded, hooks, toplevels
<1> QED
  BY <1>1, <1>2, <1>3 DEF TaskbarInv, Hooks

LEMMA OutputRemoveStep ==
    ASSUME TaskbarInv, NEW o \in Outputs, output_remove_handler(o)
    PROVE  TaskbarInv'
<1>1. WindowsTyped' /\ Opened' /\ ProtocolsTyped'
  BY WindowsStay DEF TaskbarInv, Hooks, output_remove_handler, toplevels, ProtocolsTyped
<1>2. TableTyped'
  <2> DEFINE left == outputs \ {o}
  <2>1. left \in SUBSET outputs /\ IsFiniteSet(outputs) /\ Cardinality(outputs) <= MAX_OUTPUTS
        /\ outputs \subseteq Outputs
    BY DEF TaskbarInv, Hooks, TableTyped
  <2>2. outputs' = left /\ pins' = pins
    BY DEF output_remove_handler
  <2> HIDE DEF left
  <2>3. IsFiniteSet(left) /\ Cardinality(left) <= Cardinality(outputs)
    BY <2>1, FS_Subset
  <2>4. Cardinality(left) \in Nat /\ Cardinality(outputs) \in Nat
    BY <2>1, <2>3, FS_CardinalityType
  <2>5. Cardinality(left) <= MAX_OUTPUTS
    BY <2>1, <2>3, <2>4, TaskbarConstants
  <2> QED
    BY <2>1, <2>2, <2>3, <2>5 DEF TaskbarInv, Hooks, TableTyped
<1>3. ShellAgrees'
  <2>1. CASE o \in ToSet(monitors)
    BY <2>1, Rebuilds DEF TaskbarInv, Hooks, TableTyped, output_remove_handler
  <2>2. CASE o \notin ToSet(monitors)
    BY <2>2, ShellStays DEF TaskbarInv, output_remove_handler, shell
  <2> QED BY <2>1, <2>2
<1>4. Announced' /\ Known' /\ FocusMoves'
  BY Quiet DEF output_remove_handler, toplevels
<1> QED
  BY <1>1, <1>2, <1>3, <1>4 DEF TaskbarInv, Hooks

(* A taskbar on which the user clicks or pins keeps its windows.              *)
LEMMA OneBarChanges ==
    ASSUME ShellAgrees, NEW p \in DOMAIN bars, NEW b, bars' = [bars EXCEPT ![p] = b],
           WellKept(b), b.window_ids = bars[p].window_ids, UNCHANGED <<by_id, drawer, bound, monitors>>
    PROVE  ShellAgrees'
<1>1. Shows(monitors, p, b, by_id)
  BY DEF ShellAgrees, BarsShow, Follows, Shows
<1>2. /\ DOMAIN bars' = DOMAIN bars /\ bars'[p] = b
      /\ \A q \in DOMAIN bars \ {p} : bars'[q] = bars[q]
  OBVIOUS
<1>3. BarsShow'
  BY <1>1, <1>2 DEF ShellAgrees, BarsShow, Follows
<1> QED
  BY <1>2, <1>3 DEF ShellAgrees, Typed, DrawerTyped, PanelsBuilt

(* The user clicks an entry, pins or unpins it.                               *)
LEMMA ClickStep ==
    ASSUME TaskbarInv, NEW p \in DOMAIN bars, NEW a \in Apps, on_primary_click(p, a)
    PROVE  TaskbarInv'
<1> DEFINE b == bars[p]
           n == Len(b.window_ids[a])
           i == IF b.cycle_idx[a] >= n THEN 0 ELSE b.cycle_idx[a]
           j == (i + 1) % n
           c == [b EXCEPT !.cycle_idx[a] = j]
<1>1. WindowsTyped' /\ Opened' /\ ProtocolsTyped' /\ TableTyped'
  BY WindowsStay DEF TaskbarInv, Hooks, on_primary_click, hooks, toplevels, ProtocolsTyped, TableTyped
<1>2. WellKept(b)
  BY DEF TaskbarInv, ShellAgrees, BarsShow, Follows
<1>3. n > 0 /\ bars' = [bars EXCEPT ![p].cycle_idx[a] = j]
  BY DEF on_primary_click
<1>4. n \in Nat /\ b.cycle_idx[a] \in Nat
  BY <1>2 DEF WellKept, BarParts
<1>5. bars' = [bars EXCEPT ![p] = c]
  BY <1>3
<1> HIDE DEF n, b
<1>6. i \in Nat
  BY <1>4
<1> HIDE DEF i
<1>7. j \in 0 .. n - 1
  BY <1>3, <1>4, <1>6
<1>8. j \in Nat /\ InCycle(n, j)
  BY <1>4, <1>7 DEF InCycle
<1> HIDE DEF j
<1>9. /\ c \in BarParts /\ c.pinned = b.pinned /\ c.entries = b.entries
      /\ c.window_ids = b.window_ids
      /\ c.cycle_idx[a] = j /\ \A x \in Apps \ {a} : c.cycle_idx[x] = b.cycle_idx[x]
  BY <1>2, <1>8 DEF WellKept, BarParts
<1> HIDE DEF c
<1>10. Cycles(c)
  BY <1>2, <1>8, <1>9 DEF Cycles, n, WellKept
<1>11. WellKept(c)
  BY <1>2, <1>9, <1>10 DEF WellKept, EachOnce, EntriesStay
<1>12. ShellAgrees'
  BY <1>5, <1>9, <1>11, OneBarChanges DEF TaskbarInv, on_primary_click, b
<1>13. Announced' /\ Known' /\ FocusMoves'
  BY Quiet DEF on_primary_click, hooks, toplevels
<1> QED
  BY <1>1, <1>12, <1>13 DEF TaskbarInv, Hooks

LEMMA PinStep ==
    ASSUME TaskbarInv, NEW p \in DOMAIN bars, NEW a \in Apps, pin_toggled(p, a)
    PROVE  TaskbarInv'
<1> DEFINE b0 == bars[p]
           b == [b0 EXCEPT !.pinned = SymDiff(@, {a})]
           c == IF a \notin b.pinned /\ b.window_ids[a] = <<>> THEN RemoveEntry(b, a) ELSE b
<1>1. WellKept(b0)
  BY DEF TaskbarInv, ShellAgrees, BarsShow, Follows
<1>2. a \in b0.entries /\ pins' = b.entries \intersect b.pinned /\ bars' = [bars EXCEPT ![p] = c]
  BY DEF pin_toggled
<1> HIDE DEF b0
<1>3. /\ b \in BarParts /\ b.entries = b0.entries /\ b.window_ids = b0.window_ids
      /\ b.cycle_idx = b0.cycle_idx
      /\ \A x \in Apps \ {a} : x \in b.pinned <=> x \in b0.pinned
  BY <1>1 DEF WellKept, BarParts, SymDiff
<1> HIDE DEF b
<1>4. EachOnce(b) /\ Cycles(b)
  BY <1>1, <1>3 DEF WellKept, EachOnce, Cycles
<1>5. WellKept(c) /\ c.window_ids = b0.window_ids
  <2>1. CASE a \notin b.pinned /\ b.window_ids[a] = <<>>
    <3>1. c = [b EXCEPT !.entries = @ \ {a}, !.pinned = @ \ {a}, !.cycle_idx[a] = 0]
      BY <2>1 DEF RemoveEntry
    <3> HIDE DEF c
    <3>2. /\ c \in BarParts /\ c.pinned = b.pinned \ {a} /\ c.entries = b.entries \ {a}
          /\ c.window_ids = b.window_ids
          /\ c.cycle_idx[a] = 0 /\ \A x \in Apps \ {a} : c.cycle_idx[x] = b.cycle_idx[x]
      BY <1>3, <3>1 DEF BarParts
    <3>3. Len(b.window_ids[a]) \in Nat
      BY <1>3 DEF BarParts
    <3>4. InCycle(Len(b.window_ids[a]), 0)
      BY <3>3 DEF InCycle
    <3>5. Cycles(c)
      BY <1>4, <3>2, <3>4 DEF Cycles
    <3>6. EntriesStay(c)
      BY <1>1, <1>3, <2>1, <3>2 DEF WellKept, EntriesStay, BarParts
    <3> QED
      BY <1>3, <1>4, <3>2, <3>5, <3>6 DEF WellKept, EachOnce
  <2>2. CASE ~(a \notin b.pinned /\ b.window_ids[a] = <<>>)
    <3>1. EntriesStay(b)
      BY <1>1, <1>2, <1>3, <2>2 DEF WellKept, EntriesStay, BarParts
    <3> QED
      BY <1>3, <1>4, <2>2, <3>1 DEF WellKept
  <2> QED BY <2>1, <2>2
<1>6. WindowsTyped' /\ Opened' /\ ProtocolsTyped'
  BY WindowsStay DEF TaskbarInv, Hooks, pin_toggled, hooks, toplevels, ProtocolsTyped
<1>7. TableTyped'
  BY <1>2, <1>3 DEF TaskbarInv, Hooks, TableTyped, pin_toggled, hooks, BarParts
<1> HIDE DEF c
<1>8. ShellAgrees'
  BY <1>2, <1>5, OneBarChanges DEF TaskbarInv, pin_toggled, b0
<1>9. Announced' /\ Known' /\ FocusMoves'
  BY Quiet DEF pin_toggled, hooks, toplevels
<1> QED
  BY <1>6, <1>7, <1>8, <1>9 DEF TaskbarInv, Hooks

(* Every window comes once, over whichever protocols.                         *)
LEMMA TakenOnce ==
    ASSUME ProtocolsTyped, managers = globals
    PROVE  Cardinality({p \in managers : Takes(p)}) = 1
<1>1. CASE "wlr" \in managers
  <2>1. {p \in managers : Takes(p)} = {"wlr"}
    BY <1>1 DEF Takes
  <2> QED BY <2>1, FS_Singleton
<1>2. CASE "wlr" \notin managers
  <2>1. {p \in managers : Takes(p)} = {"ext"}
    BY <1>2 DEF Takes, ProtocolsTyped
  <2> QED BY <2>1, FS_Singleton
<1> QED BY <1>1, <1>2

(* The compositor reports a window, and wlhooks gives it an id of its own.    *)
LEMMA ToplevelStep ==
    ASSUME TaskbarInv, on_toplevel
    PROVE  TaskbarInv'
<1> DEFINE id == next_window_id
<1> USE DEF TaskbarInv, Hooks
<1>1. Cardinality({p \in managers : Takes(p)}) = 1
  BY TakenOnce DEF on_toplevel
<1>2. id \in Nat /\ id .. id + 1 - 1 = {id}
  BY TaskbarConstants DEF WindowsTyped
<1>3. /\ id \in Ids /\ next_window_id' = id + 1 /\ opened' = opened + 1
      /\ windows' = [k \in {id} \union DOMAIN windows |->
                        IF k = id THEN window_list_create ELSE windows[k]]
      /\ UNCHANGED <<outputs, managers, on, focus, pending, globals, shell, bound, monitors, pins>>
  BY <1>1, <1>2 DEF on_toplevel
<1>4. id \in 1 .. MaxWindows
  BY <1>3 DEF Ids
<1>5. id \notin DOMAIN windows
  BY <1>2 DEF WindowsTyped
<1>6. window_list_create \in Window /\ ~window_list_create.announced /\ ~window_list_create.activated
      /\ ~HasDetails(window_list_create) /\ window_list_create.output = NoOutput
  BY DEF window_list_create, Window, HasDetails
<1> HIDE DEF id
<1>7. /\ DOMAIN windows' = {id} \union DOMAIN windows /\ windows'[id] = window_list_create
      /\ \A k \in DOMAIN windows : windows'[k] = windows[k]
  BY <1>3, <1>5
<1>8. WindowsTyped'
  <2>1. next_window_id' \in 1 .. MaxWindows + 1
    BY <1>2, <1>3, <1>4, TaskbarConstants
  <2>2. DOMAIN windows' \subseteq 1 .. next_window_id' - 1
    BY <1>2, <1>3, <1>4, <1>7, TaskbarConstants DEF WindowsTyped, id
  <2> QED
    BY <1>6, <1>7, <2>1, <2>2 DEF WindowsTyped
<1>9. Opened'
  <2>1. DOMAIN windows' = DOMAIN windows \union {id} /\ IsFiniteSet(DOMAIN windows)
    BY <1>7, KnownIds
  <2>2. Cardinality(DOMAIN windows') = Cardinality(DOMAIN windows) + 1
    BY <1>5, <2>1, FS_AddElement
  <2> QED
    BY <1>3, <2>2 DEF Opened
<1>10. ProtocolsTyped' /\ TableTyped'
  BY <1>3 DEF ProtocolsTyped, TableTyped
<1>11. Announced'
  BY <1>3, <1>5, <1>6, <1>7 DEF Announced, shell, HasDetails
<1>12. ShellAgrees'
  BY <1>3, ShellStays
<1>13. Known'
  <2>1. ASSUME ~AnyOrder, NEW k \in DOMAIN windows'
        PROVE  /\ windows'[k].activated \/ windows'[k].output # NoOutput => HasDetails(windows'[k])
               /\ bound /\ HasDetails(windows'[k]) => windows'[k].announced
    BY <1>6, <1>7, <2>1 DEF Known
  <2>2. ASSUME ~AnyOrder, NEW k \in DOMAIN by_id, windows'[k].output # NoOutput
        PROVE  by_id[k].output = windows'[k].output
    BY <1>7, <2>2 DEF Known, Announced
  <2>3. ASSUME ~AnyOrder, focus # 0 PROVE HasDetails(windows'[focus])
    BY <1>7, <2>3 DEF Known, FocusMoves
  <2> QED
    BY <1>3, <2>1, <2>2, <2>3 DEF Known, HasDetails, shell
<1>14. FocusMoves'
  <2>1. Active' = Active /\ Underlined' = Underlined
    BY <1>3, <1>6, <1>7 DEF Active, Underlined, shell
  <2> QED
    BY <1>3, <1>7, <2>1, FocusStays DEF shell
<1> QED
  BY <1>8, <1>9, <1>10, <1>11, <1>12, <1>13, <1>14

(* A window gets its title or its app id, and is announced when it has both.  *)
LEMMA DetailsStep ==
    ASSUME TaskbarInv, NEW id \in DOMAIN windows, NEW w \in Window, ~HasDetails(windows[id]),
           w.activated = windows[id].activated, w.output = windows[id].output,
           w.announced = windows[id].announced, emit_new_if_ready(id, w),
           UNCHANGED <<next_window_id, outputs, managers, toplevels, bound, monitors, pins>>
    PROVE  TaskbarInv'
<1> USE DEF TaskbarInv, Hooks
<1>1. id \in Ids /\ id \notin DOMAIN by_id /\ ~windows[id].announced
  BY KnownIds DEF Announced
<1>2. UNCHANGED <<focus, pending, opened, globals>>
  BY DEF toplevels
<1>3. ProtocolsTyped' /\ TableTyped'
  BY <1>2 DEF ProtocolsTyped, TableTyped
<1>4. ASSUME ~AnyOrder PROVE ~windows[id].activated /\ windows[id].output = NoOutput /\ focus # id
  BY <1>4, KnownIds DEF Known
<1>5. DOMAIN by_id \subseteq DOMAIN windows
  BY DEF Announced
<1>6. focus # 0 => focus \in DOMAIN windows
  BY DEF FocusMoves
<1>7. CASE bound /\ HasDetails(w)
  <2> DEFINE v == [w EXCEPT !.announced = TRUE]
  <2>1. windows' = [windows EXCEPT ![id] = v] /\ on_new(id, w.app_id)
    BY <1>7 DEF emit_new_if_ready
  <2>2. /\ v \in Window /\ v.announced /\ HasDetails(v) /\ w.app_id \in Apps
        /\ v.activated = windows[id].activated /\ v.output = windows[id].output
    BY <1>7 DEF Window, HasDetails
  <2> HIDE DEF v
  <2>3. /\ WindowsTyped' /\ Opened' /\ DOMAIN windows' = DOMAIN windows /\ windows'[id] = v
        /\ \A k \in DOMAIN windows \ {id} : windows'[k] = windows[k]
    BY <1>2, <2>1, <2>2, OneWindowChanges
  <2>4. /\ ShellAgrees'
        /\ DOMAIN by_id' = DOMAIN by_id \union {id}
        /\ by_id'[id] = [app_id |-> w.app_id, output |-> NoOutput, activated |-> FALSE]
        /\ \A k \in DOMAIN by_id : by_id'[k] = by_id[k]
        /\ drawer'.focused_id = drawer.focused_id /\ drawer'.any_focused = drawer.any_focused
    BY <1>1, <1>7, <2>1, <2>2, Announces
  <2>5. Announced'
    BY <2>2, <2>3, <2>4 DEF Announced, HasDetails
  <2>6. Known'
    <3>1. ASSUME ~AnyOrder, NEW k \in DOMAIN windows'
          PROVE  /\ windows'[k].activated \/ windows'[k].output # NoOutput => HasDetails(windows'[k])
                 /\ bound /\ HasDetails(windows'[k]) => windows'[k].announced
      BY <2>2, <2>3, <3>1 DEF Known
    <3>2. ASSUME ~AnyOrder, NEW k \in DOMAIN by_id', windows'[k].output # NoOutput
          PROVE  by_id'[k].output = windows'[k].output
      BY <1>1, <1>4, <1>5, <2>2, <2>3, <2>4, <3>2 DEF Known
    <3>3. ASSUME ~AnyOrder, focus # 0 PROVE HasDetails(windows'[focus])
      BY <1>4, <1>6, <2>3, <3>3 DEF Known
    <3> QED
      BY <1>2, <3>1, <3>2, <3>3 DEF Known, HasDetails
  <2>7. FocusMoves'
    <3>1. Active' = Active /\ Underlined' = Underlined
      BY <1>1, <2>2, <2>3, <2>4 DEF Active, Underlined
    <3> QED
      BY <1>2, <2>3, <2>4, <3>1, FocusStays
  <2> QED
    BY <1>3, <2>3, <2>4, <2>5, <2>6, <2>7
<1>8. CASE ~(bound /\ HasDetails(w))
  <2>1. windows' = [windows EXCEPT ![id] = w] /\ UNCHANGED shell
    BY <1>8 DEF emit_new_if_ready
  <2>2. /\ WindowsTyped' /\ Opened' /\ DOMAIN windows' = DOMAIN windows /\ windows'[id] = w
        /\ \A k \in DOMAIN windows \ {id} : windows'[k] = windows[k]
    BY <1>2, <2>1, OneWindowChanges
  <2>3. ShellAgrees'
    BY <2>1, ShellStays
  <2>4. by_id' = by_id /\ drawer' = drawer
    BY <2>1 DEF shell
  <2>5. Announced'
    BY <1>1, <2>2, <2>4 DEF Announced, HasDetails
  <2>6. Known'
    <3>1. ASSUME ~AnyOrder, NEW k \in DOMAIN windows'
          PROVE  /\ windows'[k].activated \/ windows'[k].output # NoOutput => HasDetails(windows'[k])
                 /\ bound /\ HasDetails(windows'[k]) => windows'[k].announced
      BY <1>4, <1>8, <2>2, <3>1 DEF Known
    <3>2. ASSUME ~AnyOrder, NEW k \in DOMAIN by_id', windows'[k].output # NoOutput
          PROVE  by_id'[k].output = windows'[k].output
      BY <1>1, <1>5, <2>2, <2>4, <3>2 DEF Known
    <3>3. ASSUME ~AnyOrder, focus # 0 PROVE HasDetails(windows'[focus])
      BY <1>4, <1>6, <2>2, <3>3 DEF Known
    <3> QED
      BY <1>2, <3>1, <3>2, <3>3 DEF Known, HasDetails
  <2>7. FocusMoves'
    <3>1. Active' = Active /\ Underlined' = Underlined
      BY <2>2, <2>4 DEF Active, Underlined
    <3> QED
      BY <1>2, <2>2, <2>4, <3>1, FocusStays
  <2> QED
    BY <1>3, <2>2, <2>3, <2>5, <2>6, <2>7
<1> QED BY <1>7, <1>8

(* Each of the two details completes a window at most once.                   *)
LEMMA TitleStep ==
    ASSUME TaskbarInv, NEW id \in DOMAIN windows, SetTitle(id)
    PROVE  TaskbarInv'
<1> DEFINE w == [windows[id] EXCEPT !.titled = TRUE]
<1>1. windows[id] \in Window /\ ~windows[id].titled
  BY DEF TaskbarInv, Hooks, WindowsTyped, SetTitle
<1>2. /\ w \in Window /\ w.activated = windows[id].activated /\ w.output = windows[id].output
      /\ w.announced = windows[id].announced /\ ~HasDetails(windows[id])
  BY <1>1 DEF Window, HasDetails
<1>3. emit_new_if_ready(id, w)
  BY DEF SetTitle
<1> HIDE DEF w
<1> QED
  BY <1>2, <1>3, DetailsStep DEF SetTitle

LEMMA AppIdStep ==
    ASSUME TaskbarInv, NEW id \in DOMAIN windows, NEW a \in Apps, SetAppId(id, a)
    PROVE  TaskbarInv'
<1> DEFINE w == [windows[id] EXCEPT !.app_id = a]
<1>1. windows[id] \in Window /\ windows[id].app_id = NoApp
  BY DEF TaskbarInv, Hooks, WindowsTyped, SetAppId
<1>2. /\ w \in Window /\ w.activated = windows[id].activated /\ w.output = windows[id].output
      /\ w.announced = windows[id].announced /\ ~HasDetails(windows[id])
  BY <1>1 DEF Window, HasDetails
<1>3. emit_new_if_ready(id, w)
  BY DEF SetAppId
<1> HIDE DEF w
<1> QED
  BY <1>2, <1>3, DetailsStep DEF SetAppId

(* With no event left, the focus change is over.                              *)
LEMMA SettledOnceDispatched ==
    ASSUME FocusMoves, pending = <<>>
    PROVE  Settled
<1>1. \A x : <<x>> # <<>>
  OBVIOUS
<1>2. \A x, y : <<x, y>> # <<>>
  OBVIOUS
<1>3. ~Gaining /\ \A f : ~Losing(f) /\ ~Passing(f)
  BY <1>1, <1>2 DEF Gaining, Losing, Passing
<1> QED
  BY <1>3 DEF FocusMoves

(* The events of a focus change, put in a row and taken one by one.           *)
LEMMA OneEvent ==
    ASSUME NEW x
    PROVE  <<>> \o <<x>> = <<x>> /\ <<x>> \o <<>> = <<x>>
<1>1. \A S : x \in S => <<x>> \in Seq(S)
  OBVIOUS
<1>2. <<x>> \in Seq({x})
  BY <1>1
<1> QED
  BY <1>2, ConcatEmptySeq

LEMMA TwoEvents ==
    ASSUME NEW S, NEW x \in S, NEW y \in S
    PROVE  <<x>> \o <<y>> = <<x, y>>
<1> DEFINE z == <<x>> \o <<y>>
<1>1. <<x>> \in Seq(S) /\ <<y>> \in Seq(S) /\ Len(<<x>>) = 1 /\ Len(<<y>>) = 1
  OBVIOUS
<1>2. z \in Seq(S) /\ Len(z) = 2
  BY <1>1
<1>3. z[1] = x
  BY <1>1
<1>4. z[2] = y
  BY <1>1
<1> HIDE DEF z
<1>5. z = <<z[1], z[2]>>
  BY <1>2
<1> QED
  BY <1>3, <1>4, <1>5 DEF z

(* The focus moves: one or two events are on their way.                       *)
LEMMA FocusStep ==
    ASSUME TaskbarInv, NEW id \in DOMAIN windows \union {0}, FocusChanges(id)
    PROVE  TaskbarInv'
<1> USE DEF TaskbarInv, Hooks
<1>1. /\ UNCHANGED <<windows, next_window_id, outputs, managers, globals, opened, shell, bound,
                     monitors, pins>>
      /\ by_id' = by_id /\ drawer' = drawer
      /\ pending = <<>> /\ id # focus /\ focus' = id
  BY DEF FocusChanges, hooks, shell
<1>2. WindowsTyped' /\ Opened' /\ ProtocolsTyped' /\ TableTyped'
  BY <1>1, WindowsStay DEF ProtocolsTyped, TableTyped
<1>3. Announced'
  BY <1>1 DEF Announced, HasDetails
<1>4. ShellAgrees'
  BY <1>1, ShellStays
<1>5. Known'
  <2>1. ~AnyOrder /\ id # 0 => HasDetails(windows[id])
    BY DEF FocusChanges, MayReport
  <2> QED
    BY <1>1, <2>1 DEF Known, HasDetails
<1>6. FocusMoves'
  <2>1. focus \in DOMAIN windows \union {0} /\ Sees({focus} \ {0}, focus)
    BY <1>1, SettledOnceDispatched DEF FocusMoves, Settled
  <2>2. ASSUME NEW active, NEW shown, Sees(active, shown) PROVE Sees(active, shown)'
    BY <1>1, <2>2 DEF Sees, Underlines, Active, Underlined
  <2>3. Gain' = [id |-> id, activated |-> TRUE] /\ \A f : Loss(f)' = Loss(f)
    BY <1>1 DEF Gain, Loss
  <2>4. /\ focus = 0 => pending' = <<Gain'>>
        /\ focus # 0 /\ id = 0 => pending' = <<Loss(focus)>>
        /\ focus # 0 /\ id # 0 => pending' \in {<<Loss(focus), Gain'>>, <<Gain', Loss(focus)>>}
    <3> DEFINE g == [id |-> id, activated |-> TRUE]
               l == Loss(focus)
    <3>1. /\ focus = 0 => pending' \in {<<>> \o <<g>>, <<g>> \o <<>>}
          /\ focus # 0 /\ id = 0 => pending' \in {<<l>> \o <<>>, <<>> \o <<l>>}
          /\ focus # 0 /\ id # 0 => pending' \in {<<l>> \o <<g>>, <<g>> \o <<l>>}
      BY <1>1 DEF FocusChanges, Loss
    <3> HIDE DEF g, l
    <3>2. /\ <<>> \o <<g>> = <<g>> /\ <<g>> \o <<>> = <<g>>
          /\ <<>> \o <<l>> = <<l>> /\ <<l>> \o <<>> = <<l>>
      BY OneEvent
    <3>3. <<l>> \o <<g>> = <<l, g>> /\ <<g>> \o <<l>> = <<g, l>>
      <4>1. l \in {l, g} /\ g \in {l, g}
        OBVIOUS
      <4> QED
        BY <4>1, TwoEvents
    <3> QED
      BY <2>3, <3>1, <3>2, <3>3 DEF g, l
  <2>5. 0 \notin DOMAIN windows /\ windows' = windows
    BY <1>1, KnownIds
  <2>6. CASE focus = 0
    <3>1. Sees({}, 0)'
      <4>1. {focus} \ {0} = {}
        BY <2>6
      <4> QED
        BY <2>1, <2>2, <2>6, <4>1
    <3>2. Gaining'
      BY <1>1, <2>4, <2>6, <3>1 DEF Gaining
    <3> QED
      BY <1>1, <2>5, <3>2 DEF FocusMoves
  <2>7. CASE focus # 0
    <3>1. Sees({focus}, focus)
      <4>1. {focus} \ {0} = {focus}
        BY <2>7
      <4> QED
        BY <2>1, <4>1
    <3> DEFINE f == focus
    <3>2. f \in DOMAIN windows \ {id} /\ f # 0
      BY <1>1, <2>1, <2>7
    <3>3. \/ pending' = <<Loss(f)>> /\ id = 0
          \/ pending' \in {<<Loss(f), Gain'>>, <<Gain', Loss(f)>>} /\ id # 0
      BY <2>4, <2>7
    <3>4. Sees({f}, f)
      BY <3>1
    <3> SUFFICES ASSUME NEW l \in DOMAIN windows \ {id}, Sees({l}, l),
                        \/ pending' = <<Loss(l)>> /\ id = 0
                        \/ pending' \in {<<Loss(l), Gain'>>, <<Gain', Loss(l)>>} /\ id # 0
                 PROVE  FocusMoves'
      BY <3>2, <3>3, <3>4
    <3>5. Sees({l}, l)'
      BY <2>2
    <3>6. CASE id = 0
      <4>1. {l} \union ({0} \ {0}) = {l}
        OBVIOUS
      <4>2. Losing(l)'
        BY <1>1, <2>3, <3>5, <3>6, <4>1 DEF Losing
      <4> QED
        BY <1>1, <2>5, <3>6, <4>2 DEF FocusMoves
    <3>7. CASE id # 0
      <4>1. Passing(l)'
        BY <1>1, <2>3, <3>5, <3>7 DEF Passing
      <4> QED
        BY <1>1, <2>5, <4>1 DEF FocusMoves
    <3> QED BY <3>6, <3>7
  <2> QED BY <2>6, <2>7
<1> QED
  BY <1>2, <1>3, <1>4, <1>5, <1>6

(* A window enters an output, or leaves one.                                  *)
LEMMA EnterStep ==
    ASSUME TaskbarInv, NEW id \in DOMAIN windows, NEW o \in Outputs, OutputEnter(id, o)
    PROVE  TaskbarInv'
<1> DEFINE w == [windows[id] EXCEPT !.output = o]
<1> USE DEF TaskbarInv, Hooks
<1>1. /\ UNCHANGED <<next_window_id, outputs, managers, focus, pending, globals, opened, bound,
                     monitors, pins>>
      /\ windows' = [windows EXCEPT ![id] = w]
      /\ IF windows[id].announced THEN on_output(id, o, TRUE) ELSE UNCHANGED shell
  BY DEF OutputEnter
<1>2. /\ w \in Window /\ w.output = o /\ w.activated = windows[id].activated
      /\ w.announced = windows[id].announced /\ (HasDetails(w) <=> HasDetails(windows[id]))
  BY DEF WindowsTyped, Window, HasDetails
<1>3. ~AnyOrder => HasDetails(windows[id])
  BY DEF OutputEnter, MayReport
<1> HIDE DEF w
<1>4. /\ WindowsTyped' /\ Opened' /\ DOMAIN windows' = DOMAIN windows /\ windows'[id] = w
      /\ \A k \in DOMAIN windows \ {id} : windows'[k] = windows[k]
  BY <1>1, <1>2, OneWindowChanges
<1>5. ProtocolsTyped' /\ TableTyped'
  BY <1>1 DEF ProtocolsTyped, TableTyped
<1>6. /\ ShellAgrees' /\ DOMAIN by_id' = DOMAIN by_id /\ drawer' = drawer
      /\ \A k \in DOMAIN by_id : by_id'[k].activated = by_id[k].activated
      /\ \A k \in DOMAIN by_id \ {id} : by_id'[k] = by_id[k]
      /\ id \in DOMAIN by_id => by_id'[id].output = o
  <2>1. CASE windows[id].announced
    <3>1. id \in DOMAIN by_id /\ bound
      BY <2>1 DEF Announced, ShellAgrees, PanelsBuilt
    <3> QED
      BY <1>1, <2>1, <3>1, MovesOutput
  <2>2. CASE ~windows[id].announced
    <3>1. id \notin DOMAIN by_id
      BY <2>2 DEF Announced
    <3> QED
      BY <1>1, <2>2, <3>1, ShellStays DEF shell
  <2> QED BY <2>1, <2>2
<1>7. Announced'
  BY <1>2, <1>4, <1>6 DEF Announced, HasDetails
<1>8. Known'
  <2>1. ASSUME ~AnyOrder, NEW k \in DOMAIN windows'
        PROVE  /\ windows'[k].activated \/ windows'[k].output # NoOutput => HasDetails(windows'[k])
               /\ bound /\ HasDetails(windows'[k]) => windows'[k].announced
    BY <1>2, <1>3, <1>4, <2>1 DEF Known
  <2>2. ASSUME ~AnyOrder, NEW k \in DOMAIN by_id', windows'[k].output # NoOutput
        PROVE  by_id'[k].output = windows'[k].output
    BY <1>2, <1>4, <1>6, <2>2 DEF Known, Announced
  <2>3. ASSUME ~AnyOrder, focus # 0 PROVE HasDetails(windows'[focus])
    BY <1>2, <1>4, <2>3 DEF Known, FocusMoves
  <2> QED
    BY <1>1, <2>1, <2>2, <2>3 DEF Known, HasDetails
<1>9. FocusMoves'
  <2>1. Active' = Active /\ Underlined' = Underlined
    BY <1>2, <1>4, <1>6 DEF Active, Underlined
  <2> QED
    BY <1>1, <1>4, <1>6, <2>1, FocusStays
<1> QED
  BY <1>4, <1>5, <1>6, <1>7, <1>8, <1>9

LEMMA LeaveStep ==
    ASSUME TaskbarInv, NEW id \in DOMAIN windows, NEW o \in Outputs, OutputLeave(id, o)
    PROVE  TaskbarInv'
<1> USE DEF TaskbarInv, Hooks
<1>1. UNCHANGED <<next_window_id, outputs, managers, focus, pending, globals, opened, bound,
                  monitors, pins>>
  BY DEF OutputLeave
<1>2. ProtocolsTyped' /\ TableTyped'
  BY <1>1 DEF ProtocolsTyped, TableTyped
<1>3. CASE o \in outputs /\ windows[id].output = o
  <2> DEFINE w == [windows[id] EXCEPT !.output = NoOutput]
  <2>1. /\ windows' = [windows EXCEPT ![id] = w]
        /\ IF windows[id].announced THEN on_output(id, NoOutput, FALSE) ELSE UNCHANGED shell
    BY <1>3 DEF OutputLeave
  <2>2. /\ w \in Window /\ w.output = NoOutput /\ w.activated = windows[id].activated
        /\ w.announced = windows[id].announced /\ (HasDetails(w) <=> HasDetails(windows[id]))
    BY DEF WindowsTyped, Window, HasDetails
  <2> HIDE DEF w
  <2>3. /\ WindowsTyped' /\ Opened' /\ DOMAIN windows' = DOMAIN windows /\ windows'[id] = w
        /\ \A k \in DOMAIN windows \ {id} : windows'[k] = windows[k]
    BY <1>1, <2>1, <2>2, OneWindowChanges
  <2>4. /\ ShellAgrees' /\ DOMAIN by_id' = DOMAIN by_id /\ drawer' = drawer
        /\ \A k \in DOMAIN by_id : by_id'[k].activated = by_id[k].activated
        /\ \A k \in DOMAIN by_id \ {id} : by_id'[k] = by_id[k]
    <3>1. CASE windows[id].announced
      <4>1. id \in DOMAIN by_id /\ bound
        BY <3>1 DEF Announced, ShellAgrees, PanelsBuilt
      <4> QED
        BY <1>1, <2>1, <3>1, <4>1, MovesOutput
    <3>2. CASE ~windows[id].announced
      BY <1>1, <2>1, <3>2, ShellStays DEF shell
    <3> QED BY <3>1, <3>2
  <2>5. Announced'
    BY <2>2, <2>3, <2>4 DEF Announced, HasDetails
  <2>6. Known'
    <3>1. ASSUME ~AnyOrder, NEW k \in DOMAIN windows'
          PROVE  /\ windows'[k].activated \/ windows'[k].output # NoOutput => HasDetails(windows'[k])
                 /\ bound /\ HasDetails(windows'[k]) => windows'[k].announced
      BY <2>2, <2>3, <3>1 DEF Known
    <3>2. ASSUME ~AnyOrder, NEW k \in DOMAIN by_id', windows'[k].output # NoOutput
          PROVE  by_id'[k].output = windows'[k].output
      BY <2>2, <2>3, <2>4, <3>2 DEF Known, Announced
    <3>3. ASSUME ~AnyOrder, focus # 0 PROVE HasDetails(windows'[focus])
      BY <2>2, <2>3, <3>3 DEF Known, FocusMoves
    <3> QED
      BY <1>1, <3>1, <3>2, <3>3 DEF Known, HasDetails
  <2>7. FocusMoves'
    <3>1. Active' = Active /\ Underlined' = Underlined
      BY <2>2, <2>3, <2>4 DEF Active, Underlined
    <3> QED
      BY <1>1, <2>3, <2>4, <3>1, FocusStays
  <2> QED
    BY <1>2, <2>3, <2>4, <2>5, <2>6, <2>7
<1>4. CASE ~(o \in outputs /\ windows[id].output = o)
  <2>1. UNCHANGED <<windows, shell>>
    BY <1>4 DEF OutputLeave
  <2> QED
    BY <1>1, <1>2, <2>1, WindowsStay, ShellStays, Quiet DEF shell
<1> QED BY <1>3, <1>4

LEMMA EventsTaken ==
    ASSUME NEW x, NEW y
    PROVE  /\ Head(<<x>>) = x /\ Tail(<<x>>) = <<>>
           /\ Head(<<x, y>>) = x /\ Tail(<<x, y>>) = <<y>>
  OBVIOUS

(* An event of a focus change comes in: what wlhooks and the shell make of it.*)
LEMMA ActivatedEffect ==
    ASSUME TaskbarInv, set_activated, NEW i \in DOMAIN windows, NEW v \in BOOLEAN,
           Head(pending) = [id |-> i, activated |-> v], v => i = focus
    PROVE  /\ Hooks' /\ Announced' /\ ShellAgrees' /\ Known'
           /\ UNCHANGED <<focus, bound>> /\ pending' = Tail(pending)
           /\ DOMAIN windows' = DOMAIN windows
           /\ Active' = IF v THEN Active \union {i} ELSE Active \ {i}
           /\ bound /\ windows[i].announced /\ v # windows[i].activated =>
                 /\ v => Underlines(i)'
                 /\ ~v /\ Active \ {i} = {} => Underlines(0)'
                 /\ ~v /\ Active \ {i} # {} => \A x : Underlines(x) => Underlines(x)'
<1> DEFINE w == [windows[i] EXCEPT !.activated = v]
<1> USE DEF TaskbarInv, Hooks
<1>1. /\ UNCHANGED <<next_window_id, outputs, managers, focus, globals, opened, bound, monitors, pins>>
      /\ pending' = Tail(pending)
      /\ windows' = [windows EXCEPT ![i] = w]
  <2>1. Head(pending).id = i /\ Head(pending).activated = v
    OBVIOUS
  <2>2. windows' = [windows EXCEPT ![i].activated = v]
    BY <2>1 DEF set_activated
  <2>3. /\ UNCHANGED <<next_window_id, outputs, managers, focus, globals, opened, bound,
                       monitors, pins>>
        /\ pending' = Tail(pending)
    BY DEF set_activated
  <2> QED
    BY <2>2, <2>3
<1>2. \/ /\ v = windows[i].activated \/ ~windows[i].announced
         /\ UNCHANGED shell
      \/ /\ v # windows[i].activated /\ windows[i].announced
         /\ \/ v /\ on_focus(i)
            \/ ~v /\ Active \ {i} = {} /\ on_focus(0)
            \/ ~v /\ Active \ {i} # {} /\ UNCHANGED shell
  <2>1. {o \in DOMAIN windows \ {i} : windows[o].activated} = Active \ {i}
    BY DEF Active
  <2>2. Head(pending).id = i /\ Head(pending).activated = v
    OBVIOUS
  <2> QED
    BY <2>1, <2>2 DEF set_activated
<1>3. /\ w \in Window /\ w.activated = v /\ w.output = windows[i].output
      /\ w.announced = windows[i].announced /\ (HasDetails(w) <=> HasDetails(windows[i]))
  BY DEF WindowsTyped, Window, HasDetails
<1> HIDE DEF w
<1>4. /\ WindowsTyped' /\ Opened' /\ DOMAIN windows' = DOMAIN windows /\ windows'[i] = w
      /\ \A k \in DOMAIN windows \ {i} : windows'[k] = windows[k]
  BY <1>1, <1>3, OneWindowChanges
<1>5. ProtocolsTyped' /\ TableTyped'
  BY <1>1 DEF ProtocolsTyped, TableTyped
<1>6. i \in Ids /\ 0 \notin DOMAIN windows /\ DOMAIN by_id \subseteq DOMAIN windows
  BY KnownIds DEF Announced
<1>7. windows[i].announced => i \in DOMAIN by_id /\ bound
  BY DEF Announced, ShellAgrees, PanelsBuilt
<1>8. /\ ShellAgrees' /\ DOMAIN by_id' = DOMAIN by_id
      /\ \A k \in DOMAIN by_id : by_id'[k].output = by_id[k].output
      /\ bound /\ windows[i].announced /\ v # windows[i].activated =>
            /\ v => Underlines(i)'
            /\ ~v /\ Active \ {i} = {} => Underlines(0)'
            /\ ~v /\ Active \ {i} # {} => \A x : Underlines(x) => Underlines(x)'
  <2>1. ASSUME UNCHANGED shell
        PROVE  /\ ShellAgrees' /\ DOMAIN by_id' = DOMAIN by_id
               /\ \A k \in DOMAIN by_id : by_id'[k].output = by_id[k].output
               /\ \A x : Underlines(x) => Underlines(x)'
    BY <1>1, <2>1, ShellStays DEF shell, Underlines, Underlined
  <2>2. ASSUME NEW x \in Ids \union {0}, x # 0 => x \in DOMAIN by_id, bound, on_focus(x)
        PROVE  /\ ShellAgrees' /\ DOMAIN by_id' = DOMAIN by_id
               /\ \A k \in DOMAIN by_id : by_id'[k].output = by_id[k].output
               /\ Underlines(x)'
    <3>1. /\ ShellAgrees' /\ DOMAIN by_id' = DOMAIN by_id
          /\ \A k \in DOMAIN by_id : by_id'[k].activated = (k = x) /\ by_id'[k].output = by_id[k].output
          /\ drawer'.focused_id = x /\ drawer'.any_focused = (x \in DOMAIN by_id)
      BY <1>1, <2>2, Focuses
    <3>2. Underlined' = {k \in DOMAIN by_id : k = x}
      BY <3>1 DEF Underlined
    <3>3. Underlined' = {x} \ {0} /\ (x \in DOMAIN by_id <=> x # 0)
      BY <1>6, <2>2, <3>2
    <3> QED
      BY <3>1, <3>3 DEF Underlines
  <2>3. CASE (v = windows[i].activated \/ ~windows[i].announced) /\ UNCHANGED shell
    BY <2>1, <2>3
  <2>4. CASE v # windows[i].activated /\ windows[i].announced /\ v /\ on_focus(i)
    BY <1>6, <1>7, <2>2, <2>4
  <2>5. CASE v # windows[i].activated /\ windows[i].announced /\ ~v /\ Active \ {i} = {} /\ on_focus(0)
    BY <1>7, <2>2, <2>5
  <2>6. CASE ~v /\ Active \ {i} # {} /\ UNCHANGED shell
    BY <2>1, <2>6
  <2> QED
    BY <1>2, <2>3, <2>4, <2>5, <2>6
<1>9. Announced'
  BY <1>3, <1>4, <1>8 DEF Announced, HasDetails
<1>10. Known'
  <2>1. ASSUME ~AnyOrder, NEW k \in DOMAIN windows'
        PROVE  /\ windows'[k].activated \/ windows'[k].output # NoOutput => HasDetails(windows'[k])
               /\ bound /\ HasDetails(windows'[k]) => windows'[k].announced
    <3>1. CASE k = i
      <4>1. v => HasDetails(windows[i])
        BY <1>6, <2>1 DEF Known
      <4> QED
        BY <1>3, <1>4, <2>1, <3>1, <4>1 DEF Known
    <3>2. CASE k # i
      BY <1>4, <2>1, <3>2 DEF Known
    <3> QED BY <3>1, <3>2
  <2>2. ASSUME ~AnyOrder, NEW k \in DOMAIN by_id', windows'[k].output # NoOutput
        PROVE  by_id'[k].output = windows'[k].output
    BY <1>3, <1>4, <1>6, <1>8, <2>2 DEF Known
  <2>3. ASSUME ~AnyOrder, focus # 0 PROVE HasDetails(windows'[focus])
    BY <1>3, <1>4, <2>3 DEF Known, FocusMoves
  <2> QED
    BY <1>1, <2>1, <2>2, <2>3 DEF Known, HasDetails
<1>11. Active' = IF v THEN Active \union {i} ELSE Active \ {i}
  BY <1>3, <1>4 DEF Active
<1> QED
  BY <1>1, <1>4, <1>5, <1>8, <1>9, <1>10, <1>11

(* Each of the shapes of a focus change goes on to the next.                  *)
LEMMA ActivatedStep ==
    ASSUME TaskbarInv, set_activated
    PROVE  TaskbarInv'
<1> USE DEF TaskbarInv
<1>1. 0 \notin DOMAIN windows
  BY KnownIds DEF Hooks
<1>2. Gain' = Gain /\ \A f : Loss(f)' = Loss(f)
  BY DEF set_activated, Gain, Loss
<1>3. ASSUME ~AnyOrder, NEW i \in DOMAIN windows, i \in Active \/ i = focus
      PROVE  bound => windows[i].announced
  BY <1>1, <1>3 DEF Known, Active
<1>4. pending # <<>>
  BY DEF set_activated
<1>5. CASE Gaining
  <2>1. Head(pending) = Gain /\ Tail(pending) = <<>> /\ focus \in DOMAIN windows
    BY <1>5, EventsTaken DEF Gaining, FocusMoves
  <2>2. /\ Hooks' /\ Announced' /\ ShellAgrees' /\ Known'
        /\ UNCHANGED <<focus, bound>> /\ pending' = <<>>
        /\ DOMAIN windows' = DOMAIN windows /\ Active' = Active \union {focus}
        /\ bound /\ windows[focus].announced /\ ~windows[focus].activated => Underlines(focus)'
    BY <2>1, ActivatedEffect DEF Gain
  <2>3. Sees({focus}, focus)'
    <3>1. ASSUME ~AnyOrder PROVE Active' = {focus} /\ (bound => Underlines(focus)')
      <4>1. Active = {}
        BY <1>5, <3>1 DEF Gaining, Sees
      <4>2. ~windows[focus].activated
        BY <2>1, <4>1 DEF Active
      <4> QED
        BY <1>3, <2>1, <2>2, <3>1, <4>1, <4>2
    <3> QED
      BY <2>2, <3>1 DEF Sees, Underlines
  <2>4. Settled'
    <3>1. {focus'} \ {0} = {focus}
      BY <1>1, <2>1, <2>2
    <3> QED
      BY <2>2, <2>3, <3>1 DEF Settled
  <2> QED
    BY <2>1, <2>2, <2>4 DEF FocusMoves
<1>6. ASSUME NEW f \in DOMAIN windows \ {focus}, Losing(f)
      PROVE  TaskbarInv'
  <2>1. Head(pending) = Loss(f) /\ Tail(pending) = <<>>
    BY <1>6, EventsTaken DEF Losing
  <2>2. /\ Hooks' /\ Announced' /\ ShellAgrees' /\ Known'
        /\ UNCHANGED <<focus, bound>> /\ pending' = <<>>
        /\ DOMAIN windows' = DOMAIN windows /\ Active' = Active \ {f}
        /\ bound /\ windows[f].announced /\ windows[f].activated =>
              /\ Active \ {f} = {} => Underlines(0)'
              /\ Active \ {f} # {} => \A x : Underlines(x) => Underlines(x)'
    BY <2>1, ActivatedEffect DEF Loss
  <2>3. Sees({focus} \ {0}, focus)'
    <3>1. ASSUME ~AnyOrder PROVE Active' = {focus} \ {0} /\ (bound => Underlines(focus)')
      <4>1. Active = {f} \union ({focus} \ {0}) /\ (bound => Underlines(IF focus = 0 THEN f ELSE focus))
        BY <1>6, <3>1 DEF Losing, Sees
      <4>2. Active \ {f} = {focus} \ {0} /\ f \in Active
        BY <4>1
      <4>3. windows[f].activated
        BY <4>2 DEF Active
      <4>4. bound => windows[f].announced
        BY <1>3, <3>1, <4>2
      <4>5. CASE focus = 0
        BY <2>2, <4>2, <4>3, <4>4, <4>5
      <4>6. CASE focus # 0
        BY <2>2, <4>1, <4>2, <4>3, <4>4, <4>6
      <4> QED BY <4>5, <4>6
    <3> QED
      BY <2>2, <3>1 DEF Sees, Underlines
  <2>4. Settled'
    BY <2>2, <2>3 DEF Settled
  <2> QED
    BY <2>2, <2>4 DEF FocusMoves
<1>7. ASSUME NEW f \in DOMAIN windows \ {focus}, Passing(f)
      PROVE  TaskbarInv'
  <2>1. focus # 0 /\ focus \in DOMAIN windows
    BY <1>7 DEF Passing, FocusMoves
  <2>2. ASSUME ~AnyOrder
        PROVE  Active = {f} /\ windows[f].activated /\ ~windows[focus].activated
               /\ (bound => windows[f].announced /\ windows[focus].announced)
    <3>1. Active = {f}
      BY <1>7, <2>2 DEF Passing, Sees
    <3> QED
      BY <1>3, <2>1, <2>2, <3>1 DEF Active
  <2>3. CASE pending = <<Loss(f), Gain>>
    <3>1. Head(pending) = Loss(f) /\ Tail(pending) = <<Gain>>
      BY <2>3, EventsTaken
    <3>2. /\ Hooks' /\ Announced' /\ ShellAgrees' /\ Known'
          /\ UNCHANGED <<focus, bound>> /\ pending' = <<Gain>>
          /\ DOMAIN windows' = DOMAIN windows /\ Active' = Active \ {f}
          /\ bound /\ windows[f].announced /\ windows[f].activated =>
                (Active \ {f} = {} => Underlines(0)')
      BY <3>1, ActivatedEffect DEF Loss
    <3>3. Sees({}, 0)'
      <4>1. ASSUME ~AnyOrder PROVE Active' = {} /\ (bound => Underlines(0)')
        <5>1. Active \ {f} = {}
          BY <2>2, <4>1
        <5> QED
          BY <2>2, <3>2, <4>1, <5>1
      <4> QED
        BY <3>2, <4>1 DEF Sees, Underlines
    <3>4. Gaining'
      BY <1>2, <2>1, <3>2, <3>3 DEF Gaining
    <3> QED
      BY <2>1, <3>2, <3>4 DEF FocusMoves
  <2>4. CASE pending = <<Gain, Loss(f)>>
    <3>1. Head(pending) = Gain /\ Tail(pending) = <<Loss(f)>>
      BY <2>4, EventsTaken
    <3>2. /\ Hooks' /\ Announced' /\ ShellAgrees' /\ Known'
          /\ UNCHANGED <<focus, bound>> /\ pending' = <<Loss(f)>>
          /\ DOMAIN windows' = DOMAIN windows /\ Active' = Active \union {focus}
          /\ bound /\ windows[focus].announced /\ ~windows[focus].activated => Underlines(focus)'
      BY <2>1, <3>1, ActivatedEffect DEF Gain
    <3>3. Sees({f} \union {focus}, focus)'
      <4>1. ASSUME ~AnyOrder PROVE Active' = {f} \union {focus} /\ (bound => Underlines(focus)')
        BY <2>2, <3>2, <4>1
      <4> QED
        BY <3>2, <4>1 DEF Sees, Underlines
    <3>4. Losing(f)'
      <4>1. {f} \union ({focus'} \ {0}) = {f} \union {focus}
        BY <2>1, <3>2
      <4>2. (IF focus' = 0 THEN f ELSE focus') = focus
        BY <2>1, <3>2
      <4> QED
        BY <1>2, <3>2, <3>3, <4>1, <4>2 DEF Losing
    <3> QED
      BY <2>1, <3>2, <3>4 DEF FocusMoves
  <2> QED
    BY <1>7, <2>3, <2>4 DEF Passing
<1>8. ~Settled
  BY <1>4 DEF Settled
<1> QED
  BY <1>5, <1>6, <1>7, <1>8 DEF FocusMoves

(* A window closes, with or without the focus.                                *)
LEMMA ClosedStep ==
    ASSUME TaskbarInv, NEW id \in DOMAIN windows, on_closed(id)
    PROVE  TaskbarInv'
<1> USE DEF TaskbarInv, Hooks
<1>1. /\ UNCHANGED <<next_window_id, outputs, managers, pending, globals, bound, monitors, pins>>
      /\ pending = <<>> /\ focus' = (IF focus = id THEN 0 ELSE focus) /\ opened' = opened - 1
      /\ IF windows[id].announced THEN on_rm(id) ELSE UNCHANGED shell
  BY DEF on_closed
<1>2. /\ DOMAIN windows' = DOMAIN windows \ {id}
      /\ \A k \in DOMAIN windows' : windows'[k] = windows[k]
  BY DEF on_closed, Restrict
<1>3. id \in Ids /\ IsFiniteSet(DOMAIN windows) /\ 0 \notin DOMAIN windows
  BY KnownIds
<1>4. WindowsTyped'
  BY <1>1, <1>2 DEF WindowsTyped
<1>5. Opened'
  <2>1. Cardinality(DOMAIN windows') = Cardinality(DOMAIN windows) - 1
    BY <1>2, <1>3, FS_RemoveElement
  <2> QED
    BY <1>1, <2>1 DEF Opened
<1>6. ProtocolsTyped' /\ TableTyped'
  BY <1>1 DEF ProtocolsTyped, TableTyped
<1>7. /\ ShellAgrees'
      /\ DOMAIN by_id' = DOMAIN by_id \ {id}
      /\ \A k \in DOMAIN by_id' : by_id'[k] = by_id[k]
      /\ IF id \in DOMAIN by_id /\ id = drawer.focused_id THEN ~drawer'.any_focused
         ELSE drawer'.focused_id = drawer.focused_id /\ drawer'.any_focused = drawer.any_focused
  <2>1. CASE windows[id].announced
    <3>1. id \in DOMAIN by_id /\ bound
      BY <2>1 DEF Announced, ShellAgrees, PanelsBuilt
    <3> QED
      BY <1>1, <2>1, <3>1, Forgets
  <2>2. CASE ~windows[id].announced
    <3>1. id \notin DOMAIN by_id
      BY <2>2 DEF Announced
    <3> QED
      BY <1>1, <2>2, <3>1, ShellStays DEF shell
  <2> QED BY <2>1, <2>2
<1>8. Announced'
  BY <1>2, <1>7 DEF Announced, HasDetails
<1>9. Known'
  <2>1. ASSUME ~AnyOrder, NEW k \in DOMAIN windows'
        PROVE  /\ windows'[k].activated \/ windows'[k].output # NoOutput => HasDetails(windows'[k])
               /\ bound /\ HasDetails(windows'[k]) => windows'[k].announced
    BY <1>2, <2>1 DEF Known
  <2>2. ASSUME ~AnyOrder, NEW k \in DOMAIN by_id', windows'[k].output # NoOutput
        PROVE  by_id'[k].output = windows'[k].output
    BY <1>2, <1>7, <2>2 DEF Known, Announced
  <2>3. ASSUME ~AnyOrder, focus' # 0 PROVE HasDetails(windows'[focus'])
    BY <1>1, <1>2, <2>3 DEF Known, FocusMoves
  <2> QED
    BY <1>1, <2>1, <2>2, <2>3 DEF Known, HasDetails
<1>10. FocusMoves'
  <2>1. focus \in DOMAIN windows \union {0} /\ Sees({focus} \ {0}, focus)
    BY <1>1, SettledOnceDispatched DEF FocusMoves, Settled
  <2>2. Active' = Active \ {id} /\ Underlined' = Underlined \ {id}
    BY <1>2, <1>7 DEF Active, Underlined
  <2>3. ASSUME ~AnyOrder PROVE Active' = {focus'} \ {0} /\ (bound => Underlines(focus)')
    <3>1. Active = {focus} \ {0} /\ (bound => Underlines(focus))
      BY <2>1, <2>3 DEF Sees
    <3>2. CASE focus = id
      <4>1. focus' = 0 /\ id # 0
        BY <1>1, <1>3, <3>2
      <4>2. bound => id \in DOMAIN by_id /\ id = drawer.focused_id
        BY <2>3, <3>1, <3>2, <4>1 DEF Underlines, Underlined
      <4>3. Active' = {}
        BY <2>2, <3>1, <3>2
      <4>4. bound => Underlined' = {} /\ ~drawer'.any_focused
        BY <1>7, <2>2, <3>1, <3>2, <4>2 DEF Underlines
      <4>5. drawer'.any_focused \in BOOLEAN
        BY <1>7 DEF ShellAgrees, DrawerTyped
      <4> QED
        BY <1>1, <4>1, <4>3, <4>4, <4>5 DEF Underlines
    <3>3. CASE focus # id
      <4>1. focus' = focus
        BY <1>1, <3>3
      <4>2. Active' = {focus} \ {0} /\ (bound => Underlined' = {focus} \ {0})
        BY <2>2, <3>1, <3>3 DEF Underlines
      <4>3. bound => drawer'.any_focused = (focus # 0) /\ (focus # 0 => drawer'.focused_id = focus)
        <5>1. CASE focus # 0
          BY <1>7, <3>1, <3>3, <5>1 DEF Underlines
        <5>2. CASE focus = 0
          <6>1. bound => ~drawer.any_focused
            BY <3>1, <5>2 DEF Underlines
          <6>2. drawer'.any_focused \in BOOLEAN
            BY <1>7 DEF ShellAgrees, DrawerTyped
          <6>3. bound => ~drawer'.any_focused
            BY <1>7, <6>1
          <6> QED
            BY <5>2, <6>2, <6>3
        <5> QED BY <5>1, <5>2
      <4> QED
        BY <1>1, <4>1, <4>2, <4>3 DEF Underlines
    <3> QED BY <3>2, <3>3
  <2>4. Settled'
    BY <1>1, <2>3 DEF Settled, Sees
  <2>5. focus' \in DOMAIN windows' \union {0}
    BY <1>1, <1>2, <2>1
  <2> QED
    BY <2>4, <2>5 DEF FocusMoves
<1> QED
  BY <1>4, <1>5, <1>6, <1>7, <1>8, <1>9, <1>10

(* The shell registers, and is told all that wlhooks knows.                   *)
LEMMA BindStep ==
    ASSUME TaskbarInv, bind
    PROVE  TaskbarInv'
<1> DEFINE ready == {id \in DOMAIN windows : HasDetails(windows[id])}
           store == [id \in ready |-> [app_id    |-> windows[id].app_id,
                                       output    |-> windows[id].output,
                                       activated |-> windows[id].activated]]
           active == {id \in ready : windows[id].activated}
           v(id) == [windows[id] EXCEPT !.announced = id \in ready]
<1> USE DEF TaskbarInv, Hooks
<1>1. /\ UNCHANGED <<next_window_id, outputs, managers, on, focus, pending, globals, opened,
                     monitors, pins>>
      /\ ~bound /\ bound' = TRUE /\ pending = <<>>
      /\ windows' = [id \in DOMAIN windows |-> v(id)]
      /\ by_id' = store /\ bars' = build_windows(monitors, store)
      /\ drawer' = [live |-> ready, any_focused |-> active # {},
                    focused_id |-> IF active = {} THEN 0 ELSE CHOOSE id \in active : TRUE]
  BY DEF bind, toplevels
<1>2. ASSUME NEW id \in DOMAIN windows
      PROVE  /\ v(id) \in Window /\ (v(id).announced <=> id \in ready)
             /\ v(id).activated = windows[id].activated /\ v(id).output = windows[id].output
             /\ (HasDetails(v(id)) <=> HasDetails(windows[id]))
  <2> DEFINE r == id \in ready
  <2>1. r \in BOOLEAN /\ windows[id] \in Window /\ v(id) = [windows[id] EXCEPT !.announced = r]
    BY DEF WindowsTyped
  <2> HIDE DEF r, v
  <2>2. /\ v(id) \in Window /\ v(id).announced = r
        /\ v(id).activated = windows[id].activated /\ v(id).output = windows[id].output
        /\ v(id).app_id = windows[id].app_id /\ v(id).titled = windows[id].titled
    BY <2>1 DEF Window
  <2> QED
    BY <2>2 DEF r, HasDetails
<1>3. DOMAIN windows' = DOMAIN windows /\ \A id \in DOMAIN windows : windows'[id] = v(id)
  BY <1>1
<1>4. DOMAIN store = ready /\ Typed(store)
  BY DEF WindowsTyped, Window, Typed, Toplevel, HasDetails
<1>5. ready \subseteq Ids /\ 0 \notin ready
  BY KnownIds
<1> HIDE DEF v
<1>6. WindowsTyped' /\ Opened'
  BY <1>1, <1>2, <1>3 DEF WindowsTyped, Opened
<1>7. ProtocolsTyped' /\ TableTyped'
  BY <1>1 DEF ProtocolsTyped, TableTyped
<1>8. Announced'
  BY <1>1, <1>2, <1>3, <1>4 DEF Announced, HasDetails
<1>9. active \subseteq ready /\ (active # {} => (CHOOSE id \in active : TRUE) \in active)
  OBVIOUS
<1>10. ASSUME ~AnyOrder PROVE Active = {focus} \ {0} /\ active = {focus} \ {0}
  <2>1. Active = {focus} \ {0}
    BY <1>1, <1>10, SettledOnceDispatched DEF Settled, Sees
  <2>2. active = Active
    BY <1>10 DEF Known, Active
  <2> QED BY <2>1, <2>2
<1>11. Active' = Active
  BY <1>2, <1>3 DEF Active
<1>12. ASSUME ~AnyOrder PROVE Underlined' = {focus} \ {0}
  <2>1. Underlined' = active
    BY <1>1, <1>4 DEF Underlined
  <2> QED
    BY <1>10, <1>12, <2>1
<1>13. Known'
  <2>1. ASSUME ~AnyOrder, NEW k \in DOMAIN windows'
        PROVE  /\ windows'[k].activated \/ windows'[k].output # NoOutput => HasDetails(windows'[k])
               /\ HasDetails(windows'[k]) => windows'[k].announced
    BY <1>2, <1>3, <2>1 DEF Known
  <2>2. ASSUME NEW k \in DOMAIN by_id' PROVE by_id'[k].output = windows'[k].output
    BY <1>1, <1>2, <1>3, <1>4
  <2>3. ASSUME ~AnyOrder, focus # 0 PROVE HasDetails(windows'[focus])
    BY <1>2, <1>3, <2>3 DEF Known, FocusMoves
  <2> QED
    BY <1>1, <2>1, <2>2, <2>3 DEF Known, HasDetails
<1>14. DrawerTyped' /\ drawer'.live = ready
  <2> DEFINE any == active # {}
             chosen == IF active = {} THEN 0 ELSE CHOOSE id \in active : TRUE
  <2>1. any \in BOOLEAN /\ chosen \in Ids \union {0}
    BY <1>5, <1>9
  <2>2. drawer' = [live |-> ready, any_focused |-> any, focused_id |-> chosen]
    BY <1>1
  <2> HIDE DEF any, chosen, ready
  <2> QED
    BY <1>5, <2>1, <2>2 DEF DrawerTyped
<1>15. FocusMoves'
  <2>1. ASSUME ~AnyOrder PROVE Underlines(focus)'
    <3>1. active = {focus} \ {0}
      BY <1>10, <2>1
    <3> DEFINE chosen == IF active = {} THEN 0 ELSE CHOOSE id \in active : TRUE
    <3>2. drawer'.any_focused = (active # {}) /\ drawer'.focused_id = chosen
      BY <1>1
    <3>3. focus # 0 => chosen = focus
      BY <1>9, <3>1
    <3>4. (active # {}) = (focus # 0)
      BY <3>1
    <3> HIDE DEF chosen, active
    <3> QED
      BY <1>1, <1>12, <2>1, <3>2, <3>3, <3>4 DEF Underlines
  <2>2. Settled'
    BY <1>1, <1>10, <1>11, <2>1 DEF Settled, Sees
  <2> QED
    BY <1>1, <1>3, <2>2 DEF FocusMoves
<1>16. ShellAgrees'
  <2> HIDE DEF store, ready, active
  <2> DEFINE bs == build_windows(monitors, store)
  <2>1. DOMAIN bs = Panels(monitors) /\ \A p \in DOMAIN bs : Follows(monitors, p, bs[p], store)
    BY <1>4, <1>5, Rebuilt DEF TableTyped
  <2> HIDE DEF bs
  <2>2. bars' = bs /\ by_id' = store /\ monitors' = monitors /\ bound' = TRUE
    BY <1>1 DEF bs
  <2> QED
    BY <1>4, <1>5, <1>14, <2>1, <2>2 DEF ShellAgrees, Typed, BarsShow, PanelsBuilt
<1> QED
  BY <1>6, <1>7, <1>8, <1>13, <1>15, <1>16

(* The invariant is inductive.                                                *)
LEMMA TaskbarInvNext == TaskbarInv /\ [TaskbarNext]_taskbar_vars => TaskbarInv'
<1> SUFFICES ASSUME TaskbarInv, [TaskbarNext]_taskbar_vars PROVE TaskbarInv'
  OBVIOUS
<1>1. ASSUME NEW protocol \in globals, registry_global(protocol) PROVE TaskbarInv'
  BY <1>1, GlobalStep
<1>2. CASE on_toplevel
  BY <1>2, ToplevelStep
<1>3. ASSUME NEW id \in DOMAIN windows, WindowEvent(id) PROVE TaskbarInv'
  BY <1>3, TitleStep, AppIdStep, FocusStep, EnterStep, LeaveStep, ClosedStep DEF WindowEvent
<1>4. CASE FocusChanges(0)
  BY <1>4, FocusStep
<1>5. CASE set_activated
  BY <1>5, ActivatedStep
<1>6. CASE bind
  BY <1>6, BindStep
<1>7. ASSUME NEW o \in Outputs, output_handler(o) \/ MonitorAdded(o) \/ output_remove_handler(o)
      PROVE  TaskbarInv'
  BY <1>7, OutputStep, MonitorStep, OutputRemoveStep
<1>8. ASSUME NEW p \in DOMAIN bars, NEW a \in Apps, on_primary_click(p, a) \/ pin_toggled(p, a)
      PROVE  TaskbarInv'
  BY <1>8, ClickStep, PinStep
<1>9. CASE UNCHANGED taskbar_vars
  <2>1. WindowsTyped' /\ Opened' /\ ProtocolsTyped' /\ TableTyped'
    BY <1>9, WindowsStay
       DEF TaskbarInv, Hooks, taskbar_vars, hooks, toplevels, ProtocolsTyped, TableTyped
  <2>2. ShellAgrees'
    BY <1>9, ShellStays DEF TaskbarInv, taskbar_vars
  <2>3. Announced' /\ Known' /\ FocusMoves'
    BY <1>9, Quiet DEF taskbar_vars, hooks, shell, toplevels
  <2> QED
    BY <2>1, <2>2, <2>3 DEF TaskbarInv, Hooks
<1> QED
  BY <1>1, <1>2, <1>3, <1>4, <1>5, <1>6, <1>7, <1>8, <1>9 DEF TaskbarNext

LEMMA TaskbarInvHolds == TaskbarSpec => []TaskbarInv
  BY TaskbarInvInit, TaskbarInvNext, PTL DEF TaskbarSpec

(***************************************************************************)
(* What the taskbars and the drawer promise.                               *)
(***************************************************************************)

(* Whatever windows, outputs, panels and pins come and go, in any order, the  *)
(* next window of a click is one of the entry's.                              *)
THEOREM TaskbarTypesCorrect == TaskbarSpec => []TaskbarTypeOK
<1>1. TaskbarInv => TaskbarTypeOK
  <2> SUFFICES ASSUME TaskbarInv PROVE TaskbarTypeOK
    OBVIOUS
  <2> USE DEF TaskbarInv, Hooks
  <2>1. ASSUME NEW p \in DOMAIN bars, NEW a \in Apps
        PROVE  LET n == Len(bars[p].window_ids[a])
               IN  bars[p].cycle_idx[a] \in 0 .. n /\ (n > 0 => bars[p].cycle_idx[a] < n)
    <3> DEFINE n == Len(bars[p].window_ids[a])
               c == bars[p].cycle_idx[a]
    <3>1. WellKept(bars[p])
      BY DEF ShellAgrees, BarsShow, Follows
    <3>2. n \in Nat /\ c \in Nat /\ InCycle(n, c)
      BY <3>1 DEF WellKept, BarParts, Cycles
    <3> HIDE DEF n, c
    <3>3. c \in 0 .. n /\ (n > 0 => c < n)
      BY <3>2 DEF InCycle
    <3> QED
      BY <3>3 DEF n, c
  <2>2. /\ DOMAIN windows \subseteq 1 .. next_window_id - 1
        /\ \A id \in DOMAIN windows : windows[id] \in Window
    BY DEF WindowsTyped
  <2>3. outputs \subseteq Outputs /\ Cardinality(outputs) <= MAX_OUTPUTS
    BY DEF TableTyped
  <2>4. /\ \A id \in DOMAIN by_id : by_id[id] \in Toplevel
        /\ drawer \in [live : SUBSET Ids, focused_id : Ids \union {0}, any_focused : BOOLEAN]
        /\ bound => DOMAIN bars = Panels(monitors)
    BY DEF ShellAgrees, Typed, DrawerTyped, PanelsBuilt
  <2> QED
    BY <2>1, <2>2, <2>3, <2>4 DEF TaskbarTypeOK
<1> QED
  BY <1>1, TaskbarInvHolds, PTL

(* The same without a word on the order of the compositor's events: the shell *)
(* has the windows that were announced, and every taskbar shows those of them *)
(* that belong on it.                                                         *)
THEOREM BarsShowStore == TaskbarSpec => [](Announced /\ BarsShow)
<1>1. TaskbarInv => Announced /\ BarsShow
  BY DEF TaskbarInv, ShellAgrees
<1> QED
  BY <1>1, TaskbarInvHolds, PTL

(* Every taskbar shows exactly the announced windows that belong on it, each  *)
(* once and under its own app, and keeps an entry as long as it is pinned or  *)
(* has windows, for any number of windows, apps, outputs and panels -- if the *)
(* compositor names a window before it reports its focus or its outputs.      *)
THEOREM TaskbarsCorrect == ASSUME ~AnyOrder PROVE TaskbarSpec => []TaskbarsFollowStore
<1>1. TaskbarInv => TaskbarsFollowStore
  <2> SUFFICES ASSUME TaskbarInv PROVE TaskbarsFollowStore
    OBVIOUS
  <2> USE DEF TaskbarInv, Hooks
  <2>1. Cardinality(DOMAIN windows) = opened
    BY DEF Opened
  <2>2. \A id \in DOMAIN by_id : windows[id].output # NoOutput => by_id[id].output = windows[id].output
    BY DEF Known
  <2>3. DOMAIN by_id = {id \in DOMAIN windows : windows[id].announced} /\ drawer.live = DOMAIN by_id
    BY DEF Announced, ShellAgrees
  <2>4. ASSUME NEW p \in DOMAIN bars
        PROVE  LET b == bars[p] IN
                 /\ \A a \in Apps :
                       /\ ToSet(b.window_ids[a]) = {id \in DOMAIN by_id :
                              by_id[id].app_id = a /\ accepts(monitors, p, by_id[id])}
                       /\ IsInjective(b.window_ids[a])
                 /\ b.entries = b.pinned \union {a \in Apps : b.window_ids[a] # <<>>}
    BY DEF ShellAgrees, BarsShow, Follows, Shows, WellKept, EachOnce, EntriesStay
  <2> QED
    BY <2>1, <2>2, <2>3, <2>4 DEF TaskbarsFollowStore
<1> QED
  BY <1>1, TaskbarInvHolds, PTL

(* In whichever order the two events of a focus change come, before or after  *)
(* the shell registered, and when the focused window closes: once they are    *)
(* in, the panel and the drawer say what the compositor says.                 *)
THEOREM FocusCorrect == ASSUME ~AnyOrder PROVE TaskbarSpec => []FocusAgrees
<1>1. TaskbarInv => FocusAgrees
  <2> SUFFICES ASSUME TaskbarInv, bound, pending = <<>>
               PROVE  /\ {id \in DOMAIN by_id : by_id[id].activated} = {focus} \ {0}
                      /\ drawer.any_focused = (focus # 0)
                      /\ focus # 0 => drawer.focused_id = focus
    BY DEF FocusAgrees
  <2>1. Underlines(focus)
    BY SettledOnceDispatched DEF TaskbarInv, Settled, Sees
  <2> QED
    BY <2>1 DEF Underlines, Underlined
<1> QED
  BY <1>1, TaskbarInvHolds, PTL
==============================================================================
