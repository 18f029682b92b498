------------------------ MODULE SessionRestoreProofs ------------------------
(***************************************************************************)
(* The invariants of SessionRestore for any monitors, any size of the head *)
(* table and any number of events in flight.                               *)
(***************************************************************************)
EXTENDS SessionRestore, FiniteSetTheorems, TLAPS

------------------------------------------------------------------------------
(* The events and the table                                                 *)

(* A burst in some order is a sequence of exactly its monitors. *)
LEMMA Bursts ==
    ASSUME NEW S \in Sets, NEW came \in SetToSeqs(S)
    PROVE  came \in Seq(Monitor) /\ ToSet(came) = S
<1> DEFINE D == 1 .. Cardinality(S)
<1>1. IsFiniteSet(S)
  BY FS_Subset, SessionMonitorAssumption DEF Sets
<1>2. Cardinality(S) \in Nat
  BY <1>1, FS_CardinalityType
<1>3. came \in [D -> S] /\ \A i, j \in D : i # j => came[i] # came[j]
  BY DEF SetToSeqs
<1>4. came \in Injection(D, S)
  BY <1>3 DEF Injection, IsInjective
<1>5. Cardinality(D) = Cardinality(S)
  BY <1>2, FS_Interval
<1>6. came \in Surjection(D, S)
  BY <1>1, <1>4, <1>5, FS_Injection
<1>7. came \in Seq(S) /\ DOMAIN came = D
  BY <1>2, <1>3
<1>8. came \in Seq(Monitor)
  BY <1>7 DEF Sets
<1>9. ToSet(came) = S
  BY <1>6, <1>7 DEF ToSet, Surjection
<1> QED BY <1>8, <1>9

(* A sequence holds no more monitors than places. *)
LEMMA NoMoreThanPlaces ==
    ASSUME NEW s \in Seq(Monitor)
    PROVE  /\ ToSet(s) \in Sets /\ IsFiniteSet(ToSet(s))
           /\ Cardinality(ToSet(s)) \in Nat /\ Cardinality(ToSet(s)) <= Len(s)
<1> DEFINE D == 1 .. Len(s)
<1>1. Len(s) \in Nat /\ DOMAIN s = D /\ s \in [D -> Monitor]
  OBVIOUS
<1>2. ToSet(s) \in Sets
  BY <1>1 DEF ToSet, Sets
<1>3. s \in Surjection(D, ToSet(s))
  BY <1>1 DEF Surjection, ToSet
<1>4. IsFiniteSet(D) /\ Cardinality(D) = Len(s)
  BY <1>1, FS_Interval
<1>5. IsFiniteSet(ToSet(s)) /\ Cardinality(ToSet(s)) <= Len(s)
  BY <1>3, <1>4, FS_Surjection
<1> QED BY <1>2, <1>5, FS_CardinalityType

(* The heads that still find a slot are at most the free slots, and all of the *)
(* burst while a slot stays free.                                              *)
LEMMA FittingIn ==
    ASSUME NEW came \in Seq(Monitor), NEW room \in Nat
    PROVE  /\ Fitting(came, room) \in Seq(Monitor)
           /\ Len(Fitting(came, room)) \in Nat /\ Len(Fitting(came, room)) <= room
           /\ Len(Fitting(came, room)) < room => Fitting(came, room) = came
<1> DEFINE n == IF room < Len(came) THEN room ELSE Len(came)
<1>1. Len(came) \in Nat
  OBVIOUS
<1>2. n \in 0 .. Len(came) /\ n <= room /\ (n < room => n = Len(came))
  BY <1>1
<1> HIDE DEF n
<1>3. SubSeq(came, 1, n) \in Seq(Monitor) /\ Len(SubSeq(came, 1, n)) = n
  BY <1>1, <1>2
<1>4. SubSeq(came, 1, Len(came)) = came
  OBVIOUS
<1>5. Fitting(came, room) = SubSeq(came, 1, n)
  BY DEF Fitting, n
<1>6. n < room => SubSeq(came, 1, n) = came
  BY <1>2, <1>4
<1> QED BY <1>2, <1>3, <1>5, <1>6

(* What one event makes of the table: it stays in its bounds, and while a slot *)
(* stays free every head that is announced is taken up.                        *)
LEMMA HandleBounds ==
    ASSUME NEW st, st.heads \in Sets, st.slots \in 0 .. OM_MAX_HEADS,
           Cardinality(st.heads) <= st.slots, st.queued \in BOOLEAN, NEW e \in Event
    PROVE  /\ Handle(st, e).heads \in Sets /\ Handle(st, e).slots \in 0 .. OM_MAX_HEADS
           /\ Cardinality(Handle(st, e).heads) <= Handle(st, e).slots
           /\ Handle(st, e).queued \in BOOLEAN
           /\ Handle(st, e).slots < OM_MAX_HEADS
                => st.slots < OM_MAX_HEADS
                   /\ Handle(st, e).heads = (st.heads \ e.gone) \cup ToSet(e.came)
<1> DEFINE room == OM_MAX_HEADS - st.slots
           fits == Fitting(e.came, room)
           now == (st.heads \ e.gone) \cup ToSet(fits)
<1>0. OM_MAX_HEADS \in Nat
  BY SessionMonitorAssumption
<1>1. room \in Nat /\ e.came \in Seq(Monitor)
  BY <1>0 DEF Event
<1>2. /\ fits \in Seq(Monitor) /\ Len(fits) \in Nat /\ Len(fits) <= room
      /\ Len(fits) < room => fits = e.came
  BY <1>1, FittingIn
<1>3. /\ Handle(st, e).heads = now /\ Handle(st, e).slots = st.slots + Len(fits)
      /\ Handle(st, e).queued = (st.queued \/ now # st.heads)
  BY DEF Handle
<1>4. /\ ToSet(fits) \in Sets /\ IsFiniteSet(ToSet(fits))
      /\ Cardinality(ToSet(fits)) \in Nat /\ Cardinality(ToSet(fits)) <= Len(fits)
  BY <1>2, NoMoreThanPlaces
<1> HIDE DEF fits
<1>5. IsFiniteSet(st.heads)
  BY FS_Subset, SessionMonitorAssumption DEF Sets
<1>6. /\ IsFiniteSet(st.heads \ e.gone) /\ Cardinality(st.heads) \in Nat
      /\ Cardinality(st.heads \ e.gone) \in Nat
      /\ Cardinality(st.heads \ e.gone) <= Cardinality(st.heads)
  BY <1>5, FS_Subset, FS_CardinalityType
<1>7. Cardinality(now) <= Cardinality(st.heads \ e.gone) + Cardinality(ToSet(fits))
  <2>1. IsFiniteSet((st.heads \ e.gone) \cap ToSet(fits))
    BY <1>6, FS_Subset
  <2>2. Cardinality((st.heads \ e.gone) \cap ToSet(fits)) \in Nat
    BY <2>1, FS_CardinalityType
  <2>3. Cardinality(now) = Cardinality(st.heads \ e.gone) + Cardinality(ToSet(fits))
                             - Cardinality((st.heads \ e.gone) \cap ToSet(fits))
    BY <1>4, <1>6, FS_Union
  <2> HIDE DEF now
  <2> QED BY <2>2, <2>3, <1>4, <1>6
<1>8. now \in Sets
  BY <1>4 DEF Sets
<1>9. IsFiniteSet(now)
  BY <1>4, <1>6, FS_Union
<1>10. Cardinality(now) \in Nat
  BY <1>9, FS_CardinalityType
<1>11. Cardinality(now) <= st.slots + Len(fits)
  <2> HIDE DEF now
  <2> QED BY <1>2, <1>4, <1>6, <1>7, <1>10
<1>12. st.slots + Len(fits) \in 0 .. OM_MAX_HEADS
  BY <1>0, <1>2
<1>13. st.slots + Len(fits) < OM_MAX_HEADS => st.slots < OM_MAX_HEADS /\ fits = e.came
  BY <1>0, <1>2
<1> HIDE DEF room
<1>14. st.slots + Len(fits) < OM_MAX_HEADS => now = (st.heads \ e.gone) \cup ToSet(e.came)
  BY <1>13
<1>15. (st.queued \/ now # st.heads) \in BOOLEAN
  OBVIOUS
<1> HIDE DEF now
<1>16. Handle(st, e).queued \in BOOLEAN
  BY <1>3, <1>15
<1>17. Cardinality(Handle(st, e).heads) <= Handle(st, e).slots
  BY <1>3, <1>11
<1> QED BY <1>3, <1>8, <1>12, <1>13, <1>14, <1>16, <1>17

------------------------------------------------------------------------------
(* The wire                                                                 *)

Mentions(e, m) == m \in e.gone \/ m \in ToSet(e.came)

(* While a slot is left, each monitor's last word on the wire is the truth, and *)
(* the table is where nothing on the wire speaks of it.                         *)
Follows(w, m) ==
    /\ (\A i \in DOMAIN w : ~Mentions(w[i], m)) => (m \in heads <=> m \in plugged)
    /\ \A i \in DOMAIN w :
          Mentions(w[i], m) /\ (\A j \in DOMAIN w : j > i => ~Mentions(w[j], m))
          => (m \in ToSet(w[i].came) <=> m \in plugged)

TableFollows == slots < OM_MAX_HEADS => \A m \in Monitor : Follows(wire, m)

(* Only bursts speak of monitors. *)
OthersSilent ==
    \A i \in DOMAIN wire : wire[i].kind # "done" => wire[i].gone = {} /\ wire[i].came = <<>>

IInv == TypeOK /\ OthersSilent /\ TableFollows

(* The last words stay the truth when an event is sent that names what changes *)
LEMMA Appended ==
    ASSUME wire \in Seq(Event), NEW e \in Event, NEW m, Follows(wire, m),
           wire' = Append(wire, e), heads' = heads,
           Mentions(e, m) => (m \in ToSet(e.came) <=> m \in plugged'),
           ~Mentions(e, m) => (m \in plugged' <=> m \in plugged)
    PROVE  Follows(wire, m)'
<1> DEFINE n == Len(wire)
<1>1. /\ n \in Nat /\ DOMAIN wire = 1 .. n /\ DOMAIN wire' = 1 .. (n + 1)
      /\ \A i \in 1 .. n : wire'[i] = wire[i]
      /\ wire'[n + 1] = e
  OBVIOUS
<1> HIDE DEF n
<1>2. ASSUME \A i \in DOMAIN wire' : ~Mentions(wire'[i], m)
      PROVE  m \in heads' <=> m \in plugged'
  <2>1. n + 1 \in DOMAIN wire' /\ DOMAIN wire \subseteq DOMAIN wire'
    BY <1>1
  <2>2. ~Mentions(e, m)
    BY <1>1, <1>2, <2>1
  <2>3. \A i \in DOMAIN wire : ~Mentions(wire[i], m)
    BY <1>1, <1>2, <2>1
  <2> QED BY <2>2, <2>3 DEF Follows
<1>3. ASSUME NEW i \in DOMAIN wire', Mentions(wire'[i], m),
             \A j \in DOMAIN wire' : j > i => ~Mentions(wire'[j], m)
      PROVE  m \in ToSet(wire'[i].came) <=> m \in plugged'
  <2>1. CASE i = n + 1
    BY <1>1, <1>3, <2>1
  <2>2. CASE i \in 1 .. n
    <3>1. n + 1 \in DOMAIN wire' /\ n + 1 > i
      BY <1>1, <2>2
    <3>2. ~Mentions(e, m)
      BY <1>1, <1>3, <3>1
    <3>3. \A j \in DOMAIN wire : j > i => ~Mentions(wire[j], m)
      <4> SUFFICES ASSUME NEW j \in DOMAIN wire, j > i PROVE ~Mentions(wire[j], m)
        OBVIOUS
      <4>1. j \in DOMAIN wire' /\ wire'[j] = wire[j]
        BY <1>1
      <4> QED BY <1>3, <4>1
    <3>4. i \in DOMAIN wire /\ wire'[i] = wire[i]
      BY <1>1, <2>2
    <3> QED BY <1>3, <3>2, <3>3, <3>4 DEF Follows
  <2> QED BY <1>1, <2>1, <2>2
<1> QED BY <1>2, <1>3 DEF Follows

(* ... and one whose first event is read, that the table takes up. *)
LEMMA Taken ==
    ASSUME wire \in Seq(Event), wire # <<>>, NEW m, Follows(wire, m),
           wire' = Tail(wire), plugged' = plugged,
           heads' = (heads \ Head(wire).gone) \cup ToSet(Head(wire).came)
    PROVE  Follows(wire, m)'
<1> DEFINE n == Len(wire)
<1>1. /\ n \in Nat /\ n > 0 /\ DOMAIN wire = 1 .. n /\ DOMAIN wire' = 1 .. (n - 1)
      /\ \A i \in 1 .. (n - 1) : wire'[i] = wire[i + 1]
      /\ Head(wire) = wire[1]
  OBVIOUS
<1> HIDE DEF n
<1>2. ASSUME NEW i \in DOMAIN wire', \A j \in DOMAIN wire' : j > i => ~Mentions(wire'[j], m)
      PROVE  \A j \in DOMAIN wire : j > i + 1 => ~Mentions(wire[j], m)
  <2> SUFFICES ASSUME NEW j \in DOMAIN wire, j > i + 1 PROVE ~Mentions(wire[j], m)
    OBVIOUS
  <2>1. j - 1 \in DOMAIN wire' /\ j - 1 > i /\ wire'[j - 1] = wire[(j - 1) + 1]
    BY <1>1
  <2>2. (j - 1) + 1 = j
    BY <1>1
  <2> QED BY <1>2, <2>1, <2>2
<1>3. ASSUME \A i \in DOMAIN wire' : ~Mentions(wire'[i], m)
      PROVE  m \in heads' <=> m \in plugged'
  <2>1. \A j \in DOMAIN wire : j > 1 => ~Mentions(wire[j], m)
    <3> SUFFICES ASSUME NEW j \in DOMAIN wire, j > 1 PROVE ~Mentions(wire[j], m)
      OBVIOUS
    <3>1. j - 1 \in DOMAIN wire' /\ wire'[j - 1] = wire[(j - 1) + 1]
      BY <1>1
    <3>2. (j - 1) + 1 = j
      BY <1>1
    <3> QED BY <1>3, <3>1, <3>2
  <2>2. CASE Mentions(wire[1], m)
    <3>1. 1 \in DOMAIN wire
      BY <1>1
    <3>2. m \in ToSet(wire[1].came) <=> m \in plugged
      BY <2>1, <2>2, <3>1 DEF Follows
    <3> QED BY <1>1, <2>2, <3>2 DEF Mentions
  <2>3. CASE ~Mentions(wire[1], m)
    <3>1. \A i \in DOMAIN wire : ~Mentions(wire[i], m)
      <4> SUFFICES ASSUME NEW i \in DOMAIN wire PROVE ~Mentions(wire[i], m)
        OBVIOUS
      <4>1. i = 1 \/ i > 1
        BY <1>1
      <4> QED BY <2>1, <2>3, <4>1
    <3>2. m \in heads <=> m \in plugged
      BY <3>1 DEF Follows
    <3> QED BY <1>1, <2>3, <3>2 DEF Mentions
  <2> QED BY <2>2, <2>3
<1>4. ASSUME NEW i \in DOMAIN wire', Mentions(wire'[i], m),
             \A j \in DOMAIN wire' : j > i => ~Mentions(wire'[j], m)
      PROVE  m \in ToSet(wire'[i].came) <=> m \in plugged'
  <2>1. i + 1 \in DOMAIN wire /\ wire'[i] = wire[i + 1]
    BY <1>1
  <2>2. \A j \in DOMAIN wire : j > i + 1 => ~Mentions(wire[j], m)
    BY <1>2, <1>4
  <2> QED BY <1>4, <2>1, <2>2 DEF Follows
<1> QED BY <1>3, <1>4 DEF Follows

------------------------------------------------------------------------------
(* The invariant: the initial states, one step, the theorems                *)

(* main() has read the first burst: table and monitors agree, the wire is empty. *)
LEMMA Initially == Init => IInv
<1> SUFFICES ASSUME Init PROVE IInv
  OBVIOUS
<1>1. IsFiniteSet(plugged) /\ Cardinality(plugged) \in Nat
      /\ Cardinality(plugged) <= Cardinality(Monitor)
  BY FS_Subset, FS_CardinalityType, SessionMonitorAssumption DEF Init, Sets
<1>2. Cardinality(Monitor) \in Nat /\ OM_MAX_HEADS \in Nat /\ OM_MAX_HEADS >= Cardinality(Monitor)
  BY FS_CardinalityType, SessionMonitorAssumption
<1>3. slots = Cardinality(plugged) /\ heads = plugged
  BY DEF Init
<1>4. slots \in 0 .. OM_MAX_HEADS /\ Cardinality(heads) <= slots
  BY <1>1, <1>2, <1>3
<1>5. wire = <<>> /\ wire \in Seq(Event) /\ DOMAIN wire = {}
  BY DEF Init
<1>6. TypeOK
  BY <1>4, <1>5 DEF Init, TypeOK, Sets
<1>7. OthersSilent /\ TableFollows
  BY <1>3, <1>5 DEF OthersSilent, TableFollows, Follows
<1> QED BY <1>6, <1>7 DEF IInv

(* A step that sends one event which names exactly what changes. *)
LEMMA Sends ==
    ASSUME IInv, NEW e \in Event, wire' = Append(wire, e), UNCHANGED client,
           e.kind # "done" => (e.gone = {} /\ e.came = <<>>),
           e.gone = plugged \ plugged', ToSet(e.came) = plugged' \ plugged
    PROVE  wire' \in Seq(Event) /\ OthersSilent' /\ TableFollows'
<1>1. wire \in Seq(Event) /\ heads' = heads /\ slots' = slots
  BY DEF IInv, TypeOK, client
<1>2. \A m : /\ Mentions(e, m) => (m \in ToSet(e.came) <=> m \in plugged')
             /\ ~Mentions(e, m) => (m \in plugged' <=> m \in plugged)
  BY DEF Mentions
<1>3. ASSUME NEW m, Follows(wire, m) PROVE Follows(wire, m)'
  <2>1. /\ Mentions(e, m) => (m \in ToSet(e.came) <=> m \in plugged')
        /\ ~Mentions(e, m) => (m \in plugged' <=> m \in plugged)
    BY <1>2
  <2> QED BY <1>1, <1>3, <2>1, Appended
<1>4. TableFollows'
  BY <1>1, <1>3 DEF IInv, TableFollows
<1>5. OthersSilent'
  <2> SUFFICES ASSUME NEW i \in DOMAIN wire', wire'[i].kind # "done"
               PROVE  wire'[i].gone = {} /\ wire'[i].came = <<>>
    BY DEF OthersSilent
  <2>1. /\ Len(wire) \in Nat /\ DOMAIN wire = 1 .. Len(wire)
        /\ DOMAIN wire' = 1 .. (Len(wire) + 1) /\ wire'[Len(wire) + 1] = e
        /\ \A k \in DOMAIN wire : wire'[k] = wire[k]
    BY <1>1
  <2>2. i = Len(wire) + 1 \/ i \in DOMAIN wire
    BY <2>1
  <2> QED BY <2>1, <2>2 DEF IInv, OthersSilent
<1> QED BY <1>1, <1>4, <1>5

(* A step that reads the first event and takes it up while slots are left. *)
LEMMA Receives ==
    ASSUME IInv, wire # <<>>, wire' = Tail(wire), plugged' = plugged,
           slots' < OM_MAX_HEADS =>
             ( /\ slots < OM_MAX_HEADS
               /\ heads' = (heads \ Head(wire).gone) \cup ToSet(Head(wire).came) )
    PROVE  wire' \in Seq(Event) /\ OthersSilent' /\ TableFollows'
<1>1. wire \in Seq(Event)
  BY DEF IInv, TypeOK
<1>2. ASSUME slots' < OM_MAX_HEADS, NEW m, Follows(wire, m) PROVE Follows(wire, m)'
  BY <1>1, <1>2, Taken
<1>3. TableFollows'
  BY <1>2 DEF IInv, TableFollows
<1>4. OthersSilent'
  <2> SUFFICES ASSUME NEW i \in DOMAIN wire', wire'[i].kind # "done"
               PROVE  wire'[i].gone = {} /\ wire'[i].came = <<>>
    BY DEF OthersSilent
  <2>1. i + 1 \in DOMAIN wire /\ wire'[i] = wire[i + 1]
    BY <1>1
  <2> QED BY <2>1 DEF IInv, OthersSilent
<1> QED BY <1>1, <1>3, <1>4

(* Events that name nobody change nothing. *)
LEMMA SendsSilent ==
    ASSUME IInv, NEW s \in Seq(Event), wire' = wire \o s,
           \A i \in DOMAIN s : s[i].gone = {} /\ s[i].came = <<>>,
           plugged' = plugged, UNCHANGED client
    PROVE  wire' \in Seq(Event) /\ OthersSilent' /\ TableFollows'
<1>1. wire \in Seq(Event)
  BY DEF IInv, TypeOK
<1> DEFINE n == Len(wire)
           k == Len(s)
<1>2. /\ n \in Nat /\ k \in Nat /\ wire' \in Seq(Event) /\ Len(wire') = n + k
      /\ DOMAIN wire = 1 .. n /\ DOMAIN wire' = 1 .. (n + k)
      /\ \A i \in 1 .. n : wire'[i] = wire[i]
      /\ \A i \in (n + 1) .. (n + k) : i - n \in DOMAIN s /\ wire'[i] = s[i - n]
  BY <1>1
<1>3. \A i \in (n + 1) .. (n + k) : wire'[i].gone = {} /\ wire'[i].came = <<>>
  BY <1>2
<1> HIDE DEF n, k
<1>4. /\ heads' = heads /\ slots' = slots
      /\ DOMAIN wire \subseteq DOMAIN wire' /\ \A i \in DOMAIN wire : wire'[i] = wire[i]
  BY <1>2 DEF client
<1>5. \A i \in DOMAIN wire' : i \in DOMAIN wire \/ i \in (n + 1) .. (n + k)
  BY <1>2
<1>6. OthersSilent'
  BY <1>4, <1>5, <1>3 DEF IInv, OthersSilent
<1>7. ASSUME NEW i \in (n + 1) .. (n + k), NEW m PROVE ~Mentions(wire'[i], m)
  <2>1. wire'[i].gone = {} /\ wire'[i].came = <<>>
    BY <1>3
  <2>2. ToSet(<<>>) = {}
    BY DEF ToSet
  <2> QED BY <2>1, <2>2 DEF Mentions
<1>8. ASSUME NEW m \in Monitor, Follows(wire, m) PROVE Follows(wire, m)'
  <2>1. ASSUME \A i \in DOMAIN wire' : ~Mentions(wire'[i], m)
        PROVE  m \in heads' <=> m \in plugged'
    <3>1. \A i \in DOMAIN wire : ~Mentions(wire[i], m)
      BY <1>4, <2>1
    <3> QED BY <1>4, <1>8, <3>1 DEF Follows
  <2>2. ASSUME NEW i \in DOMAIN wire', Mentions(wire'[i], m),
               \A j \in DOMAIN wire' : j > i => ~Mentions(wire'[j], m)
        PROVE  m \in ToSet(wire'[i].came) <=> m \in plugged'
    <3>1. i \in DOMAIN wire
      BY <1>5, <1>7, <2>2
    <3>2. wire'[i] = wire[i]
      BY <1>4, <3>1
    <3>3. \A j \in DOMAIN wire : j > i => ~Mentions(wire[j], m)
      BY <1>4, <2>2
    <3> QED BY <1>8, <2>2, <3>1, <3>2, <3>3 DEF Follows
  <2> QED BY <2>1, <2>2 DEF Follows
<1> QED BY <1>2, <1>4, <1>6, <1>8 DEF IInv, TableFollows

(* Every step keeps the invariant: what the compositor sends is what it did, *)
(* and what the client reads it takes up.                                    *)
LEMMA OneStep ==
    ASSUME IInv, [Next]_vars
    PROVE  IInv'
<1> USE DEF IInv
<1>1. ASSUME NEW live \in Sets, NEW came \in SetToSeqs(live \ plugged), Hotplug(live, came)
      PROVE  IInv'
  <2> DEFINE e == Done(plugged \ live, came)
  <2>1. live \ plugged \in Sets /\ plugged \ live \in Sets
    BY DEF TypeOK, Sets
  <2>2. came \in Seq(Monitor) /\ ToSet(came) = live \ plugged
    BY <2>1, Bursts
  <2>3. e \in Event /\ e.kind = "done" /\ e.gone = plugged \ live /\ e.came = came
    BY <2>1, <2>2 DEF Done, Event
  <2>4. wire' = Append(wire, e) /\ plugged' = live /\ UNCHANGED client
    BY <1>1 DEF Hotplug
  <2> HIDE DEF e
  <2>5. wire' \in Seq(Event) /\ OthersSilent' /\ TableFollows'
    BY <2>2, <2>3, <2>4, Sends
  <2>6. TypeOK'
    BY <1>1, <2>5 DEF Hotplug, TypeOK, client, daemon
  <2> QED BY <2>5, <2>6
<1>2. CASE ForeignChange
  <2> DEFINE e == Done({}, <<>>)
  <2>1. e \in Event /\ e.kind = "done" /\ e.gone = {} /\ e.came = <<>> /\ ToSet(e.came) = {}
    BY DEF Done, Event, Sets, ToSet
  <2>2. wire' = Append(wire, e) /\ plugged' = plugged /\ UNCHANGED client
    BY <1>2 DEF ForeignChange
  <2> HIDE DEF e
  <2>3. wire' \in Seq(Event) /\ OthersSilent' /\ TableFollows'
    BY <2>1, <2>2, Sends
  <2>4. TypeOK'
    BY <1>2, <2>3 DEF ForeignChange, TypeOK, client, daemon
  <2> QED BY <2>3, <2>4
<1>3. CASE Keep
  BY <1>3 DEF Keep, TypeOK, client, daemon, OthersSilent, TableFollows, Follows
<1>4. CASE Settle
  BY <1>4 DEF Settle, TypeOK, client, daemon, OthersSilent, TableFollows, Follows
<1>5. CASE CompositorSyncs
  <2>1. /\ Synced \in Event /\ Synced.gone = {} /\ Synced.came = <<>>
        /\ ToSet(Synced.came) = {}
    BY DEF Synced, Event, Sets, ToSet
  <2>2. wire' = Append(wire, Synced) /\ plugged' = plugged /\ UNCHANGED client
    BY <1>5 DEF CompositorSyncs, compositor
  <2>3. wire' \in Seq(Event) /\ OthersSilent' /\ TableFollows'
    BY <2>1, <2>2, Sends
  <2>4. TypeOK'
    BY <1>5, <2>3 DEF CompositorSyncs, TypeOK, client, compositor
  <2> QED BY <2>3, <2>4
<1>6. ASSUME NEW r \in Results, CompositorAnswers(r) PROVE IInv'
  <2> DEFINE a == Result(r)
             b == Done({}, <<>>)
  <2>1. a \in Event /\ a.gone = {} /\ a.came = <<>> /\ b \in Event /\ b.gone = {} /\ b.came = <<>>
    BY DEF Result, Done, Event, Sets
  <2>2. plugged' = plugged /\ UNCHANGED client /\ wire \in Seq(Event)
    BY <1>6 DEF CompositorAnswers, TypeOK
  <2>3. wire' = wire \o <<a, b>> \/ wire' = Append(wire, a)
    BY <1>6 DEF CompositorAnswers
  <2> HIDE DEF a, b
  <2>4. \E s \in Seq(Event) : /\ wire' = wire \o s
                              /\ \A i \in DOMAIN s : s[i].gone = {} /\ s[i].came = <<>>
    <3>1. /\ <<a>> \in Seq(Event) /\ <<a, b>> \in Seq(Event) /\ Append(wire, a) = wire \o <<a>>
          /\ DOMAIN <<a>> = {1} /\ DOMAIN <<a, b>> = {1, 2}
      BY <2>1, <2>2
    <3>2. /\ \A i \in DOMAIN <<a>> : <<a>>[i] = a
          /\ \A i \in DOMAIN <<a, b>> : <<a, b>>[i] = a \/ <<a, b>>[i] = b
      BY <3>1
    <3>3. CASE wire' = wire \o <<a, b>>
      BY <2>1, <3>1, <3>2, <3>3
    <3>4. CASE wire' = wire \o <<a>>
      BY <2>1, <3>1, <3>2, <3>4
    <3> QED BY <2>3, <3>1, <3>3, <3>4
  <2>6. wire' \in Seq(Event) /\ OthersSilent' /\ TableFollows'
    BY <2>2, <2>4, SendsSilent
  <2>7. TypeOK'
    BY <1>6, <2>6 DEF CompositorAnswers, TypeOK, client
  <2> QED BY <2>6, <2>7
<1>7. CASE Dispatch
  <2> DEFINE st == [heads |-> heads, slots |-> slots, queued |-> restore_queued]
             e == Head(wire)
             seen == Handle(st, e)
  <2>1. e \in Event /\ wire # <<>> /\ wire' = Tail(wire)
    BY <1>7 DEF Dispatch, TypeOK
  <2>2. heads' = seen.heads /\ slots' = seen.slots /\ restore_queued' = seen.queued
    BY <1>7 DEF Dispatch, Takes
  <2>3. st.heads = heads /\ st.slots = slots /\ st.queued = restore_queued
    OBVIOUS
  <2>4. /\ heads \in Sets /\ slots \in 0 .. OM_MAX_HEADS /\ Cardinality(heads) <= slots
        /\ restore_queued \in BOOLEAN
    BY DEF TypeOK
  <2> HIDE DEF st, e
  <2>5. /\ seen.heads \in Sets /\ seen.slots \in 0 .. OM_MAX_HEADS
        /\ Cardinality(seen.heads) <= seen.slots /\ seen.queued \in BOOLEAN
        /\ seen.slots < OM_MAX_HEADS
             => slots < OM_MAX_HEADS /\ seen.heads = (heads \ e.gone) \cup ToSet(e.came)
    BY <2>1, <2>3, <2>4, HandleBounds
  <2> HIDE DEF seen
  <2>6. plugged' = plugged
    BY <1>7 DEF Dispatch, compositor
  <2>7. wire' \in Seq(Event) /\ OthersSilent' /\ TableFollows'
    <3>1. slots' < OM_MAX_HEADS => /\ slots < OM_MAX_HEADS
                                   /\ heads' = (heads \ Head(wire).gone) \cup ToSet(Head(wire).came)
      BY <2>2, <2>5 DEF e
    <3> QED BY <2>1, <2>6, <3>1, Receives
  <2>8. TypeOK'
    <3>1. UNCHANGED <<plugged, layout, stale, outdated, calm, remembered, current_keys, do_restore>>
      BY <1>7 DEF Dispatch, compositor
    <3> QED BY <2>2, <2>5, <2>7, <3>1 DEF TypeOK
  <2> QED BY <2>7, <2>8
<1>8. CASE ApplyReturns \/ RefreshEnds
  <2>1. /\ wire # <<>> /\ Head(wire).kind # "done" /\ wire' = Tail(wire) /\ plugged' = plugged
        /\ UNCHANGED client
    BY <1>8 DEF ApplyReturns, RefreshEnds, Results, compositor
  <2>2. wire \in Seq(Event) /\ 1 \in DOMAIN wire /\ Head(wire) = wire[1]
    BY <2>1 DEF TypeOK
  <2>3. Head(wire).gone = {} /\ Head(wire).came = <<>>
    BY <2>1, <2>2 DEF OthersSilent
  <2>4. slots' = slots /\ heads' = (heads \ Head(wire).gone) \cup ToSet(Head(wire).came)
    BY <2>1, <2>3 DEF client, ToSet
  <2>5. wire' \in Seq(Event) /\ OthersSilent' /\ TableFollows'
    BY <2>1, <2>4, Receives
  <2>6. TypeOK'
    BY <1>8, <2>5 DEF ApplyReturns, RefreshEnds, TypeOK, client, compositor
  <2> QED BY <2>5, <2>6
<1>9. CASE RestoreStarts
  BY <1>9 DEF RestoreStarts, TypeOK, client, compositor, OthersSilent, TableFollows, Follows
<1>10. CASE RestoreLooksUp
  <2>1. UNCHANGED <<plugged, layout, outdated, calm, wire, remembered, heads, slots, restore_queued>>
        /\ current_keys' = heads /\ do_restore' \in {"sent", "none"}
    BY <1>10 DEF RestoreLooksUp, client
  <2>2. stale' \in BOOLEAN
    BY <1>10 DEF RestoreLooksUp, TypeOK
  <2>3. TypeOK'
    BY <2>1, <2>2 DEF TypeOK
  <2>4. OthersSilent' /\ TableFollows'
    BY <2>1 DEF OthersSilent, TableFollows, Follows
  <2> QED BY <2>3, <2>4
<1>11. CASE UNCHANGED vars
  BY <1>11 DEF vars, compositor, client, daemon, TypeOK, OthersSilent, TableFollows, Follows
<1> QED BY <1>1, <1>2, <1>3, <1>4, <1>5, <1>6, <1>7, <1>8, <1>9, <1>10, <1>11 DEF Next

(* In every reachable state the table follows the monitors as far as the wire *)
(* has been read, while a slot is left.                                       *)
THEOREM TableAlwaysFollows == Spec => []IInv
<1> QED BY Initially, OneStep, PTL DEF Spec

(* The head table stays within its bounds: a slot is never taken beyond      *)
(* OM_MAX_HEADS, and no more heads are alive than slots are taken.           *)
THEOREM TypesCorrect == Spec => []TypeOK
<1>1. IInv => TypeOK
  BY DEF IInv
<1> QED BY <1>1, TableAlwaysFollows, PTL

(* While a slot is left, a client that has read its events knows exactly the *)
(* monitors that are plugged in, whatever came, went and came back.          *)
THEOREM TableIsRight == Spec => []HeadsKnownUntilFull
<1>1. IInv => HeadsKnownUntilFull
  <2> SUFFICES ASSUME IInv, slots < OM_MAX_HEADS, Read("done") PROVE heads = plugged
    BY DEF HeadsKnownUntilFull
  <2>1. \A i \in DOMAIN wire : wire[i].gone = {} /\ wire[i].came = <<>>
    BY DEF IInv, OthersSilent, Read
  <2>2. \A m : \A i \in DOMAIN wire : ~Mentions(wire[i], m)
    BY <2>1 DEF Mentions, ToSet
  <2>3. \A m \in Monitor : m \in heads <=> m \in plugged
    BY <2>2 DEF IInv, TableFollows, Follows
  <2> QED BY <2>3 DEF IInv, TypeOK, Sets
<1> QED BY <1>1, TableAlwaysFollows, PTL

(* An event after which no restore is pending has left the set as it was: the  *)
(* signature comparison of mgr_done.                                           *)
LEMMA HandleSchedules ==
    ASSUME NEW st, NEW e, ~Handle(st, e).queued
    PROVE  ~st.queued /\ Handle(st, e).heads = st.heads
  BY DEF Handle

(* Main theorem: whatever the interleaving of hotplug, dispatch, the blocked   *)
(* apply and its answer, the daemon has looked up the set its client knows or  *)
(* is about to.                                                                *)
THEOREM NoSetChangeLost == Spec => []SetChangeNeverLost
<1>1. Init => SetChangeNeverLost
  BY DEF Init, SetChangeNeverLost
<1>2. SetChangeNeverLost /\ [Next]_vars => SetChangeNeverLost'
  <2> SUFFICES ASSUME SetChangeNeverLost, [Next]_vars
               PROVE  SetChangeNeverLost'
    OBVIOUS
  <2>1. ASSUME NEW live \in Sets, NEW came \in SetToSeqs(live \ plugged), Hotplug(live, came)
        PROVE  SetChangeNeverLost'
    BY <2>1 DEF Hotplug, SetChangeNeverLost, client, daemon, Refreshing
  <2>2. CASE ForeignChange
    BY <2>2 DEF ForeignChange, SetChangeNeverLost, client, daemon, Refreshing
  <2>3. CASE Keep
    BY <2>3 DEF Keep, SetChangeNeverLost, client, daemon, Refreshing
  <2>9. CASE Settle
    BY <2>9 DEF Settle, SetChangeNeverLost, client, daemon, Refreshing
  <2>4. ASSUME NEW r \in Results, CompositorAnswers(r)
        PROVE  SetChangeNeverLost'
    BY <2>4 DEF CompositorAnswers, SetChangeNeverLost, client, Refreshing
  <2>5. CASE Dispatch
    <3> DEFINE st == [heads |-> heads, slots |-> slots, queued |-> restore_queued]
    <3> DEFINE seen == Handle(st, Head(wire))
    <3>1. /\ heads' = seen.heads /\ restore_queued' = seen.queued
          /\ UNCHANGED <<current_keys, do_restore>>
      BY <2>5 DEF Dispatch, Takes
    <3>2. st.heads = heads /\ st.queued = restore_queued
      OBVIOUS
    <3>3. ~seen.queued => ~restore_queued /\ seen.heads = heads
      <4> HIDE DEF st
      <4>1. ~seen.queued => ~st.queued /\ seen.heads = st.heads
        BY HandleSchedules
      <4> QED BY <4>1, <3>2
    <3> HIDE DEF seen, st
    <3> QED BY <3>1, <3>3 DEF SetChangeNeverLost, Refreshing
  <2>6. CASE ApplyReturns
    BY <2>6 DEF ApplyReturns, SetChangeNeverLost, client, Refreshing
  <2>7. CASE RestoreStarts
    BY <2>7 DEF RestoreStarts, SetChangeNeverLost, Refreshing
  <2>10. CASE CompositorSyncs
    BY <2>10 DEF CompositorSyncs, SetChangeNeverLost, Refreshing
  <2>11. CASE RefreshEnds
    BY <2>11 DEF RefreshEnds, SetChangeNeverLost, Refreshing
  <2>12. CASE RestoreLooksUp
    BY <2>12 DEF RestoreLooksUp, SetChangeNeverLost, client
  <2>8. CASE UNCHANGED vars
    BY <2>8 DEF vars, client, daemon, SetChangeNeverLost, Refreshing
  <2> QED BY <2>1, <2>2, <2>3, <2>4, <2>5, <2>6, <2>7, <2>8, <2>9, <2>10,
          <2>11, <2>12 DEF Next
<1> QED BY <1>1, <1>2, PTL DEF Spec
=============================================================================
