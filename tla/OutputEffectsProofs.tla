------------------------ MODULE OutputEffectsProofs ------------------------
(***************************************************************************)
(* Types, HeldWhileRunning and NothingStranded, for any outputs, views and *)
(* lists of plugins.  The invariant counts what each plugin holds thing by *)
(* thing; a step of one plugin touches only the things that carry its      *)
(* name, which leaves the parts of the other plugins true.                 *)
(***************************************************************************)
EXTENDS OutputEffects, TLAPS

DeskState  == {"NONE", "IDLE", "OUT", "PEEKED", "IN"}
PushState  == {"NONE", "IDLE", "OUT", "PUSHED", "IN"}
ZoomState  == {"NONE", "PENDING", "RUNNING", "DONE"}
NightState == {"NONE", "OFF", "FADING_IN", "ON", "FADING_OUT"}

DeskRuns(o)  == desk[o].state \in {"OUT", "PEEKED", "IN"}
PushRuns(o)  == push[o].state \in {"OUT", "PUSHED", "IN"}
ZoomRuns(o)  == zoom[o].state = "RUNNING"
NightRuns(o) == night[o] \in {"FADING_IN", "ON", "FADING_OUT"}

Mapped(v) == place[v] # Unmapped

(* The world that the plugins share.                                          *)
WorldInv ==
    /\ plugged \subseteq Outputs /\ plugged # {} /\ loaded \subseteq listed
    /\ place \in [Views -> plugged \union {Unmapped}] /\ minimized \subseteq Windows
    /\ held \subseteq Holdings
    /\ panel \in [inside : BOOLEAN, target : BOOLEAN, slides : BOOLEAN, timer : BOOLEAN]

(* An instance exists on the outputs there are while its plugin is loaded; it *)
(* tracks views only while its effect runs, and a peek never runs without     *)
(* one; what it holds is one hook, one activation and a transformer per view. *)
DeskInv ==
    /\ desk \in [Outputs -> [state : DeskState, views : SUBSET Windows]]
    /\ \A o \in Outputs :
          /\ DeskRuns(o) <=> desk[o].views # {}
          /\ \A v \in desk[o].views : Mapped(v)
          /\ desk[o].state # "NONE" <=> Instance("desktop", o)
          /\ Hook("desktop", o) \in held <=> DeskRuns(o)
          /\ Activation("desktop", o) \in held <=> DeskRuns(o)
          /\ \A v \in Views : Transformer("desktop", o, v) \in held <=> v \in desk[o].views

(* A push may run without views.  A layer surface that is tracked is on the   *)
(* output of the instance, which is why an unplug, that closes the layer      *)
(* surfaces of that output alone, leaves nothing tracked that is gone.        *)
PushInv ==
    /\ push \in [Outputs -> [state : PushState, views : SUBSET (Views \ {Panel})]]
    /\ \A o \in Outputs :
          /\ push[o].views # {} => PushRuns(o)
          /\ \A v \in push[o].views : Mapped(v) /\ (v \notin Windows => place[v] = o)
          /\ push[o].state # "NONE" <=> Instance("push", o)
          /\ Hook("push", o) \in held <=> PushRuns(o)
          /\ Activation("push", o) \in held <=> PushRuns(o)
          /\ \A v \in Views : Transformer("push", o, v) \in held <=> v \in push[o].views

ZoomInv ==
    /\ zoom \in [Outputs -> [state : ZoomState, views : SUBSET Views, grace_timer : BOOLEAN]]
    /\ \A o \in Outputs :
          /\ zoom[o].views # {} => ZoomRuns(o)
          /\ \A v \in zoom[o].views : Mapped(v) /\ (v \notin Windows => place[v] = o)
          /\ zoom[o].state # "NONE" <=> Instance("zoom", o)
          /\ Hook("zoom", o) \in held <=> ZoomRuns(o)
          /\ \A v \in Views : Transformer("zoom", o, v) \in held <=> v \in zoom[o].views

(* A tint knows itself enabled.                                               *)
NightInv ==
    /\ night \in [Outputs -> NightState] /\ enabled \in BOOLEAN
    /\ \A o \in Outputs :
          /\ Lit(o) => enabled
          /\ night[o] # "NONE" <=> Instance("night", o)
          /\ Hook("night", o) \in held <=> NightRuns(o)
          /\ TintNode("night", o) \in held <=> NightRuns(o)

IInv == WorldInv /\ DeskInv /\ PushInv /\ ZoomInv /\ NightInv

(* Every thing that is held names its plugin.                                 *)
LEMMA Tokens ==
    ASSUME NEW p, NEW o
    PROVE  /\ Hook(p, o)[2] = p /\ Activation(p, o)[2] = p /\ TintNode(p, o)[2] = p
           /\ \A v : Transformer(p, o, v)[2] = p
  BY DEF Hook, Activation, TintNode, Transformer

(* Two things are the same only if they are of one kind, plugin and output.   *)
LEMMA Differ ==
    ASSUME NEW p, NEW q, NEW o, NEW r
    PROVE  /\ Hook(p, o) = Hook(q, r) <=> p = q /\ o = r
           /\ Activation(p, o) = Activation(q, r) <=> p = q /\ o = r
           /\ TintNode(p, o) = TintNode(q, r) <=> p = q /\ o = r
           /\ Hook(p, o) # Activation(q, r) /\ Hook(p, o) # TintNode(q, r)
           /\ Activation(p, o) # TintNode(q, r)
  BY DEF Hook, Activation, TintNode

LEMMA DifferV ==
    ASSUME NEW p, NEW q, NEW o, NEW r, NEW v
    PROVE  /\ Transformer(p, o, v) # Hook(q, r)
           /\ Transformer(p, o, v) # Activation(q, r)
           /\ Transformer(p, o, v) # TintNode(q, r)
  BY DEF Hook, Activation, TintNode, Transformer

LEMMA SameTransformer ==
    ASSUME NEW p, NEW q, NEW o, NEW r, NEW v, NEW w
    PROVE  Transformer(p, o, v) = Transformer(q, r, w) <=> p = q /\ o = r /\ v = w
  BY DEF Transformer

(* What is in the sets that the plugins take and give back.                   *)
LEMMA InHolds ==
    ASSUME NEW p, NEW o, NEW V
    PROVE  /\ \A x \in Transformers(p, o, V) : x[2] = p
           /\ \A q, r, v : Transformer(q, r, v) \in Transformers(p, o, V) <=> q = p /\ r = o /\ v \in V
           /\ \A q, r : /\ Hook(q, r) \notin Transformers(p, o, V)
                        /\ Activation(q, r) \notin Transformers(p, o, V)
                        /\ TintNode(q, r) \notin Transformers(p, o, V)
<1>1. \A x \in Transformers(p, o, V) : \E v \in V : x = Transformer(p, o, v)
  BY DEF Transformers
<1>2. \A v \in V : Transformer(p, o, v) \in Transformers(p, o, V)
  BY DEF Transformers
<1>3. ASSUME NEW x \in Transformers(p, o, V) PROVE x[2] = p
  <2>1. PICK v \in V : x = Transformer(p, o, v)
    BY <1>1
  <2> QED
    BY <2>1, Tokens
<1>4. ASSUME NEW q, NEW r, NEW v
      PROVE  Transformer(q, r, v) \in Transformers(p, o, V) <=> q = p /\ r = o /\ v \in V
  BY <1>1, <1>2, SameTransformer
<1>5. ASSUME NEW q, NEW r
      PROVE  /\ Hook(q, r) \notin Transformers(p, o, V)
             /\ Activation(q, r) \notin Transformers(p, o, V)
             /\ TintNode(q, r) \notin Transformers(p, o, V)
  <2>1. \A v : /\ Transformer(p, o, v) # Hook(q, r)
               /\ Transformer(p, o, v) # Activation(q, r)
               /\ Transformer(p, o, v) # TintNode(q, r)
    BY DifferV
  <2> QED
    BY <1>1, <2>1
<1> QED
  BY <1>3, <1>4, <1>5

LEMMA InDesk ==
    ASSUME NEW o, NEW V
    PROVE  /\ \A x \in DeskHolds(o, V) : x[2] = "desktop"
           /\ \A r : Hook("desktop", r) \in DeskHolds(o, V) <=> r = o
           /\ \A r : Activation("desktop", r) \in DeskHolds(o, V) <=> r = o
           /\ \A r, v : Transformer("desktop", r, v) \in DeskHolds(o, V) <=> r = o /\ v \in V
<1>1. \A x \in DeskHolds(o, V) : x = Hook("desktop", o) \/ x = Activation("desktop", o)
                                 \/ x \in Transformers("desktop", o, V)
  BY DEF DeskHolds
<1>2. /\ Hook("desktop", o) \in DeskHolds(o, V) /\ Activation("desktop", o) \in DeskHolds(o, V)
      /\ Transformers("desktop", o, V) \subseteq DeskHolds(o, V)
  BY DEF DeskHolds
<1>3. \A x \in DeskHolds(o, V) : x[2] = "desktop"
  BY <1>1, Tokens, InHolds
<1> QED
  BY <1>1, <1>2, <1>3, Differ, DifferV, InHolds

LEMMA InPush ==
    ASSUME NEW o, NEW V
    PROVE  /\ \A x \in PushHolds(o, V) : x[2] = "push"
           /\ \A r : Hook("push", r) \in PushHolds(o, V) <=> r = o
           /\ \A r : Activation("push", r) \in PushHolds(o, V) <=> r = o
           /\ \A r, v : Transformer("push", r, v) \in PushHolds(o, V) <=> r = o /\ v \in V
<1>1. \A x \in PushHolds(o, V) : x = Hook("push", o) \/ x = Activation("push", o)
                                 \/ x \in Transformers("push", o, V)
  BY DEF PushHolds
<1>2. /\ Hook("push", o) \in PushHolds(o, V) /\ Activation("push", o) \in PushHolds(o, V)
      /\ Transformers("push", o, V) \subseteq PushHolds(o, V)
  BY DEF PushHolds
<1>3. \A x \in PushHolds(o, V) : x[2] = "push"
  BY <1>1, Tokens, InHolds
<1> QED
  BY <1>1, <1>2, <1>3, Differ, DifferV, InHolds

LEMMA InZoom ==
    ASSUME NEW o, NEW V
    PROVE  /\ \A x \in ZoomHolds(o, V) : x[2] = "zoom"
           /\ \A r : Hook("zoom", r) \in ZoomHolds(o, V) <=> r = o
           /\ \A r, v : Transformer("zoom", r, v) \in ZoomHolds(o, V) <=> r = o /\ v \in V
<1>1. \A x \in ZoomHolds(o, V) : x = Hook("zoom", o) \/ x \in Transformers("zoom", o, V)
  BY DEF ZoomHolds
<1>2. /\ Hook("zoom", o) \in ZoomHolds(o, V)
      /\ Transformers("zoom", o, V) \subseteq ZoomHolds(o, V)
  BY DEF ZoomHolds
<1>3. \A x \in ZoomHolds(o, V) : x[2] = "zoom"
  BY <1>1, Tokens, InHolds
<1> QED
  BY <1>1, <1>2, <1>3, Differ, DifferV, InHolds

LEMMA InNight ==
    ASSUME NEW o
    PROVE  /\ \A x \in NightHolds(o) : x[2] = "night"
           /\ \A r : Hook("night", r) \in NightHolds(o) <=> r = o
           /\ \A r : TintNode("night", r) \in NightHolds(o) <=> r = o
  BY Tokens, Differ DEF NightHolds

(* Nothing else is ever held.                                                 *)
LEMMA KnownHoldings ==
    ASSUME NEW o \in Outputs
    PROVE  /\ \A V \in SUBSET Views : DeskHolds(o, V) \subseteq Holdings
           /\ \A V \in SUBSET Views : PushHolds(o, V) \subseteq Holdings
           /\ \A V \in SUBSET Views : ZoomHolds(o, V) \subseteq Holdings
           /\ NightHolds(o) \subseteq Holdings
<1>1. \A p \in {"desktop", "push", "zoom", "night"} : Hook(p, o) \in Holdings
  BY DEF Holdings
<1>2. \A p \in {"desktop", "push"} : Activation(p, o) \in Holdings
  BY DEF Holdings
<1>3. TintNode("night", o) \in Holdings
  BY DEF Holdings
<1>4. ASSUME NEW p \in {"desktop", "push", "zoom"}, NEW V \in SUBSET Views
      PROVE  Transformers(p, o, V) \subseteq Holdings
  <2>1. Transformers(p, o, V) \subseteq Transformers(p, o, Views)
    BY DEF Transformers
  <2> QED
    BY <2>1 DEF Holdings
<1> QED
  BY <1>1, <1>2, <1>3, <1>4 DEF DeskHolds, PushHolds, ZoomHolds, NightHolds

(* Only the things of the plugins ps are taken or given back in a step.       *)
Touches(ps) == \A x : x[2] \notin ps => (x \in held' <=> x \in held)

(* No view is closed, and layer surfaces stay where they are.                 *)
ViewsStay == \A v \in Views : Mapped(v) => Mapped(v)' /\ (v \notin Windows => place'[v] = place[v])

(* A plugin that a step leaves alone keeps its part of the invariant.         *)
LEMMA DeskStays ==
    ASSUME DeskInv, UNCHANGED <<desk, plugged, loaded>>, ViewsStay,
           NEW ps, "desktop" \notin ps, Touches(ps)
    PROVE  DeskInv'
<1>1. \A o \in Outputs : /\ Hook("desktop", o) \in held' <=> Hook("desktop", o) \in held
                         /\ Activation("desktop", o) \in held' <=> Activation("desktop", o) \in held
                         /\ \A v : Transformer("desktop", o, v) \in held' <=> Transformer("desktop", o, v) \in held
  BY Tokens DEF Touches
<1> QED
  BY <1>1 DEF DeskInv, DeskRuns, Instance, ViewsStay, Views, Mapped

LEMMA PushStays ==
    ASSUME PushInv, UNCHANGED <<push, plugged, loaded>>, ViewsStay,
           NEW ps, "push" \notin ps, Touches(ps)
    PROVE  PushInv'
<1>1. \A o \in Outputs : /\ Hook("push", o) \in held' <=> Hook("push", o) \in held
                         /\ Activation("push", o) \in held' <=> Activation("push", o) \in held
                         /\ \A v : Transformer("push", o, v) \in held' <=> Transformer("push", o, v) \in held
  BY Tokens DEF Touches
<1> QED
  BY <1>1 DEF PushInv, PushRuns, Instance, ViewsStay, Mapped

LEMMA ZoomStays ==
    ASSUME ZoomInv, UNCHANGED <<zoom, plugged, loaded>>, ViewsStay,
           NEW ps, "zoom" \notin ps, Touches(ps)
    PROVE  ZoomInv'
<1>1. \A o \in Outputs : /\ Hook("zoom", o) \in held' <=> Hook("zoom", o) \in held
                         /\ \A v : Transformer("zoom", o, v) \in held' <=> Transformer("zoom", o, v) \in held
  BY Tokens DEF Touches
<1> QED
  BY <1>1 DEF ZoomInv, ZoomRuns, Instance, ViewsStay, Mapped

LEMMA NightStays ==
    ASSUME NightInv, UNCHANGED <<night, enabled, plugged, loaded>>,
           NEW ps, "night" \notin ps, Touches(ps)
    PROVE  NightInv'
<1>1. \A o \in Outputs : /\ Hook("night", o) \in held' <=> Hook("night", o) \in held
                         /\ TintNode("night", o) \in held' <=> TintNode("night", o) \in held
  BY Tokens DEF Touches
<1> QED
  BY <1>1 DEF NightInv, NightRuns, Lit, Instance

-----------------------------------------------------------------------------
(* The steps of desktop-peek.                                                 *)
LEMMA DeskStep ==
    ASSUME WorldInv, DeskInv, NEW o \in Outputs, UNCHANGED <<world, loaded>>,
           DeskToggle(o) \/ DeskFrame(o) \/ DeskCancel(o)
    PROVE  DeskInv' /\ Touches({"desktop"}) /\ held' \subseteq Holdings
<1>0. UNCHANGED <<plugged, place, loaded>>
  BY DEF world
<1>1. CASE start_peek(o)
  <2> DEFINE views == Visible(o) \intersect Windows
  <2>1. views \subseteq Windows /\ views # {} /\ \A v \in views : Mapped(v)
    BY <1>1, OutputSceneConstants DEF start_peek, Visible, Views, Mapped
  <2>2. desk' = [desk EXCEPT ![o] = [state |-> "OUT", views |-> views]]
        /\ held' = held \union DeskHolds(o, views) /\ desk[o].state = "IDLE"
    BY <1>1 DEF start_peek
  <2> HIDE DEF views
  <2>3. Touches({"desktop"})
    BY <2>2, InDesk DEF Touches
  <2>4. held' \subseteq Holdings
    BY <2>1, <2>2, KnownHoldings DEF WorldInv, Views
  <2>5. desk' \in [Outputs -> [state : DeskState, views : SUBSET Windows]]
    BY <2>1, <2>2 DEF DeskInv, DeskState
  <2>6. ASSUME NEW r \in Outputs
        PROVE  /\ DeskRuns(r)' <=> desk'[r].views # {}
               /\ \A v \in desk'[r].views : Mapped(v)'
               /\ desk'[r].state # "NONE" <=> Instance("desktop", r)'
    BY <1>0, <2>1, <2>2 DEF DeskInv, DeskRuns, Instance, Mapped
  <2>7. ASSUME NEW r \in Outputs
        PROVE  /\ Hook("desktop", r) \in held' <=> DeskRuns(r)'
               /\ Activation("desktop", r) \in held' <=> DeskRuns(r)'
               /\ \A v \in Views : Transformer("desktop", r, v) \in held' <=> v \in desk'[r].views
    BY <2>1, <2>2, InDesk DEF DeskInv, DeskRuns
  <2> QED
    BY <2>3, <2>4, <2>5, <2>6, <2>7 DEF DeskInv
<1>2. CASE DeskRestore(o)
  <2>1. desk' = [desk EXCEPT ![o].state = "IN"] /\ UNCHANGED held /\ DeskRuns(o)
    BY <1>2 DEF DeskRestore, DeskRuns
  <2> QED
    BY <1>0, <2>1 DEF DeskInv, DeskState, DeskRuns, Instance, Mapped, Touches, WorldInv
<1>3. CASE DeskReset(o) /\ DeskRuns(o)
  <2>1. desk' = [desk EXCEPT ![o] = DeskIdle] /\ held' = held \ DeskHolds(o, desk[o].views)
    BY <1>3 DEF DeskReset
  <2>2. Touches({"desktop"})
    BY <2>1, InDesk DEF Touches
  <2>3. ASSUME NEW r \in Outputs
        PROVE  /\ Hook("desktop", r) \in held' <=> DeskRuns(r)'
               /\ Activation("desktop", r) \in held' <=> DeskRuns(r)'
               /\ \A v \in Views : Transformer("desktop", r, v) \in held' <=> v \in desk'[r].views
    BY <2>1, InDesk DEF DeskInv, DeskRuns, DeskIdle
  <2>4. desk' \in [Outputs -> [state : DeskState, views : SUBSET Windows]]
    BY <2>1 DEF DeskInv, DeskState, DeskIdle
  <2>5. ASSUME NEW r \in Outputs
        PROVE  /\ DeskRuns(r)' <=> desk'[r].views # {}
               /\ \A v \in desk'[r].views : Mapped(v)'
               /\ desk'[r].state # "NONE" <=> Instance("desktop", r)'
    BY <1>0, <1>3, <2>1 DEF DeskInv, DeskRuns, DeskIdle, Instance, Mapped
  <2>6. held' \subseteq Holdings
    BY <2>1 DEF WorldInv
  <2> QED
    BY <2>2, <2>3, <2>4, <2>5, <2>6 DEF DeskInv
<1>4. CASE desk[o].state = "OUT" /\ desk' = [desk EXCEPT ![o].state = "PEEKED"] /\ UNCHANGED held
  BY <1>0, <1>4 DEF DeskInv, DeskState, DeskRuns, Instance, Mapped, Touches, WorldInv
<1>5. DeskCancel(o) => DeskRuns(o)
  BY DEF DeskCancel, DeskInv
<1>6. desk[o].state = "IN" => DeskRuns(o)
  BY DEF DeskRuns
<1> QED
  BY <1>1, <1>2, <1>3, <1>4, <1>5, <1>6 DEF DeskToggle, DeskFrame, DeskCancel

(* The steps of panel-push: its own, and the requests of lumen-panel.         *)
LEMMA PushStep ==
    ASSUME WorldInv, PushInv, NEW o \in Outputs, UNCHANGED <<world, loaded>>,
           PushToggle(o) \/ PushFrame(o) \/ PushCancel(o) \/ PushIpcStart(o) \/ PushIpcStop(o)
    PROVE  PushInv' /\ Touches({"push"}) /\ held' \subseteq Holdings
<1>0. UNCHANGED <<plugged, place, loaded>>
  BY DEF world
<1>1. CASE start_push(o)
  <2> DEFINE views == PushTracks(Visible(o))
  <2>1. views \subseteq Views \ {Panel} /\ views # {} /\ \A v \in views : place[v] = o
    BY <1>1 DEF start_push, PushTracks, Visible
  <2>2. push' = [push EXCEPT ![o] = [state |-> "OUT", views |-> views]]
        /\ held' = held \union PushHolds(o, views) /\ push[o].state = "IDLE"
    BY <1>1 DEF start_push
  <2> HIDE DEF views
  <2>3. Touches({"push"})
    BY <2>2, InPush DEF Touches
  <2>4. held' \subseteq Holdings
    BY <2>1, <2>2, KnownHoldings DEF WorldInv
  <2>5. push' \in [Outputs -> [state : PushState, views : SUBSET (Views \ {Panel})]]
    BY <2>1, <2>2 DEF PushInv, PushState
  <2>6. ASSUME NEW r \in Outputs
        PROVE  /\ push'[r].views # {} => PushRuns(r)'
               /\ \A v \in push'[r].views : Mapped(v)' /\ (v \notin Windows => place'[v] = r)
               /\ push'[r].state # "NONE" <=> Instance("push", r)'
    BY <1>0, <2>1, <2>2, OutputSceneConstants DEF PushInv, PushRuns, Instance, Mapped
  <2>7. ASSUME NEW r \in Outputs
        PROVE  /\ Hook("push", r) \in held' <=> PushRuns(r)'
               /\ Activation("push", r) \in held' <=> PushRuns(r)'
               /\ \A v \in Views : Transformer("push", r, v) \in held' <=> v \in push'[r].views
    BY <2>1, <2>2, InPush DEF PushInv, PushRuns
  <2> QED
    BY <2>3, <2>4, <2>5, <2>6, <2>7 DEF PushInv
<1>2. CASE PushRestore(o)
  <2>1. push' = [push EXCEPT ![o].state = "IN"] /\ UNCHANGED held /\ PushRuns(o)
    BY <1>2 DEF PushRestore, PushRuns
  <2> QED
    BY <1>0, <2>1 DEF PushInv, PushState, PushRuns, Instance, Mapped, Touches, WorldInv
<1>3. CASE PushReset(o) /\ PushRuns(o)
  <2>1. push' = [push EXCEPT ![o] = PushIdle] /\ held' = held \ PushHolds(o, push[o].views)
    BY <1>3 DEF PushReset
  <2>2. Touches({"push"})
    BY <2>1, InPush DEF Touches
  <2>3. ASSUME NEW r \in Outputs
        PROVE  /\ Hook("push", r) \in held' <=> PushRuns(r)'
               /\ Activation("push", r) \in held' <=> PushRuns(r)'
               /\ \A v \in Views : Transformer("push", r, v) \in held' <=> v \in push'[r].views
    BY <2>1, InPush DEF PushInv, PushRuns, PushIdle
  <2>4. push' \in [Outputs -> [state : PushState, views : SUBSET (Views \ {Panel})]]
    BY <2>1 DEF PushInv, PushState, PushIdle
  <2>5. ASSUME NEW r \in Outputs
        PROVE  /\ push'[r].views # {} => PushRuns(r)'
               /\ \A v \in push'[r].views : Mapped(v)' /\ (v \notin Windows => place'[v] = r)
               /\ push'[r].state # "NONE" <=> Instance("push", r)'
    BY <1>0, <1>3, <2>1 DEF PushInv, PushRuns, PushIdle, Instance, Mapped
  <2>6. held' \subseteq Holdings
    BY <2>1 DEF WorldInv
  <2> QED
    BY <2>2, <2>3, <2>4, <2>5, <2>6 DEF PushInv
<1>4. CASE push[o].state = "OUT" /\ push' = [push EXCEPT ![o].state = "PUSHED"] /\ UNCHANGED held
  BY <1>0, <1>4 DEF PushInv, PushState, PushRuns, Instance, Mapped, Touches, WorldInv
<1>5. CASE UNCHANGED <<push, held>>
  BY <1>0, <1>5 DEF PushInv, PushRuns, Instance, Mapped, Touches, WorldInv
<1>6. PushCancel(o) => PushRuns(o)
  BY DEF PushCancel, PushInv
<1>7. push[o].state = "IN" => PushRuns(o)
  BY DEF PushRuns
<1> QED
  BY <1>1, <1>2, <1>3, <1>4, <1>5, <1>6, <1>7
     DEF PushToggle, PushFrame, PushCancel, PushIpcStart, PushIpcStop

(* The steps of startup-zoom and of night-light.                              *)
LEMMA ZoomStep ==
    ASSUME WorldInv, ZoomInv, NEW o \in Outputs, UNCHANGED <<world, loaded>>,
           ZoomFrame(o) \/ ZoomGrace(o)
    PROVE  ZoomInv' /\ Touches({"zoom"}) /\ held' \subseteq Holdings
<1>0. UNCHANGED <<plugged, place, loaded>>
  BY DEF world
<1>1. CASE finish(o) /\ zoom[o].state # "NONE"
  <2>1. zoom' = [zoom EXCEPT ![o] = ZoomDone] /\ held' = held \ ZoomHolds(o, zoom[o].views)
    BY <1>1 DEF finish
  <2>2. /\ ZoomDone \in [state : ZoomState, views : SUBSET Views, grace_timer : BOOLEAN]
        /\ ZoomDone.state = "DONE" /\ ZoomDone.views = {}
    BY DEF ZoomDone, ZoomNone, ZoomState
  <2>3. Touches({"zoom"})
    BY <2>1, InZoom DEF Touches
  <2>4. ASSUME NEW r \in Outputs
        PROVE  /\ Hook("zoom", r) \in held' <=> ZoomRuns(r)'
               /\ \A v \in Views : Transformer("zoom", r, v) \in held' <=> v \in zoom'[r].views
    BY <2>1, <2>2, InZoom DEF ZoomInv, ZoomRuns
  <2>5. zoom' \in [Outputs -> [state : ZoomState, views : SUBSET Views, grace_timer : BOOLEAN]]
    BY <2>1, <2>2 DEF ZoomInv, ZoomState
  <2>6. ASSUME NEW r \in Outputs
        PROVE  /\ zoom'[r].views # {} => ZoomRuns(r)'
               /\ \A v \in zoom'[r].views : Mapped(v)' /\ (v \notin Windows => place'[v] = r)
               /\ zoom'[r].state # "NONE" <=> Instance("zoom", r)'
    BY <1>0, <1>1, <2>1, <2>2 DEF ZoomInv, ZoomRuns, Instance, Mapped
  <2>7. held' \subseteq Holdings
    BY <2>1 DEF WorldInv
  <2> QED
    BY <2>3, <2>4, <2>5, <2>6, <2>7 DEF ZoomInv
<1>2. CASE zoom' = [zoom EXCEPT ![o].grace_timer = FALSE] /\ UNCHANGED held
  <2>1. zoom' \in [Outputs -> [state : ZoomState, views : SUBSET Views, grace_timer : BOOLEAN]]
    <3>1. [zoom[o] EXCEPT !.grace_timer = FALSE]
            \in [state : ZoomState, views : SUBSET Views, grace_timer : BOOLEAN]
      <4>1. zoom[o] \in [state : ZoomState, views : SUBSET Views, grace_timer : BOOLEAN]
        BY DEF ZoomInv
      <4> QED
        BY <4>1
    <3> QED
      BY <1>2, <3>1 DEF ZoomInv
  <2>2. \A r \in Outputs : zoom'[r].state = zoom[r].state /\ zoom'[r].views = zoom[r].views
    BY <1>2 DEF ZoomInv
  <2>3. ZoomInv'
    BY <1>0, <1>2, <2>1, <2>2 DEF ZoomInv, ZoomRuns, Instance, Mapped
  <2> QED
    BY <1>2, <2>3 DEF Touches, WorldInv
<1> QED
  BY <1>1, <1>2 DEF ZoomFrame, ZoomGrace

LEMMA NightStep ==
    ASSUME WorldInv, NightInv, UNCHANGED <<world, loaded>>,
           NightRequest \/ \E o \in Outputs : NightFrame(o)
    PROVE  NightInv' /\ Touches({"night"}) /\ held' \subseteq Holdings
<1>0. UNCHANGED <<plugged, loaded>>
  BY DEF world
<1>1. ASSUME NEW want \in BOOLEAN, set_all(want) PROVE NightInv' /\ Touches({"night"}) /\ held' \subseteq Holdings
  <2> DEFINE acts == NightActs(want)
  <2>1. /\ acts \subseteq Outputs /\ enabled' = want
        /\ \A r \in Outputs : r \in acts <=> night[r] \in IF want THEN {"OFF", "FADING_OUT"} ELSE {"ON", "FADING_IN"}
        /\ night' = [r \in Outputs |-> IF r \notin acts THEN night[r]
                                       ELSE IF want THEN "FADING_IN" ELSE "FADING_OUT"]
        /\ held' = IF want THEN held \union UNION {NightHolds(r) : r \in acts} ELSE held
    BY <1>1 DEF set_all, NightActs
  <2> HIDE DEF acts
  <2>2. \A x : x \in held' => x \in held \/ \E r \in acts : x \in NightHolds(r)
    BY <2>1
  <2>3. \A x : x \in held => x \in held'
    BY <2>1
  <2>4. want => \A r \in acts : NightHolds(r) \subseteq held'
    BY <2>1
  <2>5. Touches({"night"})
    BY <2>2, <2>3, InNight DEF Touches
  <2>6. held' \subseteq Holdings
    BY <2>1, <2>2, KnownHoldings DEF WorldInv
  <2>7. night' \in [Outputs -> NightState] /\ enabled' \in BOOLEAN
    BY <2>1 DEF NightInv, NightState
  <2>8. ASSUME NEW r \in Outputs
        PROVE  /\ Lit(r)' => enabled'
               /\ night'[r] # "NONE" <=> Instance("night", r)'
    BY <1>0, <2>1 DEF NightInv, NightState, Lit, Instance
  <2>9. ASSUME NEW r \in Outputs
        PROVE  /\ Hook("night", r) \in held' <=> NightRuns(r)'
               /\ TintNode("night", r) \in held' <=> NightRuns(r)'
    <3>1. Hook("night", r) \in held' <=> Hook("night", r) \in held \/ (want /\ r \in acts)
      BY <2>1, <2>2, <2>3, <2>4, InNight
    <3>2. TintNode("night", r) \in held' <=> TintNode("night", r) \in held \/ (want /\ r \in acts)
      BY <2>1, <2>2, <2>3, <2>4, InNight
    <3> QED
      BY <2>1, <3>1, <3>2 DEF NightInv, NightRuns
  <2> QED
    BY <2>5, <2>6, <2>7, <2>8, <2>9 DEF NightInv
<1>2. ASSUME NEW o \in Outputs, NightFrame(o) PROVE NightInv' /\ Touches({"night"}) /\ held' \subseteq Holdings
  <2>1. CASE night[o] = "FADING_IN" /\ night' = [night EXCEPT ![o] = "ON"] /\ UNCHANGED <<held, enabled>>
    BY <1>0, <2>1 DEF NightInv, NightState, NightRuns, Lit, Instance, Touches, WorldInv
  <2>2. CASE night[o] = "FADING_OUT" /\ teardown(o) /\ UNCHANGED enabled
    <3>1. night' = [night EXCEPT ![o] = "OFF"] /\ held' = held \ NightHolds(o)
      BY <2>2 DEF teardown
    <3>2. Touches({"night"})
      BY <3>1, InNight DEF Touches
    <3>3. ASSUME NEW r \in Outputs
          PROVE  /\ Hook("night", r) \in held' <=> NightRuns(r)'
                 /\ TintNode("night", r) \in held' <=> NightRuns(r)'
      BY <3>1, InNight DEF NightInv, NightRuns
    <3>4. night' \in [Outputs -> NightState]
      BY <3>1 DEF NightInv, NightState
    <3>5. ASSUME NEW r \in Outputs
          PROVE  /\ Lit(r)' => enabled'
                 /\ night'[r] # "NONE" <=> Instance("night", r)'
      BY <1>0, <2>2, <3>1 DEF NightInv, Lit, Instance
    <3>6. held' \subseteq Holdings
      BY <3>1 DEF WorldInv
    <3> QED
      BY <2>2, <3>2, <3>3, <3>4, <3>5, <3>6 DEF NightInv
  <2> QED
    BY <1>2, <2>1, <2>2 DEF NightFrame
<1> QED
  BY <1>1, <1>2 DEF NightRequest

(* Of the plugin p the things in back are given back, and nothing is taken.   *)
GivesBack(p, back) == \A x : x[2] = p => (x \in held' <=> x \in held /\ x \notin back)

-----------------------------------------------------------------------------
(* A view goes away: drop_view() of the three plugins that track views.       *)
LEMMA DeskDropStep ==
    ASSUME DeskInv, place \in [Views -> plugged \union {Unmapped}],
           NEW v \in Views, desk' = DeskDropped(v),
           place' = [place EXCEPT ![v] = Unmapped], UNCHANGED <<plugged, loaded>>,
           GivesBack("desktop", DeskGivesBack(v))
    PROVE  DeskInv'
<1>1. \A x : x \in DeskGivesBack(v) <=>
        \E o \in Outputs : IF desk[o].views = {v} THEN x \in DeskHolds(o, {v})
                           ELSE x \in Transformers("desktop", o, desk[o].views \intersect {v})
  BY DEF DeskGivesBack
<1>2. ASSUME NEW r \in Outputs
      PROVE  /\ Hook("desktop", r) \in DeskGivesBack(v) <=> desk[r].views = {v}
             /\ Activation("desktop", r) \in DeskGivesBack(v) <=> desk[r].views = {v}
             /\ \A w \in Views : Transformer("desktop", r, w) \in DeskGivesBack(v)
                                   <=> w = v /\ v \in desk[r].views
  <2>1. ASSUME NEW o \in Outputs
        PROVE  /\ Hook("desktop", r) \in DeskHolds(o, {v}) <=> r = o
               /\ Activation("desktop", r) \in DeskHolds(o, {v}) <=> r = o
               /\ \A w : Transformer("desktop", r, w) \in DeskHolds(o, {v}) <=> r = o /\ w = v
    BY InDesk
  <2>2. ASSUME NEW o \in Outputs
        PROVE  LET some == Transformers("desktop", o, desk[o].views \intersect {v})
               IN  /\ Hook("desktop", r) \notin some /\ Activation("desktop", r) \notin some
                   /\ \A w : Transformer("desktop", r, w) \in some
                            <=> r = o /\ w \in desk[o].views \intersect {v}
    BY InHolds
  <2>3. Hook("desktop", r) \in DeskGivesBack(v) <=> desk[r].views = {v}
    BY <1>1, <2>1, <2>2
  <2>4. Activation("desktop", r) \in DeskGivesBack(v) <=> desk[r].views = {v}
    BY <1>1, <2>1, <2>2
  <2>5. ASSUME NEW w \in Views
        PROVE  Transformer("desktop", r, w) \in DeskGivesBack(v) <=> w = v /\ v \in desk[r].views
    BY <1>1, <2>1, <2>2
  <2> QED
    BY <2>3, <2>4, <2>5
<1>3. ASSUME NEW r \in Outputs
      PROVE  /\ desk[r].views = {v} => desk'[r].state = "IDLE" /\ desk'[r].views = {}
             /\ desk[r].views # {v} => desk'[r].state = desk[r].state
                                       /\ desk'[r].views = desk[r].views \ {v}
             /\ desk'[r] \in [state : DeskState, views : SUBSET Windows]
  BY DEF DeskDropped, DeskIdle, DeskInv, DeskState
<1>4. desk' \in [Outputs -> [state : DeskState, views : SUBSET Windows]]
  <2>1. desk' = [o \in Outputs |-> desk'[o]]
    BY DEF DeskDropped
  <2> QED
    BY <1>3, <2>1
<1>5. ASSUME NEW r \in Outputs
      PROVE  /\ DeskRuns(r)' <=> desk'[r].views # {}
             /\ \A w \in desk'[r].views : Mapped(w)'
             /\ desk'[r].state # "NONE" <=> Instance("desktop", r)'
  <2>1. DeskRuns(r) <=> desk[r].views # {}
    BY DEF DeskInv
  <2>2. DeskRuns(r)' <=> desk'[r].views # {}
    BY <1>3, <2>1 DEF DeskRuns
  <2>3. \A w \in desk'[r].views : w \in Views /\ w # v /\ Mapped(w)
    BY <1>3 DEF DeskInv, Views
  <2>4. desk'[r].state # "NONE" <=> desk[r].state # "NONE"
    BY <1>3, <2>1 DEF DeskRuns
  <2> QED
    BY <2>2, <2>3, <2>4 DEF Mapped, Instance, DeskInv
<1>6. ASSUME NEW r \in Outputs
      PROVE  /\ Hook("desktop", r) \in held' <=> DeskRuns(r)'
             /\ Activation("desktop", r) \in held' <=> DeskRuns(r)'
             /\ \A w \in Views : Transformer("desktop", r, w) \in held' <=> w \in desk'[r].views
  <2>1. /\ Hook("desktop", r) \in held' <=> Hook("desktop", r) \in held /\ desk[r].views # {v}
        /\ Activation("desktop", r) \in held' <=> Activation("desktop", r) \in held /\ desk[r].views # {v}
        /\ \A w \in Views : Transformer("desktop", r, w) \in held'
                              <=> Transformer("desktop", r, w) \in held /\ ~(w = v /\ v \in desk[r].views)
    BY <1>2, Tokens DEF GivesBack
  <2> QED
    BY <1>3, <2>1 DEF DeskInv, DeskRuns
<1> QED
  BY <1>4, <1>5, <1>6 DEF DeskInv

LEMMA PushDropStep ==
    ASSUME PushInv, place \in [Views -> plugged \union {Unmapped}],
           NEW v \in Views, push' = PushDropped(v),
           place' = [place EXCEPT ![v] = Unmapped], UNCHANGED <<plugged, loaded>>,
           GivesBack("push", PushGivesBack(v))
    PROVE  PushInv'
<1>1. \A x : x \in PushGivesBack(v) <=>
        \E o \in Outputs : x \in Transformers("push", o, push[o].views \intersect {v})
  BY DEF PushGivesBack
<1>2. ASSUME NEW r \in Outputs
      PROVE  /\ Hook("push", r) \notin PushGivesBack(v) /\ Activation("push", r) \notin PushGivesBack(v)
             /\ \A w \in Views : Transformer("push", r, w) \in PushGivesBack(v)
                                   <=> w = v /\ v \in push[r].views
  <2>1. ASSUME NEW o \in Outputs
        PROVE  LET some == Transformers("push", o, push[o].views \intersect {v})
               IN  /\ Hook("push", r) \notin some /\ Activation("push", r) \notin some
                   /\ \A w : Transformer("push", r, w) \in some
                            <=> r = o /\ w \in push[o].views \intersect {v}
    BY InHolds
  <2> QED
    BY <1>1, <2>1
<1>3. ASSUME NEW r \in Outputs
      PROVE  /\ push'[r].state = push[r].state /\ push'[r].views = push[r].views \ {v}
             /\ push'[r] \in [state : PushState, views : SUBSET (Views \ {Panel})]
  BY DEF PushDropped, PushInv
<1>4. push' \in [Outputs -> [state : PushState, views : SUBSET (Views \ {Panel})]]
  <2>1. push' = [o \in Outputs |-> push'[o]]
    BY DEF PushDropped
  <2> QED
    BY <1>3, <2>1
<1>5. ASSUME NEW r \in Outputs
      PROVE  /\ push'[r].views # {} => PushRuns(r)'
             /\ \A w \in push'[r].views : Mapped(w)' /\ (w \notin Windows => place'[w] = r)
             /\ push'[r].state # "NONE" <=> Instance("push", r)'
  <2>1. \A w \in push'[r].views : w \in Views /\ w # v /\ place'[w] = place[w]
    BY <1>3 DEF PushInv
  <2> QED
    BY <1>3, <2>1 DEF PushInv, PushRuns, Mapped, Instance
<1>6. ASSUME NEW r \in Outputs
      PROVE  /\ Hook("push", r) \in held' <=> PushRuns(r)'
             /\ Activation("push", r) \in held' <=> PushRuns(r)'
             /\ \A w \in Views : Transformer("push", r, w) \in held' <=> w \in push'[r].views
  <2>1. /\ Hook("push", r) \in held' <=> Hook("push", r) \in held
        /\ Activation("push", r) \in held' <=> Activation("push", r) \in held
        /\ \A w \in Views : Transformer("push", r, w) \in held'
                              <=> Transformer("push", r, w) \in held /\ ~(w = v /\ v \in push[r].views)
    BY <1>2, Tokens DEF GivesBack
  <2> QED
    BY <1>3, <2>1 DEF PushInv, PushRuns
<1> QED
  BY <1>4, <1>5, <1>6 DEF PushInv

LEMMA ZoomDropStep ==
    ASSUME ZoomInv, place \in [Views -> plugged \union {Unmapped}],
           NEW v \in Views, zoom' = ZoomDropped(v),
           place' = [place EXCEPT ![v] = Unmapped], UNCHANGED <<plugged, loaded>>,
           GivesBack("zoom", ZoomGivesBack(v))
    PROVE  ZoomInv'
<1>1. \A x : x \in ZoomGivesBack(v) <=>
        \E o \in Outputs : x \in Transformers("zoom", o, zoom[o].views \intersect {v})
  BY DEF ZoomGivesBack
<1>2. ASSUME NEW r \in Outputs
      PROVE  /\ Hook("zoom", r) \notin ZoomGivesBack(v)
             /\ \A w \in Views : Transformer("zoom", r, w) \in ZoomGivesBack(v)
                                   <=> w = v /\ v \in zoom[r].views
  <2>1. ASSUME NEW o \in Outputs
        PROVE  LET some == Transformers("zoom", o, zoom[o].views \intersect {v})
               IN  /\ Hook("zoom", r) \notin some
                   /\ \A w : Transformer("zoom", r, w) \in some
                            <=> r = o /\ w \in zoom[o].views \intersect {v}
    BY InHolds
  <2> QED
    BY <1>1, <2>1
<1>3. ASSUME NEW r \in Outputs
      PROVE  /\ zoom'[r].state = zoom[r].state /\ zoom'[r].views = zoom[r].views \ {v}
             /\ zoom'[r] \in [state : ZoomState, views : SUBSET Views, grace_timer : BOOLEAN]
  <2>1. zoom[r] \in [state : ZoomState, views : SUBSET Views, grace_timer : BOOLEAN]
    BY DEF ZoomInv
  <2>2. zoom'[r] = [zoom[r] EXCEPT !.views = @ \ {v}]
    BY DEF ZoomDropped
  <2> QED
    BY <2>1, <2>2
<1>4. zoom' \in [Outputs -> [state : ZoomState, views : SUBSET Views, grace_timer : BOOLEAN]]
  <2>1. zoom' = [o \in Outputs |-> zoom'[o]]
    BY DEF ZoomDropped
  <2> QED
    BY <1>3, <2>1
<1>5. ASSUME NEW r \in Outputs
      PROVE  /\ zoom'[r].views # {} => ZoomRuns(r)'
             /\ \A w \in zoom'[r].views : Mapped(w)' /\ (w \notin Windows => place'[w] = r)
             /\ zoom'[r].state # "NONE" <=> Instance("zoom", r)'
  <2>1. \A w \in zoom'[r].views : w \in Views /\ w # v /\ place'[w] = place[w]
    BY <1>3 DEF ZoomInv
  <2> QED
    BY <1>3, <2>1 DEF ZoomInv, ZoomRuns, Mapped, Instance
<1>6. ASSUME NEW r \in Outputs
      PROVE  /\ Hook("zoom", r) \in held' <=> ZoomRuns(r)'
             /\ \A w \in Views : Transformer("zoom", r, w) \in held' <=> w \in zoom'[r].views
  <2>1. /\ Hook("zoom", r) \in held' <=> Hook("zoom", r) \in held
        /\ \A w \in Views : Transformer("zoom", r, w) \in held'
                              <=> Transformer("zoom", r, w) \in held /\ ~(w = v /\ v \in zoom[r].views)
    BY <1>2, Tokens DEF GivesBack
  <2> QED
    BY <1>3, <2>1 DEF ZoomInv, ZoomRuns
<1> QED
  BY <1>4, <1>5, <1>6 DEF ZoomInv

-----------------------------------------------------------------------------
(* A view maps: panel-push and startup-zoom of its output may take it.        *)
LEMMA PushMapStep ==
    ASSUME PushInv, place \in [Views -> plugged \union {Unmapped}],
           NEW v \in Views, NEW o \in Outputs, place[v] = Unmapped,
           place' = [place EXCEPT ![v] = o], push' = PushMapped(v, o),
           UNCHANGED <<plugged, loaded>>,
           \A x : x[2] = "push" => (x \in held' <=>
                x \in held \/ x \in Transformers("push", o, PushTaken(v, o)))
    PROVE  PushInv'
<1>1. /\ PushTaken(v, o) \subseteq {v} \ {Panel}
      /\ PushTaken(v, o) # {} => PushRuns(o)
  BY DEF PushTaken, PushTracks, PushRuns
<1>2. ASSUME NEW r \in Outputs
      PROVE  /\ push'[r].state = push[r].state
             /\ push'[r].views = push[r].views \union (IF r = o THEN PushTaken(v, o) ELSE {})
             /\ push'[r] \in [state : PushState, views : SUBSET (Views \ {Panel})]
  BY <1>1 DEF PushMapped, PushInv
<1>3. push' \in [Outputs -> [state : PushState, views : SUBSET (Views \ {Panel})]]
  <2>1. push' = [r \in Outputs |-> push'[r]]
    BY DEF PushMapped, PushInv
  <2> QED
    BY <1>2, <2>1
<1>4. ASSUME NEW r \in Outputs
      PROVE  /\ push'[r].views # {} => PushRuns(r)'
             /\ \A w \in push'[r].views : Mapped(w)' /\ (w \notin Windows => place'[w] = r)
             /\ push'[r].state # "NONE" <=> Instance("push", r)'
  <2>1. \A w \in push[r].views : w \in Views /\ w # v /\ place'[w] = place[w]
    BY DEF PushInv, Mapped
  <2>2. r = o => place'[v] = r /\ Mapped(v)'
    BY OutputSceneConstants DEF Mapped
  <2> QED
    BY <1>1, <1>2, <2>1, <2>2 DEF PushInv, PushRuns, Mapped, Instance
<1>5. ASSUME NEW r \in Outputs
      PROVE  /\ Hook("push", r) \in held' <=> PushRuns(r)'
             /\ Activation("push", r) \in held' <=> PushRuns(r)'
             /\ \A w \in Views : Transformer("push", r, w) \in held' <=> w \in push'[r].views
  <2>1. /\ Hook("push", r) \in held' <=> Hook("push", r) \in held
        /\ Activation("push", r) \in held' <=> Activation("push", r) \in held
        /\ \A w \in Views : Transformer("push", r, w) \in held'
              <=> Transformer("push", r, w) \in held \/ (r = o /\ w \in PushTaken(v, o))
    BY Tokens, InHolds
  <2> QED
    BY <1>2, <2>1 DEF PushInv, PushRuns
<1> QED
  BY <1>3, <1>4, <1>5 DEF PushInv

LEMMA ZoomMapStep ==
    ASSUME ZoomInv, place \in [Views -> plugged \union {Unmapped}],
           NEW v \in Views, NEW o \in Outputs, place[v] = Unmapped,
           place' = [place EXCEPT ![v] = o], zoom' = ZoomMapped(v, o),
           UNCHANGED <<plugged, loaded>>,
           \A x : x[2] = "zoom" => (x \in held' <=> x \in held \/ x \in ZoomTaken(v, o))
    PROVE  ZoomInv'
<1>1. \A x : x \in ZoomTaken(v, o) <=> ZoomTakes(o) /\ x \in {Hook("zoom", o), Transformer("zoom", o, v)}
  BY DEF ZoomTaken
<1>2. ASSUME NEW r \in Outputs
      PROVE  /\ r = o /\ ZoomTakes(o) => /\ zoom'[r].state = "RUNNING"
                                         /\ zoom'[r].views = zoom[r].views \union {v}
             /\ ~(r = o /\ ZoomTakes(o)) => zoom'[r] = zoom[r]
             /\ zoom'[r] \in [state : ZoomState, views : SUBSET Views, grace_timer : BOOLEAN]
  <2>1. zoom[r] \in [state : ZoomState, views : SUBSET Views, grace_timer : BOOLEAN]
    BY DEF ZoomInv
  <2>2. CASE r = o /\ ZoomTakes(o)
    <3>1. zoom'[r] = [zoom[o] EXCEPT !.state = "RUNNING", !.views = @ \union {v}]
      BY <2>2 DEF ZoomMapped, ZoomInv
    <3>2. zoom[o] \in [state : ZoomState, views : SUBSET Views, grace_timer : BOOLEAN]
      BY <2>1, <2>2
    <3>3. zoom'[r].state = "RUNNING" /\ zoom'[r].views = zoom[o].views \union {v}
      BY <3>1, <3>2
    <3>4. zoom'[r] \in [state : ZoomState, views : SUBSET Views, grace_timer : BOOLEAN]
      <4>1. zoom[o].views \union {v} \in SUBSET Views /\ "RUNNING" \in ZoomState
        BY <3>2 DEF ZoomState
      <4> QED
        BY <3>1, <3>2, <4>1
    <3> QED
      BY <2>2, <3>3, <3>4
  <2>3. CASE ~(r = o /\ ZoomTakes(o))
    BY <2>1, <2>3 DEF ZoomMapped, ZoomInv
  <2> QED
    BY <2>2, <2>3
<1>3. zoom' \in [Outputs -> [state : ZoomState, views : SUBSET Views, grace_timer : BOOLEAN]]
  <2>1. zoom' = [r \in Outputs |-> zoom'[r]]
    BY DEF ZoomMapped, ZoomInv
  <2> QED
    BY <1>2, <2>1
<1>4. ASSUME NEW r \in Outputs
      PROVE  /\ zoom'[r].views # {} => ZoomRuns(r)'
             /\ \A w \in zoom'[r].views : Mapped(w)' /\ (w \notin Windows => place'[w] = r)
             /\ zoom'[r].state # "NONE" <=> Instance("zoom", r)'
  <2>1. \A w \in zoom[r].views : w \in Views /\ w # v /\ place'[w] = place[w]
    BY DEF ZoomInv, Mapped
  <2>2. r = o => place'[v] = r /\ Mapped(v)'
    BY OutputSceneConstants DEF Mapped
  <2> QED
    BY <1>2, <2>1, <2>2 DEF ZoomInv, ZoomRuns, ZoomTakes, Mapped, Instance
<1>5. ASSUME NEW r \in Outputs
      PROVE  /\ Hook("zoom", r) \in held' <=> ZoomRuns(r)'
             /\ \A w \in Views : Transformer("zoom", r, w) \in held' <=> w \in zoom'[r].views
  <2>1. /\ Hook("zoom", r) \in held' <=> Hook("zoom", r) \in held \/ (r = o /\ ZoomTakes(o))
        /\ \A w \in Views : Transformer("zoom", r, w) \in held'
              <=> Transformer("zoom", r, w) \in held \/ (r = o /\ ZoomTakes(o) /\ w = v)
    BY <1>1, Tokens, Differ, DifferV, SameTransformer
  <2> QED
    BY <1>2, <2>1 DEF ZoomInv, ZoomRuns
<1> QED
  BY <1>3, <1>4, <1>5 DEF ZoomInv

-----------------------------------------------------------------------------
(* Instances of a plugin are made on the outputs os, and ended on them.       *)
LEMMA DeskInitStep ==
    ASSUME DeskInv, NEW os \in SUBSET Outputs,
           \A o \in os : ~Instance("desktop", o),
           \A o \in Outputs : Instance("desktop", o)' <=> Instance("desktop", o) \/ o \in os,
           desk' = [o \in Outputs |-> IF o \in os THEN DeskIdle ELSE desk[o]],
           UNCHANGED <<place, held>>
    PROVE  DeskInv'
<1>1. /\ DeskIdle \in [state : DeskState, views : SUBSET Windows]
      /\ DeskIdle.state \in {"IDLE", "PENDING"} /\ DeskIdle.views = {}
  BY DEF DeskIdle, DeskState
<1>2. desk' \in [Outputs -> [state : DeskState, views : SUBSET Windows]]
  BY <1>1 DEF DeskInv
<1>3. ASSUME NEW r \in Outputs, r \in os
      PROVE  /\ desk'[r].state \in {"IDLE", "PENDING"} /\ desk'[r].views = {} /\ ~DeskRuns(r)'
             /\ ~DeskRuns(r) /\ desk[r].views = {}
  BY <1>1, <1>3 DEF DeskInv, DeskRuns
<1>4. ASSUME NEW r \in Outputs, r \notin os
      PROVE  desk'[r] = desk[r] /\ (DeskRuns(r)' <=> DeskRuns(r))
  BY <1>4 DEF DeskRuns
<1> QED
  BY <1>2, <1>3, <1>4 DEF DeskInv, Mapped

LEMMA DeskFiniStep ==
    ASSUME DeskInv, NEW os \in SUBSET Outputs,
           \A o \in Outputs : Instance("desktop", o)' <=> Instance("desktop", o) /\ o \notin os,
           desk' = DeskFini(os), GivesBack("desktop", DeskHeldOn(os)),
           \A r \in Outputs \ os : \A v \in desk[r].views : Mapped(v)'
    PROVE  DeskInv'
<1>1. /\ DeskNone \in [state : DeskState, views : SUBSET Windows]
      /\ DeskNone.state = "NONE" /\ DeskNone.views = {}
  BY DEF DeskNone, DeskState
<1>2. desk' \in [Outputs -> [state : DeskState, views : SUBSET Windows]]
  BY <1>1 DEF DeskFini, DeskInv
<1>3. ASSUME NEW r \in Outputs, r \in os
      PROVE  desk'[r].state = "NONE" /\ desk'[r].views = {} /\ ~DeskRuns(r)'
  BY <1>1, <1>3 DEF DeskFini, DeskRuns
<1>4. ASSUME NEW r \in Outputs, r \notin os
      PROVE  desk'[r] = desk[r] /\ (DeskRuns(r)' <=> DeskRuns(r))
  BY <1>4 DEF DeskFini, DeskRuns
<1>5. ASSUME NEW r \in Outputs
      PROVE  /\ Hook("desktop", r) \in DeskHeldOn(os) <=> r \in os
             /\ Activation("desktop", r) \in DeskHeldOn(os) <=> r \in os
             /\ \A w \in Views : Transformer("desktop", r, w) \in DeskHeldOn(os)
                                   <=> r \in os /\ w \in desk[r].views
  <2>1. \A x : x \in DeskHeldOn(os) <=> \E o \in os : x \in DeskHolds(o, desk[o].views)
    BY DEF DeskHeldOn
  <2>2. ASSUME NEW o \in os
        PROVE  /\ Hook("desktop", r) \in DeskHolds(o, desk[o].views) <=> r = o
               /\ Activation("desktop", r) \in DeskHolds(o, desk[o].views) <=> r = o
               /\ \A w : Transformer("desktop", r, w) \in DeskHolds(o, desk[o].views)
                           <=> r = o /\ w \in desk[o].views
    BY InDesk
  <2> QED
    BY <2>1, <2>2
<1>6. ASSUME NEW r \in Outputs
      PROVE  /\ Hook("desktop", r) \in held' <=> DeskRuns(r)'
             /\ Activation("desktop", r) \in held' <=> DeskRuns(r)'
             /\ \A w \in Views : Transformer("desktop", r, w) \in held' <=> w \in desk'[r].views
  <2>1. /\ Hook("desktop", r) \in held' <=> Hook("desktop", r) \in held /\ r \notin os
        /\ Activation("desktop", r) \in held' <=> Activation("desktop", r) \in held /\ r \notin os
        /\ \A w \in Views : Transformer("desktop", r, w) \in held'
              <=> Transformer("desktop", r, w) \in held /\ ~(r \in os /\ w \in desk[r].views)
    BY <1>5, Tokens DEF GivesBack
  <2> QED
    BY <1>3, <1>4, <2>1 DEF DeskInv
<1>7. ASSUME NEW r \in Outputs
      PROVE  /\ DeskRuns(r)' <=> desk'[r].views # {}
             /\ \A v \in desk'[r].views : Mapped(v)'
             /\ desk'[r].state # "NONE" <=> Instance("desktop", r)'
  BY <1>3, <1>4 DEF DeskInv
<1> QED
  BY <1>2, <1>6, <1>7 DEF DeskInv

LEMMA PushInitStep ==
    ASSUME PushInv, NEW os \in SUBSET Outputs,
           \A o \in os : ~Instance("push", o),
           \A o \in Outputs : Instance("push", o)' <=> Instance("push", o) \/ o \in os,
           push' = [o \in Outputs |-> IF o \in os THEN PushIdle ELSE push[o]],
           UNCHANGED <<place, held>>
    PROVE  PushInv'
<1>1. /\ PushIdle \in [state : PushState, views : SUBSET (Views \ {Panel})]
      /\ PushIdle.state \in {"IDLE", "PENDING"} /\ PushIdle.views = {}
  BY DEF PushIdle, PushState
<1>2. push' \in [Outputs -> [state : PushState, views : SUBSET (Views \ {Panel})]]
  BY <1>1 DEF PushInv
<1>3. ASSUME NEW r \in Outputs, r \in os
      PROVE  /\ push'[r].state \in {"IDLE", "PENDING"} /\ push'[r].views = {} /\ ~PushRuns(r)'
             /\ ~PushRuns(r) /\ push[r].views = {}
  BY <1>1, <1>3 DEF PushInv, PushRuns
<1>4. ASSUME NEW r \in Outputs, r \notin os
      PROVE  push'[r] = push[r] /\ (PushRuns(r)' <=> PushRuns(r))
  BY <1>4 DEF PushRuns
<1> QED
  BY <1>2, <1>3, <1>4 DEF PushInv, Mapped

LEMMA PushFiniStep ==
    ASSUME PushInv, NEW os \in SUBSET Outputs,
           \A o \in Outputs : Instance("push", o)' <=> Instance("push", o) /\ o \notin os,
           push' = PushFini(os), GivesBack("push", PushHeldOn(os)),
           \A r \in Outputs \ os : \A v \in push[r].views : Mapped(v)' /\ (v \notin Windows => place'[v] = r)
    PROVE  PushInv'
<1>1. /\ PushNone \in [state : PushState, views : SUBSET (Views \ {Panel})]
      /\ PushNone.state = "NONE" /\ PushNone.views = {}
  BY DEF PushNone, PushState
<1>2. push' \in [Outputs -> [state : PushState, views : SUBSET (Views \ {Panel})]]
  BY <1>1 DEF PushFini, PushInv
<1>3. ASSUME NEW r \in Outputs, r \in os
      PROVE  push'[r].state = "NONE" /\ push'[r].views = {} /\ ~PushRuns(r)'
  BY <1>1, <1>3 DEF PushFini, PushRuns
<1>4. ASSUME NEW r \in Outputs, r \notin os
      PROVE  push'[r] = push[r] /\ (PushRuns(r)' <=> PushRuns(r))
  BY <1>4 DEF PushFini, PushRuns
<1>5. ASSUME NEW r \in Outputs
      PROVE  /\ Hook("push", r) \in PushHeldOn(os) <=> r \in os
             /\ Activation("push", r) \in PushHeldOn(os) <=> r \in os
             /\ \A w \in Views : Transformer("push", r, w) \in PushHeldOn(os)
                                   <=> r \in os /\ w \in push[r].views
  <2>1. \A x : x \in PushHeldOn(os) <=> \E o \in os : x \in PushHolds(o, push[o].views)
    BY DEF PushHeldOn
  <2>2. ASSUME NEW o \in os
        PROVE  /\ Hook("push", r) \in PushHolds(o, push[o].views) <=> r = o
               /\ Activation("push", r) \in PushHolds(o, push[o].views) <=> r = o
               /\ \A w : Transformer("push", r, w) \in PushHolds(o, push[o].views)
                           <=> r = o /\ w \in push[o].views
    BY InPush
  <2> QED
    BY <2>1, <2>2
<1>6. ASSUME NEW r \in Outputs
      PROVE  /\ Hook("push", r) \in held' <=> PushRuns(r)'
             /\ Activation("push", r) \in held' <=> PushRuns(r)'
             /\ \A w \in Views : Transformer("push", r, w) \in held' <=> w \in push'[r].views
  <2>1. /\ Hook("push", r) \in held' <=> Hook("push", r) \in held /\ r \notin os
        /\ Activation("push", r) \in held' <=> Activation("push", r) \in held /\ r \notin os
        /\ \A w \in Views : Transformer("push", r, w) \in held'
              <=> Transformer("push", r, w) \in held /\ ~(r \in os /\ w \in push[r].views)
    BY <1>5, Tokens DEF GivesBack
  <2> QED
    BY <1>3, <1>4, <2>1 DEF PushInv
<1>7. ASSUME NEW r \in Outputs
      PROVE  /\ push'[r].views # {} => PushRuns(r)'
             /\ \A v \in push'[r].views : Mapped(v)' /\ (v \notin Windows => place'[v] = r)
             /\ push'[r].state # "NONE" <=> Instance("push", r)'
  BY <1>3, <1>4 DEF PushInv
<1> QED
  BY <1>2, <1>6, <1>7 DEF PushInv

LEMMA ZoomInitStep ==
    ASSUME ZoomInv, NEW os \in SUBSET Outputs,
           \A o \in os : ~Instance("zoom", o),
           \A o \in Outputs : Instance("zoom", o)' <=> Instance("zoom", o) \/ o \in os,
           zoom' = [o \in Outputs |-> IF o \in os THEN ZoomPending ELSE zoom[o]],
           UNCHANGED <<place, held>>
    PROVE  ZoomInv'
<1>1. /\ ZoomPending \in [state : ZoomState, views : SUBSET Views, grace_timer : BOOLEAN]
      /\ ZoomPending.state \in {"IDLE", "PENDING"} /\ ZoomPending.views = {}
  BY DEF ZoomPending, ZoomNone, ZoomState
<1>2. zoom' \in [Outputs -> [state : ZoomState, views : SUBSET Views, grace_timer : BOOLEAN]]
  BY <1>1 DEF ZoomInv
<1>3. ASSUME NEW r \in Outputs, r \in os
      PROVE  /\ zoom'[r].state \in {"IDLE", "PENDING"} /\ zoom'[r].views = {} /\ ~ZoomRuns(r)'
             /\ ~ZoomRuns(r) /\ zoom[r].views = {}
  BY <1>1, <1>3 DEF ZoomInv, ZoomRuns
<1>4. ASSUME NEW r \in Outputs, r \notin os
      PROVE  zoom'[r] = zoom[r] /\ (ZoomRuns(r)' <=> ZoomRuns(r))
  BY <1>4 DEF ZoomRuns
<1> QED
  BY <1>2, <1>3, <1>4 DEF ZoomInv, Mapped

LEMMA ZoomFiniStep ==
    ASSUME ZoomInv, NEW os \in SUBSET Outputs,
           \A o \in Outputs : Instance("zoom", o)' <=> Instance("zoom", o) /\ o \notin os,
           zoom' = ZoomFini(os), GivesBack("zoom", ZoomHeldOn(os)),
           \A r \in Outputs \ os : \A v \in zoom[r].views : Mapped(v)' /\ (v \notin Windows => place'[v] = r)
    PROVE  ZoomInv'
<1>1. /\ ZoomNone \in [state : ZoomState, views : SUBSET Views, grace_timer : BOOLEAN]
      /\ ZoomNone.state = "NONE" /\ ZoomNone.views = {}
  BY DEF ZoomNone, ZoomState
<1>2. zoom' \in [Outputs -> [state : ZoomState, views : SUBSET Views, grace_timer : BOOLEAN]]
  BY <1>1 DEF ZoomFini, ZoomInv
<1>3. ASSUME NEW r \in Outputs, r \in os
      PROVE  zoom'[r].state = "NONE" /\ zoom'[r].views = {} /\ ~ZoomRuns(r)'
  BY <1>1, <1>3 DEF ZoomFini, ZoomRuns
<1>4. ASSUME NEW r \in Outputs, r \notin os
      PROVE  zoom'[r] = zoom[r] /\ (ZoomRuns(r)' <=> ZoomRuns(r))
  BY <1>4 DEF ZoomFini, ZoomRuns
<1>5. ASSUME NEW r \in Outputs
      PROVE  /\ Hook("zoom", r) \in ZoomHeldOn(os) <=> r \in os
             /\ \A w \in Views : Transformer("zoom", r, w) \in ZoomHeldOn(os)
                                   <=> r \in os /\ w \in zoom[r].views
  <2>1. \A x : x \in ZoomHeldOn(os) <=> \E o \in os : x \in ZoomHolds(o, zoom[o].views)
    BY DEF ZoomHeldOn
  <2>2. ASSUME NEW o \in os
        PROVE  /\ Hook("zoom", r) \in ZoomHolds(o, zoom[o].views) <=> r = o
               /\ \A w : Transformer("zoom", r, w) \in ZoomHolds(o, zoom[o].views)
                           <=> r = o /\ w \in zoom[o].views
    BY InZoom
  <2> QED
    BY <2>1, <2>2
<1>6. ASSUME NEW r \in Outputs
      PROVE  /\ Hook("zoom", r) \in held' <=> ZoomRuns(r)'
             /\ \A w \in Views : Transformer("zoom", r, w) \in held' <=> w \in zoom'[r].views
  <2>1. /\ Hook("zoom", r) \in held' <=> Hook("zoom", r) \in held /\ r \notin os
        /\ \A w \in Views : Transformer("zoom", r, w) \in held'
              <=> Transformer("zoom", r, w) \in held /\ ~(r \in os /\ w \in zoom[r].views)
    BY <1>5, Tokens DEF GivesBack
  <2> QED
    BY <1>3, <1>4, <2>1 DEF ZoomInv
<1>7. ASSUME NEW r \in Outputs
      PROVE  /\ zoom'[r].views # {} => ZoomRuns(r)'
             /\ \A v \in zoom'[r].views : Mapped(v)' /\ (v \notin Windows => place'[v] = r)
             /\ zoom'[r].state # "NONE" <=> Instance("zoom", r)'
  BY <1>3, <1>4 DEF ZoomInv
<1> QED
  BY <1>2, <1>6, <1>7 DEF ZoomInv

LEMMA NightInitStep ==
    ASSUME NightInv, NEW os \in SUBSET Outputs,
           \A o \in os : ~Instance("night", o),
           \A o \in Outputs : Instance("night", o)' <=> Instance("night", o) \/ o \in os,
           night' = [o \in Outputs |-> IF o \in os THEN "OFF" ELSE night[o]],
           UNCHANGED <<held, enabled>>
    PROVE  NightInv'
<1>1. night' \in [Outputs -> NightState]
  BY DEF NightInv, NightState
<1>2. ASSUME NEW r \in Outputs, r \in os
      PROVE  night'[r] = "OFF" /\ ~NightRuns(r)' /\ ~NightRuns(r) /\ ~Lit(r)'
  BY <1>2 DEF NightInv, NightRuns, Lit
<1>3. ASSUME NEW r \in Outputs, r \notin os
      PROVE  night'[r] = night[r] /\ (NightRuns(r)' <=> NightRuns(r)) /\ (Lit(r)' <=> Lit(r))
  BY <1>3 DEF NightRuns, Lit
<1> QED
  BY <1>1, <1>2, <1>3 DEF NightInv

LEMMA NightFiniStep ==
    ASSUME NightInv, NEW os \in SUBSET Outputs,
           \A o \in Outputs : Instance("night", o)' <=> Instance("night", o) /\ o \notin os,
           night' = NightFini(os), GivesBack("night", NightHeldOn(os)),
           enabled' \in BOOLEAN, enabled' # enabled => \A o \in Outputs : ~Instance("night", o)'
    PROVE  NightInv'
<1>1. night' \in [Outputs -> NightState]
  BY DEF NightFini, NightInv, NightState
<1>2. ASSUME NEW r \in Outputs, r \in os
      PROVE  night'[r] = "NONE" /\ ~NightRuns(r)' /\ ~Lit(r)'
  BY <1>2 DEF NightFini, NightRuns, Lit
<1>3. ASSUME NEW r \in Outputs, r \notin os
      PROVE  night'[r] = night[r] /\ (NightRuns(r)' <=> NightRuns(r)) /\ (Lit(r)' <=> Lit(r))
  BY <1>3 DEF NightFini, NightRuns, Lit
<1>4. ASSUME NEW r \in Outputs
      PROVE  /\ Hook("night", r) \in NightHeldOn(os) <=> r \in os
             /\ TintNode("night", r) \in NightHeldOn(os) <=> r \in os
  <2>1. \A x : x \in NightHeldOn(os) <=> \E o \in os : x \in NightHolds(o)
    BY DEF NightHeldOn
  <2> QED
    BY <2>1, InNight
<1>5. ASSUME NEW r \in Outputs
      PROVE  /\ Hook("night", r) \in held' <=> NightRuns(r)'
             /\ TintNode("night", r) \in held' <=> NightRuns(r)'
  <2>1. /\ Hook("night", r) \in held' <=> Hook("night", r) \in held /\ r \notin os
        /\ TintNode("night", r) \in held' <=> TintNode("night", r) \in held /\ r \notin os
    BY <1>4, Tokens DEF GivesBack
  <2> QED
    BY <1>2, <1>3, <2>1 DEF NightInv
<1>6. ASSUME NEW r \in Outputs
      PROVE  /\ Lit(r)' => enabled'
             /\ night'[r] # "NONE" <=> Instance("night", r)'
  <2>1. night'[r] # "NONE" <=> Instance("night", r)'
    BY <1>2, <1>3 DEF NightInv
  <2>2. Lit(r)' => night'[r] # "NONE"
    BY DEF Lit
  <2>3. Lit(r)' => Lit(r)
    BY <1>2, <1>3
  <2> QED
    BY <2>1, <2>2, <2>3 DEF NightInv
<1> QED
  BY <1>1, <1>5, <1>6 DEF NightInv

-----------------------------------------------------------------------------
LEMMA InitIInv == Init => IInv
<1> SUFFICES ASSUME Init PROVE WorldInv /\ DeskInv /\ PushInv /\ ZoomInv /\ NightInv
  BY DEF IInv
<1>a. /\ plugged \in (SUBSET Outputs) \ {{}} /\ loaded = listed /\ held = {} /\ minimized = {}
      /\ place = [v \in Views |-> Unmapped] /\ panel = NewPanel
  BY DEF Init
<1>b. plugged \subseteq Outputs /\ plugged # {}
  BY <1>a
<1>0. /\ plugged \subseteq Outputs /\ plugged # {} /\ loaded = listed /\ held = {}
      /\ \A v \in Views : place[v] = Unmapped
  BY <1>a, <1>b
<1>1. WorldInv
  BY <1>a, <1>b DEF WorldInv, NewPanel
<1>2. DeskInv
  <2>1. \A o \in Outputs : desk[o] = IF o \in plugged /\ "desktop" \in listed THEN DeskIdle ELSE DeskNone
    BY DEF Init, Started
  <2>2. desk \in [Outputs -> [state : DeskState, views : SUBSET Windows]]
    BY DEF Init, Started, DeskIdle, DeskNone, DeskState
  <2> QED
    BY <1>0, <2>1, <2>2 DEF DeskInv, DeskNone, DeskIdle, DeskRuns, Instance
<1>3. PushInv
  <2>1. \A o \in Outputs : push[o] = IF o \in plugged /\ "push" \in listed THEN PushIdle ELSE PushNone
    BY DEF Init, Started
  <2>2. push \in [Outputs -> [state : PushState, views : SUBSET (Views \ {Panel})]]
    BY DEF Init, Started, PushIdle, PushNone, PushState
  <2> QED
    BY <1>0, <2>1, <2>2 DEF PushInv, PushNone, PushIdle, PushRuns, Instance
<1>4. ZoomInv
  <2>1. /\ ZoomNone \in [state : ZoomState, views : SUBSET Views, grace_timer : BOOLEAN]
        /\ ZoomPending \in [state : ZoomState, views : SUBSET Views, grace_timer : BOOLEAN]
        /\ ZoomNone.state = "NONE" /\ ZoomNone.views = {}
        /\ ZoomPending.state = "PENDING" /\ ZoomPending.views = {}
    BY DEF ZoomNone, ZoomPending, ZoomState
  <2>2. \A o \in Outputs : zoom[o] = IF o \in plugged /\ "zoom" \in listed THEN ZoomPending ELSE ZoomNone
    BY DEF Init, Started
  <2>3. zoom \in [Outputs -> [state : ZoomState, views : SUBSET Views, grace_timer : BOOLEAN]]
    BY <2>1 DEF Init, Started
  <2> QED
    BY <1>0, <2>1, <2>2, <2>3 DEF ZoomInv, ZoomRuns, Instance
<1>5. NightInv
  BY <1>0 DEF Init, Started, NightInv, NightState, NightRuns, Lit, Instance
<1> QED
  BY <1>1, <1>2, <1>3, <1>4, <1>5

(* What the steps of one plugin leave alone.                                  *)
LEMMA OnePlugin ==
    ASSUME IInv, UNCHANGED <<world, listed, loaded>>, held' \subseteq Holdings,
           panel' \in [inside : BOOLEAN, target : BOOLEAN, slides : BOOLEAN, timer : BOOLEAN],
           NEW p \in {"desktop", "push", "zoom", "night"}, Touches({p}),
           p # "desktop" => UNCHANGED desk, p = "desktop" => DeskInv',
           p # "push" => UNCHANGED push, p = "push" => PushInv',
           p # "zoom" => UNCHANGED zoom, p = "zoom" => ZoomInv',
           p # "night" => UNCHANGED <<night, enabled>>, p = "night" => NightInv'
    PROVE  IInv'
<1>1. UNCHANGED <<plugged, place, minimized, listed, loaded>> /\ ViewsStay
  BY DEF world, ViewsStay, Mapped
<1>2. WorldInv'
  BY <1>1 DEF IInv, WorldInv
<1>3. DeskInv' /\ PushInv' /\ ZoomInv' /\ NightInv'
  BY <1>1, DeskStays, PushStays, ZoomStays, NightStays DEF IInv
<1> QED
  BY <1>2, <1>3 DEF IInv

(* Instances are ended on the outputs os for the plugins ps, and nowhere else *)
(* is one lost.                                                               *)
LEMMA FiniStep ==
    ASSUME IInv, NEW os \in SUBSET Outputs, NEW ps \in SUBSET loaded, FiniInstances(os, ps),
           plugged' \subseteq plugged, UNCHANGED listed,
           \A p \in {"desktop", "push", "zoom", "night"}, o \in Outputs :
              Instance(p, o)' <=> Instance(p, o) /\ ~(p \in ps /\ o \in os),
           \A r \in plugged', v \in Views :
              /\ v \in Windows /\ Mapped(v) => Mapped(v)'
              /\ v \notin Windows /\ place[v] = r => place'[v] = r,
           enabled' \in BOOLEAN, enabled' # enabled => \A o \in Outputs : ~Instance("night", o)'
    PROVE  /\ DeskInv' /\ PushInv' /\ ZoomInv' /\ NightInv'
           /\ held' \subseteq Holdings
<1> DEFINE on(p) == IF p \in ps THEN os ELSE {}
<1>1. /\ desk' = DeskFini(on("desktop")) /\ push' = PushFini(on("push"))
      /\ zoom' = ZoomFini(on("zoom")) /\ night' = NightFini(on("night"))
      /\ held' = held \ (DeskHeldOn(on("desktop")) \union PushHeldOn(on("push"))
                         \union ZoomHeldOn(on("zoom")) \union NightHeldOn(on("night")))
  BY DEF FiniInstances
<1>2. \A p : on(p) \in SUBSET Outputs
  OBVIOUS
<1>3. \A p \in {"desktop", "push", "zoom", "night"}, o \in Outputs :
        Instance(p, o)' <=> Instance(p, o) /\ o \notin on(p)
  OBVIOUS
<1> HIDE DEF on
<1>4. \A x \in DeskHeldOn(on("desktop")) : x[2] = "desktop"
  BY InDesk DEF DeskHeldOn
<1>5. \A x \in PushHeldOn(on("push")) : x[2] = "push"
  BY InPush DEF PushHeldOn
<1>6. \A x \in ZoomHeldOn(on("zoom")) : x[2] = "zoom"
  BY InZoom DEF ZoomHeldOn
<1>7. \A x \in NightHeldOn(on("night")) : x[2] = "night"
  BY InNight DEF NightHeldOn
<1>8. /\ GivesBack("desktop", DeskHeldOn(on("desktop"))) /\ GivesBack("push", PushHeldOn(on("push")))
      /\ GivesBack("zoom", ZoomHeldOn(on("zoom"))) /\ GivesBack("night", NightHeldOn(on("night")))
  BY <1>1, <1>4, <1>5, <1>6, <1>7 DEF GivesBack
<1>9. DeskInv'
  <2>1. \A r \in Outputs \ on("desktop") : \A v \in desk[r].views : Mapped(v)'
    <3> SUFFICES ASSUME NEW r \in Outputs \ on("desktop"), NEW v \in desk[r].views PROVE Mapped(v)'
      OBVIOUS
    <3>1. v \in Views /\ v \in Windows /\ Mapped(v) /\ DeskRuns(r)
      BY DEF IInv, DeskInv, Views
    <3>2. Instance("desktop", r)
      BY <3>1 DEF IInv, DeskInv, DeskRuns
    <3>3. r \in plugged'
      BY <1>3, <3>2 DEF Instance
    <3> QED
      BY <3>1, <3>3, OutputSceneConstants DEF Mapped, IInv, WorldInv
  <2> QED
    BY <1>1, <1>2, <1>3, <1>8, <2>1, DeskFiniStep DEF IInv
<1>10. PushInv'
  <2>1. \A r \in Outputs \ on("push") : \A v \in push[r].views :
            Mapped(v)' /\ (v \notin Windows => place'[v] = r)
    <3> SUFFICES ASSUME NEW r \in Outputs \ on("push"), NEW v \in push[r].views
                 PROVE  Mapped(v)' /\ (v \notin Windows => place'[v] = r)
      OBVIOUS
    <3>1. v \in Views /\ Mapped(v) /\ PushRuns(r) /\ (v \notin Windows => place[v] = r)
      BY DEF IInv, PushInv
    <3>2. Instance("push", r)
      BY <3>1 DEF IInv, PushInv, PushRuns
    <3>3. r \in plugged'
      BY <1>3, <3>2 DEF Instance
    <3> QED
      BY <3>1, <3>3, OutputSceneConstants DEF Mapped, IInv, WorldInv
  <2> QED
    BY <1>1, <1>2, <1>3, <1>8, <2>1, PushFiniStep DEF IInv
<1>11. ZoomInv'
  <2>1. \A r \in Outputs \ on("zoom") : \A v \in zoom[r].views :
            Mapped(v)' /\ (v \notin Windows => place'[v] = r)
    <3> SUFFICES ASSUME NEW r \in Outputs \ on("zoom"), NEW v \in zoom[r].views
                 PROVE  Mapped(v)' /\ (v \notin Windows => place'[v] = r)
      OBVIOUS
    <3>1. v \in Views /\ Mapped(v) /\ ZoomRuns(r) /\ (v \notin Windows => place[v] = r)
      BY DEF IInv, ZoomInv
    <3>2. Instance("zoom", r)
      BY <3>1 DEF IInv, ZoomInv, ZoomRuns
    <3>3. r \in plugged'
      BY <1>3, <3>2 DEF Instance
    <3> QED
      BY <3>1, <3>3, OutputSceneConstants DEF Mapped, IInv, WorldInv
  <2> QED
    BY <1>1, <1>2, <1>3, <1>8, <2>1, ZoomFiniStep DEF IInv
<1>12. NightInv'
  BY <1>1, <1>2, <1>3, <1>8, NightFiniStep DEF IInv
<1> QED
  BY <1>1, <1>9, <1>10, <1>11, <1>12 DEF IInv, WorldInv

(* Instances are made where there were none.                                  *)
LEMMA InitStep ==
    ASSUME IInv, NEW os \in SUBSET Outputs, NEW ps, InitInstances(os, ps),
           \A p \in {"desktop", "push", "zoom", "night"}, o \in Outputs :
              Instance(p, o)' <=> Instance(p, o) \/ (p \in ps /\ o \in os),
           \A p \in ps, o \in os : ~Instance(p, o),
           UNCHANGED <<place, held, enabled>>
    PROVE  DeskInv' /\ PushInv' /\ ZoomInv' /\ NightInv'
<1> DEFINE on(p) == IF p \in ps THEN os ELSE {}
<1>1. /\ desk'  = [o \in Outputs |-> IF o \in on("desktop") THEN DeskIdle ELSE desk[o]]
      /\ push'  = [o \in Outputs |-> IF o \in on("push") THEN PushIdle ELSE push[o]]
      /\ zoom'  = [o \in Outputs |-> IF o \in on("zoom") THEN ZoomPending ELSE zoom[o]]
      /\ night' = [o \in Outputs |-> IF o \in on("night") THEN "OFF" ELSE night[o]]
  BY DEF InitInstances
<1>2. \A p : on(p) \in SUBSET Outputs /\ \A o \in on(p) : ~Instance(p, o)
  OBVIOUS
<1>3. \A p \in {"desktop", "push", "zoom", "night"}, o \in Outputs :
        Instance(p, o)' <=> Instance(p, o) \/ o \in on(p)
  OBVIOUS
<1> HIDE DEF on
<1>4. DeskInv'
  BY <1>1, <1>2, <1>3, DeskInitStep DEF IInv
<1>5. PushInv'
  BY <1>1, <1>2, <1>3, PushInitStep DEF IInv
<1>6. ZoomInv'
  BY <1>1, <1>2, <1>3, ZoomInitStep DEF IInv
<1>7. NightInv'
  BY <1>1, <1>2, <1>3, NightInitStep DEF IInv
<1> QED
  BY <1>4, <1>5, <1>6, <1>7

(* The panel reaches panel-push by its verbs alone.                           *)
LEMMA PanelSteps ==
    ASSUME IInv, PointerEnters \/ PointerLeaves \/ CollapseTimeout \/ SlideEnds
    PROVE  IInv'
<1> DEFINE PanelType == [inside : BOOLEAN, target : BOOLEAN, slides : BOOLEAN, timer : BOOLEAN]
<1>1. UNCHANGED <<world, desk, zoom, night, enabled, listed, loaded>> /\ panel \in PanelType
  BY DEF PointerEnters, PointerLeaves, CollapseTimeout, SlideEnds, PanelStep, IInv, WorldInv
<1>2. ASSUME NEW reveal \in BOOLEAN, PushIpc(reveal)
      PROVE  PushInv' /\ Touches({"push"}) /\ held' \subseteq Holdings
  <2>1. CASE UNCHANGED <<push, held>>
    BY <1>1, <2>1, PushStep DEF IInv, WorldInv, PushInv, PushRuns, Touches, Instance, Mapped, world
  <2>2. ASSUME NEW o \in plugged, PushIpcStart(o) \/ PushIpcStop(o)
        PROVE  PushInv' /\ Touches({"push"}) /\ held' \subseteq Holdings
    BY <1>1, <2>2, PushStep DEF IInv, WorldInv
  <2> QED
    BY <1>2, <2>1, <2>2 DEF PushIpc
<1>3. ASSUME NEW reveal \in BOOLEAN, NEW now \in PanelType, set_reveal(reveal, now)
      PROVE  panel' \in PanelType /\ (PushIpc(reveal) \/ UNCHANGED <<push, held>>)
  BY <1>3 DEF set_reveal
<1>4. UNCHANGED <<push, held>> => PushInv' /\ Touches({"push"}) /\ held' \subseteq Holdings
  BY <1>1 DEF IInv, WorldInv, PushInv, PushRuns, Touches, Instance, Mapped, world
<1>5. panel' \in PanelType /\ ((\E reveal \in BOOLEAN : PushIpc(reveal)) \/ UNCHANGED <<push, held>>)
  <2>1. CASE PointerEnters
    <3>1. [panel EXCEPT !.inside = TRUE, !.timer = FALSE] \in PanelType
      BY <1>1
    <3> QED
      BY <1>3, <2>1, <3>1 DEF PointerEnters
  <2>2. CASE PointerLeaves
    BY <1>1, <2>2 DEF PointerLeaves
  <2>3. CASE CollapseTimeout
    <3>1. [panel EXCEPT !.timer = FALSE] \in PanelType
      BY <1>1
    <3> QED
      BY <1>3, <2>3, <3>1 DEF CollapseTimeout
  <2>4. CASE SlideEnds
    BY <1>1, <2>4 DEF SlideEnds
  <2> QED
    BY <2>1, <2>2, <2>3, <2>4
<1>6. PushInv' /\ Touches({"push"}) /\ held' \subseteq Holdings
  BY <1>2, <1>4, <1>5
<1> QED
  BY <1>1, <1>5, <1>6, OnePlugin

LEMMA NextIInv == IInv /\ [Next]_vars => IInv'
<1> SUFFICES ASSUME IInv, [Next]_vars PROVE IInv'
  OBVIOUS
<1> USE DEF IInv
<1> DEFINE PanelType == [inside : BOOLEAN, target : BOOLEAN, slides : BOOLEAN, timer : BOOLEAN]
<1>0. panel \in PanelType /\ NewPanel \in PanelType
  BY DEF WorldInv, NewPanel
<1>1. ASSUME NEW o \in Outputs, Request(o) PROVE IInv'
  <2>1. UNCHANGED <<world, listed, loaded, panel, zoom, night, enabled>>
    BY <1>1 DEF Request
  <2>2. \/ DeskToggle(o) /\ UNCHANGED push
        \/ PushToggle(o) /\ UNCHANGED desk
    BY <1>1 DEF Request
  <2> QED
    BY <1>0, <2>1, <2>2, DeskStep, PushStep, OnePlugin
<1>2. ASSUME NEW o \in Outputs, OutputInhibited(o) PROVE IInv'
  <2>1. UNCHANGED <<world, listed, loaded, panel, zoom, night, enabled>>
    BY <1>2 DEF OutputInhibited
  <2>2. \/ DeskCancel(o) /\ UNCHANGED push
        \/ PushCancel(o) /\ UNCHANGED desk
    BY <1>2 DEF OutputInhibited
  <2> QED
    BY <1>0, <2>1, <2>2, DeskStep, PushStep, OnePlugin
<1>3. ASSUME NEW o \in Outputs, FrameOfDesk(o) PROVE IInv'
  BY <1>0, <1>3, DeskStep, OnePlugin DEF FrameOfDesk
<1>4. ASSUME NEW o \in Outputs, FrameOfPush(o) PROVE IInv'
  BY <1>0, <1>4, PushStep, OnePlugin DEF FrameOfPush
<1>5. ASSUME NEW o \in Outputs, FrameOfZoom(o) \/ GraceExpires(o) PROVE IInv'
  BY <1>0, <1>5, ZoomStep, OnePlugin DEF FrameOfZoom, GraceExpires
<1>6. ASSUME NightToggled \/ \E o \in Outputs : FrameOfNight(o) PROVE IInv'
  BY <1>0, <1>6, NightStep, OnePlugin DEF FrameOfNight, NightToggled
<1>7. CASE PointerEnters \/ PointerLeaves \/ CollapseTimeout \/ SlideEnds
  BY <1>7, PanelSteps
<1>8. ASSUME NEW v \in Views, NEW o \in Outputs, ViewMaps(v, o) PROVE IInv'
  <2>1. /\ place[v] = Unmapped /\ o \in plugged /\ place' = [place EXCEPT ![v] = o]
        /\ push' = PushMapped(v, o) /\ zoom' = ZoomMapped(v, o)
        /\ held' = held \union Transformers("push", o, PushTaken(v, o)) \union ZoomTaken(v, o)
        /\ UNCHANGED <<plugged, minimized, desk, night, enabled, listed, loaded, panel>>
    BY <1>8 DEF ViewMaps
  <2>2. /\ \A x \in Transformers("push", o, PushTaken(v, o)) : x[2] = "push"
        /\ \A x \in ZoomTaken(v, o) : x[2] = "zoom"
    <3>1. \A x \in Transformers("push", o, PushTaken(v, o)) : x[2] = "push"
      BY InHolds
    <3>2. \A x \in ZoomTaken(v, o) : x = Hook("zoom", o) \/ x = Transformer("zoom", o, v)
      BY DEF ZoomTaken
    <3>3. Hook("zoom", o)[2] = "zoom" /\ Transformer("zoom", o, v)[2] = "zoom"
      BY Tokens
    <3> QED
      BY <3>1, <3>2, <3>3
  <2>3. /\ \A x : x[2] = "push" => (x \in held' <=>
                x \in held \/ x \in Transformers("push", o, PushTaken(v, o)))
        /\ \A x : x[2] = "zoom" => (x \in held' <=> x \in held \/ x \in ZoomTaken(v, o))
        /\ Touches({"push", "zoom"})
    BY <2>1, <2>2 DEF Touches
  <2>4. ViewsStay
    BY <2>1, OutputSceneConstants DEF WorldInv, ViewsStay, Mapped
  <2>5. PushInv'
    BY <2>1, <2>3, PushMapStep DEF WorldInv
  <2>6. ZoomInv'
    BY <2>1, <2>3, ZoomMapStep DEF WorldInv
  <2>7. DeskInv' /\ NightInv'
    BY <2>1, <2>3, <2>4, DeskStays, NightStays
  <2>8. held' \subseteq Holdings
    <3>1. Transformers("push", o, PushTaken(v, o)) \subseteq PushHolds(o, Views)
      BY DEF PushHolds, Transformers, PushTaken, PushTracks
    <3>2. ZoomTaken(v, o) \subseteq ZoomHolds(o, Views)
      BY DEF ZoomTaken, ZoomHolds, Transformers
    <3> QED
      BY <2>1, <3>1, <3>2, KnownHoldings DEF WorldInv
  <2>9. WorldInv'
    BY <2>1, <2>8 DEF WorldInv
  <2> QED
    BY <2>5, <2>6, <2>7, <2>9
<1>9. ASSUME NEW v \in Views, ViewUnmaps(v) PROVE IInv'
  <2>1. /\ place' = [place EXCEPT ![v] = Unmapped] /\ minimized' = minimized \ {v}
        /\ desk' = DeskDropped(v) /\ push' = PushDropped(v) /\ zoom' = ZoomDropped(v)
        /\ held' = held \ (DeskGivesBack(v) \union PushGivesBack(v) \union ZoomGivesBack(v))
        /\ panel' \in {NewPanel, panel}
        /\ UNCHANGED <<plugged, night, enabled, listed, loaded>>
    BY <1>9 DEF ViewUnmaps
  <2>2. \A x \in DeskGivesBack(v) : x[2] = "desktop"
    <3> SUFFICES ASSUME NEW x \in DeskGivesBack(v) PROVE x[2] = "desktop"
      OBVIOUS
    <3>1. PICK o \in Outputs : \/ x \in DeskHolds(o, {v})
                              \/ x \in Transformers("desktop", o, desk[o].views \intersect {v})
      BY DEF DeskGivesBack
    <3>2. \A y \in Transformers("desktop", o, desk[o].views \intersect {v}) : y[2] = "desktop"
      BY InHolds
    <3> QED
      BY <3>1, <3>2, InDesk
  <2>3. \A x \in PushGivesBack(v) : x[2] = "push"
    <3> SUFFICES ASSUME NEW x \in PushGivesBack(v) PROVE x[2] = "push"
      OBVIOUS
    <3>1. PICK o \in Outputs : x \in Transformers("push", o, push[o].views \intersect {v})
      BY DEF PushGivesBack
    <3>2. \A y \in Transformers("push", o, push[o].views \intersect {v}) : y[2] = "push"
      BY InHolds
    <3> QED
      BY <3>1, <3>2
  <2>4. \A x \in ZoomGivesBack(v) : x[2] = "zoom"
    <3> SUFFICES ASSUME NEW x \in ZoomGivesBack(v) PROVE x[2] = "zoom"
      OBVIOUS
    <3>1. PICK o \in Outputs : x \in Transformers("zoom", o, zoom[o].views \intersect {v})
      BY DEF ZoomGivesBack
    <3>2. \A y \in Transformers("zoom", o, zoom[o].views \intersect {v}) : y[2] = "zoom"
      BY InHolds
    <3> QED
      BY <3>1, <3>2
  <2>5. /\ GivesBack("desktop", DeskGivesBack(v)) /\ GivesBack("push", PushGivesBack(v))
        /\ GivesBack("zoom", ZoomGivesBack(v))
    BY <2>1, <2>2, <2>3, <2>4 DEF GivesBack
  <2>6. DeskInv' /\ PushInv' /\ ZoomInv'
    BY <2>1, <2>5, DeskDropStep, PushDropStep, ZoomDropStep DEF WorldInv
  <2>7. NightInv'
    <3>1. \A o : /\ Hook("night", o) \in held' <=> Hook("night", o) \in held
                 /\ TintNode("night", o) \in held' <=> TintNode("night", o) \in held
      BY <2>1, <2>2, <2>3, <2>4, Tokens
    <3> QED
      BY <2>1, <3>1 DEF NightInv, NightRuns, Lit, Instance
  <2>8. WorldInv'
    BY <1>0, <2>1 DEF WorldInv
  <2> QED
    BY <2>6, <2>7, <2>8
<1>10. ASSUME NEW w \in Windows, NEW o \in Outputs, WindowMoves(w, o) PROVE IInv'
  <2>1. /\ place[w] # Unmapped /\ o \in plugged /\ place' = [place EXCEPT ![w] = o] /\ o # Unmapped
        /\ UNCHANGED <<plugged, minimized, held, desk, push, zoom, night, enabled, listed, loaded, panel>>
    BY <1>10, OutputSceneConstants DEF WindowMoves, plugins
  <2>2. ViewsStay
    BY <2>1 DEF WorldInv, ViewsStay, Mapped
  <2>3. Touches({})
    BY <2>1 DEF Touches
  <2>4. DeskInv' /\ PushInv' /\ ZoomInv' /\ NightInv'
    BY <2>1, <2>2, <2>3, DeskStays, PushStays, ZoomStays, NightStays
  <2>5. WorldInv'
    BY <2>1 DEF WorldInv
  <2> QED
    BY <2>4, <2>5
<1>11. ASSUME (\E w \in Windows : WindowMinimized(w)) \/ UNCHANGED vars PROVE IInv'
  <2>1. /\ minimized' \subseteq Windows
        /\ UNCHANGED <<plugged, place, held, desk, push, zoom, night, enabled, listed, loaded, panel>>
    BY <1>11 DEF WindowMinimized, plugins, vars, world, WorldInv
  <2>2. ViewsStay /\ Touches({})
    BY <2>1 DEF ViewsStay, Mapped, Touches
  <2>3. DeskInv' /\ PushInv' /\ ZoomInv' /\ NightInv'
    BY <2>1, <2>2, DeskStays, PushStays, ZoomStays, NightStays
  <2>4. WorldInv'
    BY <2>1 DEF WorldInv
  <2> QED
    BY <2>3, <2>4
<1>12. ASSUME NEW p \in listed, LoadPlugin(p) PROVE IInv'
  <2>1. /\ p \in listed \ loaded /\ loaded' = loaded \union {p} /\ InitInstances(plugged, {p})
        /\ UNCHANGED <<plugged, place, minimized, held, enabled, listed, panel>>
    BY <1>12 DEF LoadPlugin, world
  <2>2. DeskInv' /\ PushInv' /\ ZoomInv' /\ NightInv'
    BY <2>1, InitStep DEF Instance, WorldInv
  <2>3. WorldInv'
    BY <2>1 DEF WorldInv
  <2> QED
    BY <2>2, <2>3
<1>13. ASSUME NEW o \in Outputs, Plug(o) PROVE IInv'
  <2>1. /\ o \notin plugged /\ plugged' = plugged \union {o} /\ InitInstances({o}, loaded)
        /\ panel' = NewPanel
        /\ UNCHANGED <<place, minimized, held, enabled, listed, loaded>>
    BY <1>13 DEF Plug
  <2>2. DeskInv' /\ PushInv' /\ ZoomInv' /\ NightInv'
    BY <2>1, InitStep DEF Instance, WorldInv
  <2>3. WorldInv'
    BY <1>0, <2>1 DEF WorldInv
  <2> QED
    BY <2>2, <2>3
<1>14. ASSUME NEW p \in listed, UnloadPlugin(p) PROVE IInv'
  <2>1. /\ p \in loaded /\ loaded' = loaded \ {p} /\ FiniInstances(plugged, {p})
        /\ enabled' = (enabled /\ p # "night")
        /\ UNCHANGED <<plugged, place, minimized, listed, panel>>
    BY <1>14 DEF UnloadPlugin, world
  <2>2. /\ plugged \in SUBSET Outputs /\ {p} \in SUBSET loaded
        /\ \A q \in {"desktop", "push", "zoom", "night"}, r \in Outputs :
              Instance(q, r)' <=> Instance(q, r) /\ ~(q \in {p} /\ r \in plugged)
        /\ \A r \in plugged', v \in Views :
              /\ v \in Windows /\ Mapped(v) => Mapped(v)'
              /\ v \notin Windows /\ place[v] = r => place'[v] = r
    BY <2>1 DEF Instance, WorldInv, Mapped
  <2>3. enabled' \in BOOLEAN /\ (enabled' # enabled => \A r \in Outputs : ~Instance("night", r)')
    BY <2>1 DEF NightInv, Instance
  <2>4. DeskInv' /\ PushInv' /\ ZoomInv' /\ NightInv' /\ held' \subseteq Holdings
    BY <2>1, <2>2, <2>3, FiniStep
  <2>5. WorldInv'
    BY <2>1, <2>4 DEF WorldInv
  <2> QED
    BY <2>4, <2>5
<1>15. ASSUME NEW o \in Outputs, Unplug(o) PROVE IInv'
  <2>1. /\ o \in plugged /\ plugged # {o} /\ plugged' = plugged \ {o} /\ FiniInstances({o}, loaded)
        /\ panel' = NewPanel
        /\ UNCHANGED <<minimized, enabled, listed, loaded>>
    BY <1>15 DEF Unplug
  <2>2. PICK other \in plugged \ {o} :
          place' = [v \in Views |-> IF place[v] # o THEN place[v]
                                    ELSE IF v \in Windows THEN other ELSE Unmapped]
    BY <1>15 DEF Unplug
  <2>3. place' \in [Views -> plugged' \union {Unmapped}]
    BY <2>1, <2>2 DEF WorldInv
  <2>4. /\ {o} \in SUBSET Outputs /\ loaded \in SUBSET loaded
        /\ \A q \in {"desktop", "push", "zoom", "night"}, r \in Outputs :
              Instance(q, r)' <=> Instance(q, r) /\ ~(q \in loaded /\ r \in {o})
        /\ \A r \in plugged', v \in Views :
              /\ v \in Windows /\ Mapped(v) => Mapped(v)'
              /\ v \notin Windows /\ place[v] = r => place'[v] = r
    BY <2>1, <2>2, OutputSceneConstants DEF Instance, WorldInv, Mapped
  <2>5. enabled' \in BOOLEAN /\ enabled' = enabled
    BY <2>1 DEF NightInv
  <2>6. DeskInv' /\ PushInv' /\ ZoomInv' /\ NightInv' /\ held' \subseteq Holdings
    BY <2>1, <2>4, <2>5, FiniStep
  <2>7. WorldInv'
    BY <1>0, <2>1, <2>3, <2>6 DEF WorldInv
  <2> QED
    BY <2>6, <2>7
<1> QED
  BY <1>1, <1>2, <1>3, <1>4, <1>5, <1>6, <1>7, <1>8, <1>9, <1>10, <1>11, <1>12, <1>13, <1>14, <1>15
     DEF Next

-----------------------------------------------------------------------------
(* The invariant says what the properties say.                                *)
LEMMA ImpliesStranded == IInv => NothingStranded
  BY DEF IInv, DeskInv, NightInv, DeskRuns, NothingStranded

LEMMA ImpliesTypeOK == IInv => TypeOK
<1> SUFFICES ASSUME IInv PROVE TypeOK
  OBVIOUS
<1>1. ASSUME NEW o \in Outputs
      PROVE  LET mapped == {v \in Views : place[v] # Unmapped}
             IN  /\ desk[o].views \subseteq mapped \intersect Windows
                 /\ push[o].views \subseteq mapped \ {Panel}
                 /\ zoom[o].views \subseteq mapped
                 /\ (desk[o].state # "NONE") = Instance("desktop", o)
                 /\ (push[o].state # "NONE") = Instance("push", o)
                 /\ (zoom[o].state # "NONE") = Instance("zoom", o)
                 /\ (night[o] # "NONE") = Instance("night", o)
  <2>1. desk[o].views \subseteq {v \in Views : place[v] # Unmapped} \intersect Windows
    BY DEF IInv, DeskInv, Mapped, Views
  <2>2. push[o].views \subseteq {v \in Views : place[v] # Unmapped} \ {Panel}
    BY DEF IInv, PushInv, Mapped
  <2>3. zoom[o].views \subseteq {v \in Views : place[v] # Unmapped}
    BY DEF IInv, ZoomInv, Mapped
  <2>4. /\ (desk[o].state # "NONE") = Instance("desktop", o)
        /\ (push[o].state # "NONE") = Instance("push", o)
        /\ (zoom[o].state # "NONE") = Instance("zoom", o)
        /\ (night[o] # "NONE") = Instance("night", o)
    BY Zenon DEF IInv, DeskInv, PushInv, ZoomInv, NightInv, Instance
  <2> QED
    BY <2>1, <2>2, <2>3, <2>4
<1>2. /\ plugged \subseteq Outputs /\ plugged # {} /\ loaded \subseteq listed
      /\ place \in [Views -> plugged \union {Unmapped}] /\ minimized \subseteq Windows
      /\ held \subseteq Holdings /\ enabled \in BOOLEAN
      /\ panel \in [inside : BOOLEAN, target : BOOLEAN, slides : BOOLEAN, timer : BOOLEAN]
  BY DEF IInv, WorldInv, NightInv
<1> QED
  BY <1>1, <1>2 DEF TypeOK

(* Element by element: a thing is held exactly if an effect that runs needs it. *)
LEMMA ImpliesHeld == IInv => HeldWhileRunning
<1> SUFFICES ASSUME IInv PROVE HeldWhileRunning
  OBVIOUS
<1> DEFINE Needs(o) ==
      (IF desk[o].state \in {"OUT", "PEEKED", "IN"} THEN DeskHolds(o, desk[o].views) ELSE {})
      \union (IF push[o].state \in {"OUT", "PUSHED", "IN"} THEN PushHolds(o, push[o].views) ELSE {})
      \union (IF zoom[o].state = "RUNNING" THEN ZoomHolds(o, zoom[o].views) ELSE {})
      \union (IF night[o] \in {"FADING_IN", "ON", "FADING_OUT"} THEN NightHolds(o) ELSE {})
<1>1. ASSUME NEW o \in Outputs PROVE Needs(o) \subseteq held
  <2>1. DeskRuns(o) => DeskHolds(o, desk[o].views) \subseteq held
    BY DEF IInv, DeskInv, DeskHolds, Transformers, Views
  <2>2. PushRuns(o) => PushHolds(o, push[o].views) \subseteq held
    BY DEF IInv, PushInv, PushHolds, Transformers
  <2>3. ZoomRuns(o) => ZoomHolds(o, zoom[o].views) \subseteq held
    BY DEF IInv, ZoomInv, ZoomHolds, Transformers
  <2>4. NightRuns(o) => NightHolds(o) \subseteq held
    BY DEF IInv, NightInv, NightHolds
  <2> QED
    BY <2>1, <2>2, <2>3, <2>4 DEF DeskRuns, PushRuns, ZoomRuns, NightRuns
<1>2. ASSUME NEW x \in held PROVE \E o \in Outputs : x \in Needs(o)
  <2>1. \/ \E p \in {"desktop", "push", "zoom", "night"}, o \in Outputs : x = Hook(p, o)
        \/ \E p \in {"desktop", "push"}, o \in Outputs : x = Activation(p, o)
        \/ \E o \in Outputs : x = TintNode("night", o)
        \/ \E p \in {"desktop", "push", "zoom"}, o \in Outputs : \E v \in Views : x = Transformer(p, o, v)
    BY DEF IInv, WorldInv, Holdings, Transformers
  <2>2. ASSUME NEW o \in Outputs, \/ x = Hook("desktop", o) \/ x = Activation("desktop", o)
                                  \/ \E v \in Views : x = Transformer("desktop", o, v)
        PROVE  x \in Needs(o)
    <3>1. DeskRuns(o) /\ x \in DeskHolds(o, desk[o].views)
      BY <2>2 DEF IInv, DeskInv, DeskHolds, Transformers
    <3> QED
      BY <3>1 DEF DeskRuns
  <2>3. ASSUME NEW o \in Outputs, \/ x = Hook("push", o) \/ x = Activation("push", o)
                                  \/ \E v \in Views : x = Transformer("push", o, v)
        PROVE  x \in Needs(o)
    <3>1. PushRuns(o) /\ x \in PushHolds(o, push[o].views)
      BY <2>3 DEF IInv, PushInv, PushHolds, Transformers
    <3> QED
      BY <3>1 DEF PushRuns
  <2>4. ASSUME NEW o \in Outputs, x = Hook("zoom", o) \/ \E v \in Views : x = Transformer("zoom", o, v)
        PROVE  x \in Needs(o)
    <3>1. ZoomRuns(o) /\ x \in ZoomHolds(o, zoom[o].views)
      BY <2>4 DEF IInv, ZoomInv, ZoomHolds, Transformers
    <3> QED
      BY <3>1 DEF ZoomRuns
  <2>5. ASSUME NEW o \in Outputs, x = Hook("night", o) \/ x = TintNode("night", o)
        PROVE  x \in Needs(o)
    <3>1. NightRuns(o) /\ x \in NightHolds(o)
      BY <2>5 DEF IInv, NightInv, NightHolds
    <3> QED
      BY <3>1 DEF NightRuns
  <2> HIDE DEF Needs
  <2> QED
    BY <2>1, <2>2, <2>3, <2>4, <2>5
<1>3. held = UNION {Needs(o) : o \in Outputs}
  <2> HIDE DEF Needs
  <2> QED
    BY <1>1, <1>2
<1> QED
  BY <1>3 DEF HeldWhileRunning

(* Plugins exist on the outputs there are while they are loaded and track     *)
(* only mapped views, never the panel, through every hotplug, unload and view *)
(* that goes away.                                                            *)
THEOREM TypesCorrect == Spec => []TypeOK
<1>1. IInv /\ [Next]_vars => IInv'
  BY NextIInv
<1> QED
  BY <1>1, InitIInv, ImpliesTypeOK, PTL DEF Spec

(* However an effect ends (its animation, a cancellation, its last view, an   *)
(* unload, an unplug) every hook, activation, tint node and transformer is    *)
(* given back, and no effect that runs has lost one (hard_reset(), fini(),    *)
(* drop_view(), finish() and teardown() of the four plugins).                 *)
THEOREM HoldsOnlyWhileRunning == Spec => []HeldWhileRunning
<1>1. IInv /\ [Next]_vars => IInv'
  BY NextIInv
<1> QED
  BY <1>1, InitIInv, ImpliesHeld, PTL DEF Spec

(* An output is never left in a peek without windows, and night-light's       *)
(* toggle always asks to clear a tint that is there (desktop-peek's           *)
(* drop_view(), night-light's set_all() and fini()).                          *)
THEOREM StrandsNothing == Spec => []NothingStranded
<1>1. IInv /\ [Next]_vars => IInv'
  BY NextIInv
<1> QED
  BY <1>1, InitIInv, ImpliesStranded, PTL DEF Spec
=============================================================================
