------------------------- MODULE DrawerRevealProofs -------------------------
(***************************************************************************)
(* The safety of the drawer on one output, for any windows, apps, queries  *)
(* and page size, and any number of choices of the reveal style.           *)
(***************************************************************************)
EXTENDS DrawerReveal, FiniteSetTheorems, SequenceTheorems, TLAPS

(***************************************************************************)
(* The scene and the plugins.                                              *)
(***************************************************************************)

Shown == {"OPENING", "OPEN", "CLOSING"}

(* A plugin that is not loaded remembers nothing, and only a reveal has a     *)
(* transformer, on a grid that it remembers.                                  *)
Plugins ==
    /\ curtain \in Plugin /\ slide \in SlidePlugin
    /\ curtain.state = "NONE" => ~curtain.desktop /\ ~curtain.widget
    /\ slide.state = "NONE" => ~slide.desktop /\ ~slide.widget
    /\ slide.tr => slide.desktop /\ slide.state \in Shown

(* A view that is disabled or remembered is mapped.                           *)
Views ==
    /\ mapped \subseteq {"grid", "widgets"}
    /\ off \subseteq mapped \union Layers
    /\ curtain.desktop \/ slide.desktop => "grid" \in mapped
    /\ curtain.widget \/ slide.widget => "widgets" \in mapped

(* What each plugin holds for itself, also when both are loaded.              *)
Holds ==
    /\ hooked = active /\ active \subseteq {"curtain", "slide"}
    /\ "curtain" \in active <=> curtain.state \in Shown
    /\ "slide" \in active <=> slide.state \in Shown
    /\ overlays = (IF curtain.state \in Shown THEN CurtainNodes ELSE {})
                  \union View("slide snapshot", slide.state \in Shown)
                  \union View("slide transformer", slide.tr)

(* The keyboard is with something that is there.  A reveal may report the     *)
(* focus once more, when it ends, however many reports are under way.         *)
Reveals(s) == IF s \in Shown THEN 1 ELSE 0

Keyboard ==
    /\ wins \subseteq Windows
    /\ keys \in wins \union {NoWindow} \union (mapped \ {"widgets"})
    /\ news \in Seq(Windows \union {NoWindow})
    /\ Len(news) + Reveals(curtain.state) + Reveals(slide.state) <= MaxNews + 2
    /\ listening <=> running
    /\ "grid" \in mapped => running
    /\ ~running => news = <<>>

World == Plugins /\ Views /\ Holds /\ Keyboard

(* A plugin's record after its state is set.                                  *)
LEMMA StateSet ==
    /\ \A c \in Plugin, s \in States :
         LET d == [c EXCEPT !.state = s]
         IN  d \in Plugin /\ d.state = s /\ d.desktop = c.desktop /\ d.widget = c.widget
    /\ \A c \in SlidePlugin, s \in States :
         LET d == [c EXCEPT !.state = s]
         IN  /\ d \in SlidePlugin /\ d.state = s /\ d.desktop = c.desktop
             /\ d.widget = c.widget /\ d.tr = c.tr
  BY DEF Plugin, SlidePlugin, States

LEMMA Unloaded ==
    /\ CurtainUnloaded \in Plugin /\ CurtainUnloaded.state = "NONE"
    /\ ~CurtainUnloaded.desktop /\ ~CurtainUnloaded.widget
    /\ SlideUnloaded \in SlidePlugin /\ SlideUnloaded.state = "NONE"
    /\ ~SlideUnloaded.desktop /\ ~SlideUnloaded.widget /\ ~SlideUnloaded.tr
  BY DEF CurtainUnloaded, SlideUnloaded, Plugin, SlidePlugin, States

(* What a plugin remembers when it starts or ends a reveal.                   *)
LEMMA Remembers ==
    ASSUME NEW s \in States, NEW tr \in BOOLEAN
    PROVE  /\ CurtainKnows(s) \in Plugin /\ CurtainKnows(s).state = s
           /\ CurtainKnows(s).desktop <=> CurtainDesktop
           /\ CurtainKnows(s).widget <=> CurtainWidget
           /\ SlideKnows(s, tr) \in SlidePlugin /\ SlideKnows(s, tr).state = s
           /\ SlideKnows(s, tr).desktop <=> SlideDesktop
           /\ SlideKnows(s, tr).widget <=> SlideWidget
           /\ SlideKnows(s, tr).tr = tr
  BY DEF CurtainKnows, CurtainDesktop, CurtainWidget, Plugin, SlideKnows, SlideDesktop,
         SlideWidget, SlidePlugin, States

LEMMA InitWorld == Init => World
<1> SUFFICES ASSUME Init PROVE World
  OBVIOUS
<1>0. LET c == [CurtainUnloaded EXCEPT !.state = "IDLE"]
          s == [SlideUnloaded EXCEPT !.state = "IDLE"]
      IN  /\ c \in Plugin /\ c.state = "IDLE" /\ ~c.desktop /\ ~c.widget
          /\ s \in SlidePlugin /\ s.state = "IDLE" /\ ~s.desktop /\ ~s.widget /\ ~s.tr
  BY DEF CurtainUnloaded, SlideUnloaded, Plugin, SlidePlugin, States
<1>1. /\ curtain \in Plugin /\ slide \in SlidePlugin
      /\ curtain.state \in {"NONE", "IDLE"} /\ slide.state \in {"NONE", "IDLE"}
      /\ ~curtain.desktop /\ ~curtain.widget /\ ~slide.desktop /\ ~slide.widget /\ ~slide.tr
  BY <1>0, Unloaded DEF Init
<1>2. Plugins
  BY <1>1 DEF Plugins
<1>3. Views
  BY <1>1 DEF Init, Views
<1>4. Holds
  BY <1>1 DEF Init, Holds, Shown, View
<1>5. Keyboard
  <2>1. Reveals(curtain.state) = 0 /\ Reveals(slide.state) = 0
    BY <1>1 DEF Reveals, Shown
  <2>2. news = <<>> /\ keys = NoWindow /\ wins = {} /\ ~listening /\ ~running /\ mapped = {}
    BY DEF Init, DrawerInit
  <2> QED
    BY <2>1, <2>2, SceneConstants DEF Keyboard
<1> QED
  BY <1>2, <1>3, <1>4, <1>5 DEF World

-----------------------------------------------------------------------------
(* The focus.                                                                 *)

(* set_active_node() reports at most once.                                    *)
LEMMA FocusKeeps ==
    ASSUME NEW who, Focus(who), news \in Seq(Windows \union {NoWindow}),
           ~listening => news = <<>>
    PROVE  /\ keys' = who
           /\ news' \in Seq(Windows \union {NoWindow}) /\ Len(news') <= Len(news) + 1
           /\ ~listening => news' = <<>>
  BY DEF Focus, Toplevel

LEMMA RefocusKeeps ==
    ASSUME NEW ws, Refocus(ws), news \in Seq(Windows \union {NoWindow}),
           ~listening => news = <<>>
    PROVE  /\ keys' \in ws \union {NoWindow}
           /\ news' \in Seq(Windows \union {NoWindow}) /\ Len(news') <= Len(news) + 1
           /\ ~listening => news' = <<>>
<1>1. CASE ws # {}
  <2>1. PICK w \in ws : Focus(w)
    BY <1>1, Zenon DEF Refocus
  <2> QED
    BY <2>1, FocusKeeps
<1>2. CASE ws = {}
  <2>1. Focus(NoWindow)
    BY <1>2, Zenon DEF Refocus
  <2> QED
    BY <2>1, FocusKeeps
<1> QED
  BY <1>1, <1>2

(* What is left to prove of Keyboard after a step that may move the focus.    *)
LEMMA KeyboardKeeps ==
    ASSUME Keyboard, Plugins, Plugins',
           wins' \subseteq Windows, keys' \in wins' \union {NoWindow} \union (mapped' \ {"widgets"}),
           news' \in Seq(Windows \union {NoWindow}),
           \/ Calm /\ Len(news') <= Len(news) + 1
           \/ /\ Len(news') + Reveals(curtain'.state) + Reveals(slide'.state)
                   <= Len(news) + Reveals(curtain.state) + Reveals(slide.state),
           "grid" \in mapped' => "grid" \in mapped,
           ~listening => news' = <<>>,
           UNCHANGED <<listening, running>>
    PROVE  Keyboard'
<1>1. /\ Len(news) \in Nat /\ Len(news') \in Nat
  BY DEF Keyboard
<1>2. /\ Reveals(curtain.state) \in 0..1 /\ Reveals(slide.state) \in 0..1
      /\ Reveals(curtain'.state) \in 0..1 /\ Reveals(slide'.state) \in 0..1
  BY DEF Reveals
<1>3. Len(news') + Reveals(curtain'.state) + Reveals(slide'.state) <= MaxNews + 2
  <2>1. CASE Calm /\ Len(news') <= Len(news) + 1
    BY <1>1, <1>2, <2>1, SceneConstants DEF Calm
  <2>2. CASE Len(news') + Reveals(curtain'.state) + Reveals(slide'.state)
               <= Len(news) + Reveals(curtain.state) + Reveals(slide.state)
    BY <1>1, <1>2, <2>2, SceneConstants DEF Keyboard
  <2> QED
    BY <2>1, <2>2
<1> QED
  BY <1>3 DEF Keyboard

-----------------------------------------------------------------------------
(* curtain-peek.                                                              *)

LEMMA CurtainOpens ==
    ASSUME World, Calm, CurtainStartOpen, UNCHANGED <<slide, running>>
    PROVE  World'
<1>1. Plugins'
  BY DEF World, CurtainStartOpen, CurtainKnows, CurtainDesktop, CurtainWidget, Plugins, Plugin, States
<1>2. Views'
  BY DEF World, CurtainStartOpen, CurtainKnows, CurtainDesktop, CurtainWidget, Visible, Views,
         Plugins, View
<1>3. Holds'
  BY DEF World, CurtainStartOpen, CurtainKnows, Holds, Shown, View
<1>4. Keyboard'
  <2>1. CASE ~CurtainDesktop
    BY <1>1, <2>1, KeyboardKeeps DEF World, CurtainStartOpen, Keyboard
  <2>2. CASE CurtainDesktop /\ Focus("grid")
    <3>1. "grid" \in mapped'
      BY <2>2 DEF World, CurtainStartOpen, CurtainDesktop, Visible, Views
    <3> QED
      BY <1>1, <2>2, <3>1, FocusKeeps, KeyboardKeeps DEF World, CurtainStartOpen, Keyboard
  <2> QED
    BY <2>1, <2>2 DEF CurtainStartOpen
<1> QED
  BY <1>1, <1>2, <1>3, <1>4 DEF World

LEMMA CurtainClears ==
    ASSUME World, curtain.state \in Shown, NEW hidden, hidden \subseteq {"grid"} \intersect mapped,
           CurtainClear(hidden), curtain' \in {CurtainKnows("IDLE"), CurtainUnloaded},
           UNCHANGED <<slide, running>>
    PROVE  World'
<1>0. /\ curtain' \in Plugin /\ curtain'.state \in {"IDLE", "NONE"}
      /\ curtain'.desktop => CurtainDesktop /\ curtain'.state # "NONE"
      /\ curtain'.widget => CurtainWidget /\ curtain'.state # "NONE"
  BY Remembers, Unloaded DEF States
<1>1. Plugins' /\ curtain'.state \notin Shown
  BY <1>0 DEF World, Plugins, Shown
<1>2. Views'
  <2>1. off' \subseteq off \union ({"grid"} \intersect mapped) /\ mapped' = mapped
    BY DEF CurtainClear
  <2> QED
    BY <1>0, <2>1 DEF World, Views, CurtainDesktop, CurtainWidget, Visible
<1>3. Holds'
  <2>1. /\ overlays' = overlays \ CurtainNodes
        /\ hooked' = hooked \ {"curtain"} /\ active' = active \ {"curtain"}
    BY DEF CurtainClear
  <2>2. overlays' = View("slide snapshot", slide.state \in Shown) \union
                    View("slide transformer", slide.tr)
    BY <2>1 DEF World, Holds, View, CurtainNodes
  <2> QED
    BY <1>1, <2>1, <2>2 DEF World, Holds
<1>4. Keyboard'
  <2>1. /\ keys' \in wins \union {NoWindow} /\ news' \in Seq(Windows \union {NoWindow})
        /\ Len(news') <= Len(news) + 1
        /\ ~listening => news' = <<>>
        /\ UNCHANGED <<mapped, wins, listening>>
    BY RefocusKeeps DEF World, Keyboard, CurtainClear
  <2>2. Len(news') + Reveals(curtain'.state) + Reveals(slide'.state)
          <= Len(news) + Reveals(curtain.state) + Reveals(slide.state)
    BY <1>1, <2>1 DEF World, Keyboard, Reveals
  <2> QED
    BY <1>1, <2>1, <2>2, KeyboardKeeps DEF World, Keyboard
<1> QED
  BY <1>1, <1>2, <1>3, <1>4 DEF World
-----------------------------------------------------------------------------
(* slide-peek.                                                                *)

LEMMA SlideOpens ==
    ASSUME World, Calm, SlideStartOpen, UNCHANGED <<curtain, running>>
    PROVE  World'
<1>0. /\ slide' \in SlidePlugin /\ slide'.state = "OPENING"
      /\ slide'.desktop <=> SlideDesktop
      /\ slide'.widget <=> SlideWidget
      /\ slide'.tr <=> SlideDesktop
  <2>1. SlideDesktop \in BOOLEAN
    BY DEF SlideDesktop, World, Plugins, SlidePlugin
  <2> QED
    BY <2>1, Remembers DEF SlideStartOpen, States
<1>1. Plugins'
  BY <1>0 DEF World, Plugins, Shown
<1>2. Views'
  BY <1>0 DEF World, SlideStartOpen, SlideDesktop, SlideWidget, Visible, Views, View,
              SlideLayers, Layers
<1>3. Holds'
  BY <1>0 DEF World, SlideStartOpen, Holds, Plugins, Shown, View
<1>4. Keyboard'
  <2>0. /\ UNCHANGED <<mapped, wins, listening>>
        /\ IF SlideDesktop THEN Focus("grid") ELSE UNCHANGED <<keys, news>>
    BY DEF SlideStartOpen
  <2>1. CASE ~SlideDesktop
    BY <1>1, <2>0, <2>1, KeyboardKeeps DEF World, Keyboard
  <2>2. CASE SlideDesktop
    <3>1. "grid" \in mapped'
      BY <2>0, <2>2 DEF World, SlideDesktop, Visible, Views
    <3>2. Focus("grid")
      BY <2>0, <2>2, Zenon
    <3>3. /\ keys' = "grid"
          /\ news' \in Seq(Windows \union {NoWindow}) /\ Len(news') <= Len(news) + 1
          /\ ~listening => news' = <<>>
      BY <3>2, FocusKeeps DEF World, Keyboard
    <3> QED
      BY <1>1, <2>0, <3>1, <3>3, KeyboardKeeps DEF World, Keyboard
  <2> QED
    BY <2>1, <2>2
<1> QED
  BY <1>1, <1>2, <1>3, <1>4 DEF World

LEMMA SlideClears ==
    ASSUME World, slide.state \in Shown, NEW hidden, hidden \subseteq {"grid"} \intersect mapped,
           SlideClear(hidden), slide' \in {SlideKnows("IDLE", FALSE), SlideUnloaded},
           UNCHANGED <<curtain, running>>
    PROVE  World'
<1>0. /\ slide' \in SlidePlugin /\ slide'.state \in {"IDLE", "NONE"} /\ ~slide'.tr
      /\ slide'.desktop => SlideDesktop /\ slide'.state # "NONE"
      /\ slide'.widget => SlideWidget /\ slide'.state # "NONE"
  BY Remembers, Unloaded DEF States
<1>1. Plugins' /\ slide'.state \notin Shown
  BY <1>0 DEF World, Plugins, Shown
<1>2. Views'
  <2>1. off' \subseteq off \union ({"grid"} \intersect mapped) /\ mapped' = mapped
    BY DEF SlideClear
  <2> QED
    BY <1>0, <2>1 DEF World, Views, SlideDesktop, SlideWidget, Visible
<1>3. Holds'
  <2>1. /\ overlays' = overlays \ ({"slide snapshot"} \union
                                   View("slide transformer", slide.tr /\ slide.desktop))
        /\ hooked' = hooked \ {"slide"} /\ active' = active \ {"slide"}
    BY DEF SlideClear
  <2>2. overlays' = IF curtain.state \in Shown THEN CurtainNodes ELSE {}
    BY <2>1 DEF World, Holds, Plugins, View, CurtainNodes
  <2> QED
    BY <1>0, <1>1, <2>1, <2>2 DEF World, Holds, View
<1>4. Keyboard'
  <2>1. /\ keys' \in wins \union {NoWindow} /\ news' \in Seq(Windows \union {NoWindow})
        /\ Len(news') <= Len(news) + 1
        /\ ~listening => news' = <<>>
        /\ UNCHANGED <<mapped, wins, listening>>
    BY RefocusKeeps DEF World, Keyboard, SlideClear
  <2>2. Len(news') + Reveals(curtain'.state) + Reveals(slide'.state)
          <= Len(news) + Reveals(curtain.state) + Reveals(slide.state)
    BY <1>1, <2>1 DEF World, Keyboard, Reveals
  <2> QED
    BY <1>1, <2>1, <2>2, KeyboardKeeps DEF World, Keyboard
<1> QED
  BY <1>1, <1>2, <1>3, <1>4 DEF World

-----------------------------------------------------------------------------
(* Steps that change neither what is revealed nor what the plugins remember.  *)

(* The two plugins are what they were, but a reveal may have gone on.         *)
SameReveals ==
    /\ curtain' \in Plugin /\ slide' \in SlidePlugin
    /\ curtain'.desktop = curtain.desktop /\ curtain'.widget = curtain.widget
    /\ slide'.desktop = slide.desktop /\ slide'.widget = slide.widget /\ slide'.tr = slide.tr
    /\ curtain'.state = curtain.state \/ {curtain.state, curtain'.state} \subseteq Shown
    /\ slide'.state = slide.state \/ {slide.state, slide'.state} \subseteq Shown

LEMMA StaySame ==
    ASSUME World, UNCHANGED <<curtain, slide>>
    PROVE  SameReveals
  BY DEF World, Plugins, SameReveals

LEMMA ClosingKeeps ==
    ASSUME World, curtain' \in {curtain, CurtainClosing}, slide' \in {slide, SlideClosing}
    PROVE  SameReveals
<1>1. "CLOSING" \in States /\ curtain \in Plugin /\ slide \in SlidePlugin
  BY DEF States, World, Plugins
<1>2. /\ curtain' \in Plugin
      /\ curtain'.desktop = curtain.desktop /\ curtain'.widget = curtain.widget
      /\ curtain'.state = curtain.state \/ {curtain.state, curtain'.state} \subseteq Shown
  <2>1. CASE curtain' = curtain
    BY <1>1, <2>1
  <2>2. CASE curtain.state \in {"OPEN", "OPENING"} /\ curtain' = [curtain EXCEPT !.state = "CLOSING"]
    BY <1>1, <2>2, StateSet DEF Shown
  <2>3. CASE ~(curtain.state \in {"OPEN", "OPENING"}) /\ curtain' = CurtainClosing
    BY <2>1, <2>3 DEF CurtainClosing
  <2>4. CASE curtain.state \in {"OPEN", "OPENING"} /\ curtain' = CurtainClosing
    BY <2>2, <2>4 DEF CurtainClosing
  <2> QED
    BY <2>1, <2>3, <2>4, Zenon
<1>3. /\ slide' \in SlidePlugin
      /\ slide'.desktop = slide.desktop /\ slide'.widget = slide.widget /\ slide'.tr = slide.tr
      /\ slide'.state = slide.state \/ {slide.state, slide'.state} \subseteq Shown
  <2>1. CASE slide' = slide
    BY <1>1, <2>1
  <2>2. CASE slide.state \in {"OPEN", "OPENING"} /\ slide' = [slide EXCEPT !.state = "CLOSING"]
    BY <1>1, <2>2, StateSet DEF Shown
  <2>3. CASE ~(slide.state \in {"OPEN", "OPENING"}) /\ slide' = SlideClosing
    BY <2>1, <2>3 DEF SlideClosing
  <2>4. CASE slide.state \in {"OPEN", "OPENING"} /\ slide' = SlideClosing
    BY <2>2, <2>4 DEF SlideClosing
  <2> QED
    BY <2>1, <2>3, <2>4, Zenon
<1> QED
  BY <1>2, <1>3 DEF SameReveals

LEMMA SamePlugins ==
    ASSUME World, SameReveals
    PROVE  /\ Plugins'
           /\ UNCHANGED <<hooked, active, overlays>> => Holds'
           /\ UNCHANGED <<mapped, off>> => Views'
           /\ Reveals(curtain'.state) = Reveals(curtain.state)
           /\ Reveals(slide'.state) = Reveals(slide.state)
<1>1. /\ curtain.state \in Shown <=> curtain'.state \in Shown
      /\ slide.state \in Shown <=> slide'.state \in Shown
  BY DEF SameReveals
<1>2. Plugins'
  BY <1>1 DEF World, Plugins, SameReveals, Shown
<1>3. ASSUME UNCHANGED <<hooked, active, overlays>> PROVE Holds'
  BY <1>1, <1>3 DEF World, Holds, SameReveals
<1>4. ASSUME UNCHANGED <<mapped, off>> PROVE Views'
  BY <1>4 DEF World, Views, SameReveals
<1> QED
  BY <1>1, <1>2, <1>3, <1>4 DEF Reveals

LEMMA SameWorld ==
    ASSUME World, SameReveals, UNCHANGED <<scene, running>>
    PROVE  World'
<1>1. UNCHANGED <<mapped, off, overlays, hooked, active, wins, keys, listening, news>>
  BY DEF scene
<1>2. Plugins' /\ Holds' /\ Views'
  BY <1>1, SamePlugins
<1>3. Keyboard'
  BY <1>1, SamePlugins DEF World, Keyboard
<1> QED
  BY <1>2, <1>3 DEF World
-----------------------------------------------------------------------------
(* Loading and unloading.                                                     *)

LEMMA CurtainLoads ==
    ASSUME World, CurtainInit, UNCHANGED <<slide, running>>
    PROVE  World'
<1>0. /\ curtain' \in Plugin /\ curtain'.state = "IDLE" /\ ~curtain'.widget
      /\ curtain'.desktop <=> Visible("grid")
  <2>1. Visible("grid") \in BOOLEAN
    BY DEF Visible
  <2>2. curtain' = [state |-> "IDLE", desktop |-> Visible("grid"), widget |-> FALSE]
    BY DEF CurtainInit
  <2> QED
    BY <2>1, <2>2 DEF Plugin, States
<1>1. Plugins'
  BY <1>0 DEF World, Plugins, Shown
<1>2. Views'
  BY <1>0 DEF World, CurtainInit, Views, Visible, View
<1>3. Holds'
  BY <1>0 DEF World, CurtainInit, Holds, Shown
<1>4. Keyboard'
  BY <1>0 DEF World, CurtainInit, Keyboard, Reveals, Shown
<1> QED
  BY <1>1, <1>2, <1>3, <1>4 DEF World

LEMMA SlideLoads ==
    ASSUME World, SlideInit, UNCHANGED <<curtain, running>>
    PROVE  World'
<1>0. /\ slide' \in SlidePlugin /\ slide'.state = "IDLE" /\ ~slide'.widget /\ ~slide'.tr
      /\ slide'.desktop <=> Visible("grid")
  <2>1. Visible("grid") \in BOOLEAN
    BY DEF Visible
  <2>2. slide' = [SlideUnloaded EXCEPT !.state = "IDLE", !.desktop = Visible("grid")]
    BY DEF SlideInit
  <2> QED
    BY <2>1, <2>2 DEF SlideUnloaded, SlidePlugin, States
<1>1. Plugins'
  BY <1>0 DEF World, Plugins, Shown
<1>2. Views'
  <2>1. mapped' = mapped /\ off' \subseteq off \union mapped /\ (slide'.desktop => "grid" \in mapped)
    BY <1>0 DEF SlideInit, Visible, View
  <2> QED
    BY <1>0, <2>1 DEF World, Views
<1>3. Holds'
  <2>1. slide'.state \notin Shown /\ ~slide'.tr /\ slide.state \notin Shown /\ ~slide.tr
    BY <1>0 DEF SlideInit, World, Plugins, Shown
  <2> QED
    BY <2>1 DEF SlideInit, World, Holds, View
<1>4. Keyboard'
  BY <1>0 DEF World, SlideInit, Keyboard, Reveals, Shown
<1> QED
  BY <1>1, <1>2, <1>3, <1>4 DEF World

LEMMA CurtainUnloads ==
    ASSUME World, CurtainFini, UNCHANGED <<slide, running>>
    PROVE  World'
<1>1. curtain' = CurtainUnloaded /\ curtain.state # "NONE"
  BY DEF CurtainFini
<1>2. CASE curtain.state # "IDLE" /\ CurtainClear({})
  <2>1. curtain.state \in Shown
    BY <1>1, <1>2 DEF World, Plugins, Plugin, Shown, States
  <2> QED
    BY <1>1, <1>2, <2>1, CurtainClears
<1>3. CASE /\ curtain.state = "IDLE"
           /\ off' = off \ (View("grid", CurtainDesktop) \union View("widgets", CurtainWidget))
           /\ UNCHANGED <<mapped, overlays, hooked, active, wins, keys, listening, news>>
  <2>1. Plugins'
    BY <1>1, Unloaded DEF World, Plugins
  <2>2. Views'
    BY <1>1, <1>3, Unloaded DEF World, Views
  <2>3. Holds'
    BY <1>1, <1>3, Unloaded DEF World, Holds, Shown
  <2>4. Keyboard'
    BY <1>1, <1>3, Unloaded DEF World, Keyboard, Reveals, Shown
  <2> QED
    BY <2>1, <2>2, <2>3, <2>4 DEF World
<1> QED
  BY <1>2, <1>3, Zenon DEF CurtainFini

LEMMA SlideUnloads ==
    ASSUME World, SlideFini, UNCHANGED <<curtain, running>>
    PROVE  World'
<1>1. slide' = SlideUnloaded /\ slide.state # "NONE"
  BY DEF SlideFini
<1>2. CASE slide.state # "IDLE" /\ SlideClear({})
  <2>1. slide.state \in Shown
    BY <1>1, <1>2 DEF World, Plugins, SlidePlugin, States, Shown
  <2> QED
    BY <1>1, <1>2, <2>1, SlideClears
<1>3. CASE /\ slide.state = "IDLE"
           /\ off' = off \ (View("grid", SlideDesktop) \union View("widgets", SlideWidget))
           /\ UNCHANGED <<mapped, overlays, hooked, active, wins, keys, listening, news>>
  <2>1. Plugins'
    BY <1>1, Unloaded DEF World, Plugins
  <2>2. Views'
    BY <1>1, <1>3, Unloaded DEF World, Views
  <2>3. Holds'
    <3>1. slide'.state \notin Shown /\ ~slide'.tr /\ slide.state \notin Shown /\ ~slide.tr
      BY <1>1, <1>3, Unloaded DEF World, Plugins, Shown
    <3> QED
      BY <1>3, <3>1 DEF World, Holds, View
  <2>4. Keyboard'
    BY <1>1, <1>3, Unloaded DEF World, Keyboard, Reveals, Shown
  <2> QED
    BY <2>1, <2>2, <2>3, <2>4 DEF World
<1> QED
  BY <1>2, <1>3, Zenon DEF SlideFini

-----------------------------------------------------------------------------
(* Views and windows that come and go.                                        *)

LEMMA WidgetsKeep ==
    ASSUME World, WidgetsMap \/ WidgetsUnmap
    PROVE  World'
<1>1. CASE WidgetsMap
  <2>1. SameReveals /\ UNCHANGED running
    BY <1>1, StaySame DEF WidgetsMap, drawer
  <2>2. Plugins' /\ Holds'
    BY <1>1, <2>1, SamePlugins DEF WidgetsMap
  <2>3. Views'
    BY <1>1 DEF WidgetsMap, World, Views
  <2>4. Keyboard'
    BY <1>1, <2>1 DEF WidgetsMap, World, Keyboard
  <2> QED
    BY <2>2, <2>3, <2>4 DEF World
<1>2. CASE WidgetsUnmap
  <2>1. /\ UNCHANGED running /\ FALSE \in BOOLEAN
        /\ curtain' = [curtain EXCEPT !.widget = FALSE] /\ slide' = [slide EXCEPT !.widget = FALSE]
    BY <1>2 DEF WidgetsUnmap, CurtainOnUnmapped, SlideOnUnmapped, drawer
  <2>2. /\ curtain' \in Plugin /\ curtain'.state = curtain.state
        /\ curtain'.desktop = curtain.desktop /\ ~curtain'.widget
    BY <2>1 DEF World, Plugins, Plugin
  <2>3. /\ slide' \in SlidePlugin /\ slide'.state = slide.state /\ slide'.tr = slide.tr
        /\ slide'.desktop = slide.desktop /\ ~slide'.widget
    BY <2>1 DEF World, Plugins, SlidePlugin
  <2>4. Plugins'
    BY <2>2, <2>3 DEF World, Plugins
  <2>5. Views'
    BY <1>2, <2>2, <2>3 DEF World, Views, WidgetsUnmap
  <2>6. Holds'
    BY <1>2, <2>2, <2>3 DEF World, Holds, WidgetsUnmap
  <2>7. Keyboard'
    BY <1>2, <2>1, <2>2, <2>3 DEF World, Keyboard, WidgetsUnmap
  <2> QED
    BY <2>4, <2>5, <2>6, <2>7 DEF World
<1> QED
  BY <1>1, <1>2

LEMMA WindowsKeep ==
    ASSUME World, ClickGrid \/ \E w \in Windows : WindowMaps(w) \/ WindowCloses(w)
    PROVE  World'
<1>1. /\ Calm /\ SameReveals /\ UNCHANGED <<mapped, off, overlays, hooked, active, listening, running>>
  BY StaySame DEF WindowMaps, WindowCloses, ClickGrid, drawer
<1>2. Plugins' /\ Holds' /\ Views'
  BY <1>1, SamePlugins
<1>3. /\ wins \subseteq Windows /\ keys \in wins \union {NoWindow} \union (mapped \ {"widgets"})
      /\ news \in Seq(Windows \union {NoWindow}) /\ (~listening => news = <<>>)
  BY DEF World, Keyboard
<1>4. /\ wins' \subseteq Windows
      /\ keys' \in wins' \union {NoWindow} \union (mapped' \ {"widgets"})
      /\ news' \in Seq(Windows \union {NoWindow}) /\ Len(news') <= Len(news) + 1
      /\ ~listening => news' = <<>>
  <2>1. CASE \E w \in Windows : WindowMaps(w)
    <3>1. PICK w \in Windows : Focus(w) /\ wins' = wins \union {w}
      BY <2>1 DEF WindowMaps
    <3> QED
      BY <1>3, <3>1, FocusKeeps
  <2>2. CASE \E w \in Windows : WindowCloses(w)
    <3>1. PICK w \in Windows : /\ wins' = wins \ {w}
                               /\ IF keys = w THEN Refocus(wins') ELSE UNCHANGED <<keys, news>>
      BY <2>2 DEF WindowCloses
    <3>2. CASE keys = w
      <4>1. Refocus(wins')
        BY <3>1, <3>2, Zenon
      <4> QED
        BY <1>3, <3>1, <4>1, RefocusKeeps
    <3>3. CASE keys # w
      <4>1. UNCHANGED <<keys, news>>
        BY <3>1, <3>3, Zenon
      <4> QED
        BY <1>1, <1>3, <3>1, <3>3, <4>1
    <3> QED
      BY <3>2, <3>3
  <2>3. CASE ClickGrid
    <3>1. Focus("grid") /\ UNCHANGED wins /\ "grid" \in mapped'
      BY <2>3 DEF ClickGrid, Visible
    <3> QED
      BY <1>3, <3>1, FocusKeeps
  <2> QED
    BY <2>1, <2>2, <2>3
<1>5. Keyboard'
  BY <1>1, <1>2, <1>4, KeyboardKeeps DEF World
<1> QED
  BY <1>2, <1>5 DEF World

(* The grid's view goes away, and with it the keyboard if it was there.       *)
LEMMA GridGoes ==
    ASSUME World, GridGone,
           \/ UNCHANGED <<listening, news, running>>
           \/ ~listening' /\ news' = <<>> /\ ~running'
    PROVE  World'
<1>0. /\ mapped' = mapped \ {"grid"} /\ off' = off \ {"grid"}
      /\ overlays' = overlays \ {"slide transformer"}
      /\ keys' = (IF keys = "grid" THEN NoWindow ELSE keys)
      /\ UNCHANGED <<hooked, active, wins>>
  BY DEF GridGone
<1>1. /\ curtain' \in Plugin /\ curtain'.state = curtain.state
      /\ ~curtain'.desktop /\ curtain'.widget = curtain.widget
  <2>1. curtain' = [curtain EXCEPT !.desktop = FALSE]
    BY DEF GridGone, CurtainOnUnmapped
  <2> QED
    BY <2>1 DEF World, Plugins, Plugin
<1>2. /\ slide' \in SlidePlugin /\ slide'.state = slide.state /\ ~slide'.tr
      /\ ~slide'.desktop /\ slide'.widget = slide.widget
  <2>1. slide' = IF slide.desktop THEN [slide EXCEPT !.desktop = FALSE, !.tr = FALSE] ELSE slide
    BY DEF GridGone, SlideOnUnmapped
  <2> QED
    BY <2>1 DEF World, Plugins, SlidePlugin
<1>3. Plugins'
  BY <1>1, <1>2 DEF World, Plugins
<1>4. Views'
  BY <1>0, <1>1, <1>2 DEF World, Views
<1>5. Holds'
  <2>1. View("slide transformer", slide'.tr) = {}
    BY <1>2 DEF View
  <2>2. overlays' = (IF curtain.state \in Shown THEN CurtainNodes ELSE {})
                    \union View("slide snapshot", slide.state \in Shown)
    BY <1>0 DEF World, Holds, View, CurtainNodes
  <2> QED
    BY <1>0, <1>1, <1>2, <2>1, <2>2 DEF World, Holds
<1>6. Keyboard'
  <2>1. keys' \in wins' \union {NoWindow} \union (mapped' \ {"widgets"})
    BY <1>0 DEF World, Keyboard
  <2>2. /\ news' \in Seq(Windows \union {NoWindow}) /\ Len(news') <= Len(news)
        /\ Len(news') \in Nat /\ Len(news) \in Nat
        /\ listening' <=> running'
        /\ ~running' => news' = <<>>
    <3>1. news \in Seq(Windows \union {NoWindow}) /\ Len(news) \in Nat
      BY DEF World, Keyboard
    <3>2. CASE UNCHANGED <<listening, news, running>>
      BY <3>1, <3>2 DEF World, Keyboard
    <3>3. CASE ~listening' /\ news' = <<>> /\ ~running'
      BY <3>1, <3>3
    <3> QED
      BY <3>2, <3>3
  <2>3. /\ Reveals(curtain'.state) \in 0..1 /\ Reveals(slide'.state) \in 0..1
        /\ Reveals(curtain'.state) = Reveals(curtain.state)
        /\ Reveals(slide'.state) = Reveals(slide.state)
    BY <1>1, <1>2 DEF Reveals
  <2>4. Len(news') + Reveals(curtain'.state) + Reveals(slide'.state) <= MaxNews + 2
    BY <2>2, <2>3, SceneConstants DEF World, Keyboard
  <2> QED
    BY <1>0, <2>1, <2>2, <2>4 DEF World, Keyboard
<1> QED
  BY <1>3, <1>4, <1>5, <1>6 DEF World

LEMMA GridMaps == ASSUME World, DrawerMaps PROVE World'
<1>0. /\ running /\ "grid" \notin mapped /\ mapped' = mapped \union {"grid"}
      /\ off' \subseteq off \union {"grid"}
      /\ UNCHANGED <<overlays, hooked, active, wins, keys, listening, news, running>>
  BY DEF DrawerMaps, drawer
<1>1. /\ curtain' \in Plugin /\ curtain'.state = curtain.state /\ curtain'.widget = curtain.widget
      /\ curtain'.state = "NONE" => ~curtain'.desktop
  <2>1. CASE curtain.state = "NONE"
    BY <2>1 DEF DrawerMaps, CurtainOnMapped, World, Plugins
  <2>2. CASE curtain.state # "NONE"
    <3>1. curtain' = [curtain EXCEPT !.desktop = TRUE]
      BY <2>2 DEF DrawerMaps, CurtainOnMapped
    <3> QED
      BY <2>2, <3>1 DEF World, Plugins, Plugin
  <2> QED
    BY <2>1, <2>2
<1>2. /\ slide' \in SlidePlugin /\ slide'.state = slide.state /\ slide'.widget = slide.widget
      /\ slide'.state = "NONE" => ~slide'.desktop
      /\ slide'.tr = slide.tr /\ (slide.desktop => slide'.desktop)
  <2>1. CASE slide.state = "NONE"
    BY <2>1 DEF DrawerMaps, SlideOnMapped, World, Plugins
  <2>2. CASE slide.state # "NONE"
    <3>1. slide' = [slide EXCEPT !.desktop = TRUE]
      BY <2>2 DEF DrawerMaps, SlideOnMapped
    <3> QED
      BY <2>2, <3>1 DEF World, Plugins, SlidePlugin
  <2> QED
    BY <2>1, <2>2
<1>3. Plugins'
  BY <1>1, <1>2 DEF World, Plugins
<1>4. Views'
  BY <1>0, <1>1, <1>2 DEF World, Views
<1>5. Holds'
  BY <1>0, <1>1, <1>2 DEF World, Holds
<1>6. Keyboard'
  BY <1>0, <1>1, <1>2 DEF World, Keyboard
<1> QED
  BY <1>3, <1>4, <1>5, <1>6 DEF World

-----------------------------------------------------------------------------
(* Every step of the system.                                                  *)

LEMMA RevealsEnd ==
    ASSUME World
    PROVE  /\ /\ curtain.state \in Shown /\ CurtainHardReset /\ UNCHANGED <<slide, running>>
              => World'
           /\ /\ slide.state \in Shown /\ SlideHardReset /\ UNCHANGED <<curtain, running>>
              => World'
<1>1. ASSUME curtain.state \in Shown, CurtainHardReset, UNCHANGED <<slide, running>>
      PROVE  World'
  <2>1. View("grid", CurtainDesktop) \subseteq {"grid"} \intersect mapped
    BY DEF View, CurtainDesktop, Visible, World, Views
  <2>2. CurtainClear(View("grid", CurtainDesktop)) /\ curtain' = CurtainKnows("IDLE")
    BY <1>1 DEF CurtainHardReset
  <2> QED
    BY <1>1, <2>1, <2>2, CurtainClears
<1>2. ASSUME slide.state \in Shown, SlideHardReset, UNCHANGED <<curtain, running>>
      PROVE  World'
  <2>1. View("grid", SlideDesktop) \subseteq {"grid"} \intersect mapped
    BY DEF View, SlideDesktop, Visible, World, Views
  <2>2. SlideClear(View("grid", SlideDesktop)) /\ slide' = SlideKnows("IDLE", FALSE)
    BY <1>2 DEF SlideHardReset
  <2> QED
    BY <1>2, <2>1, <2>2, SlideClears
<1> QED
  BY <1>1, <1>2, Zenon

(* A step that leaves the scene alone keeps the world.                        *)
LEMMA CloseKeeps ==
    ASSUME World, CloseReveal, UNCHANGED <<scene, running>>
    PROVE  World'
  BY ClosingKeeps, SameWorld DEF CloseReveal

LEMMA StyleKeeps ==
    ASSUME World, Toggle \/ Frame \/ OutputInhibited \/ LoadPlugins
    PROVE  World'
<1>0. /\ UNCHANGED running
      /\ "curtain" \in active <=> curtain.state \in Shown
      /\ "slide" \in active <=> slide.state \in Shown
  BY DEF World, Holds, Toggle, Frame, OutputInhibited, LoadPlugins, drawer
<1>1. CASE Toggle
  <2>1. CASE CurtainStartOpen /\ UNCHANGED slide
    BY <1>0, <1>1, <2>1, CurtainOpens DEF Toggle
  <2>2. CASE SlideStartOpen /\ UNCHANGED curtain
    BY <1>0, <1>1, <2>2, SlideOpens DEF Toggle
  <2>3. CASE CurtainStartClose /\ UNCHANGED slide
    BY <1>0, <2>3, ClosingKeeps, SameWorld DEF CurtainStartClose
  <2>4. CASE SlideStartClose /\ UNCHANGED curtain
    BY <1>0, <2>4, ClosingKeeps, SameWorld DEF SlideStartClose
  <2> QED
    BY <1>1, <2>1, <2>2, <2>3, <2>4 DEF Toggle, CurtainToggle, SlideToggle
<1>2. CASE Frame
  <2>1. CASE CurtainFrame /\ UNCHANGED slide
    <3>1. CASE curtain.state = "CLOSING" /\ CurtainHardReset
      BY <1>0, <2>1, <3>1, RevealsEnd DEF Shown
    <3>2. CASE curtain.state = "OPENING" /\ curtain' = [curtain EXCEPT !.state = "OPEN"]
               /\ UNCHANGED scene
      <4>1. SameReveals
        BY <2>1, <3>2, StateSet DEF World, Plugins, SameReveals, States, Shown
      <4> QED
        BY <1>0, <3>2, <4>1, SameWorld
    <3> QED
      BY <2>1, <3>1, <3>2 DEF CurtainFrame
  <2>2. CASE SlideFrame /\ UNCHANGED curtain
    <3>1. CASE slide.state = "CLOSING" /\ SlideHardReset
      BY <1>0, <2>2, <3>1, RevealsEnd DEF Shown
    <3>2. CASE slide.state = "OPENING" /\ slide' = [slide EXCEPT !.state = "OPEN"]
               /\ UNCHANGED scene
      <4>1. SameReveals
        BY <2>2, <3>2, StateSet DEF World, Plugins, SameReveals, States, Shown
      <4> QED
        BY <1>0, <3>2, <4>1, SameWorld
    <3> QED
      BY <2>2, <3>1, <3>2 DEF SlideFrame
  <2> QED
    BY <1>2, <2>1, <2>2 DEF Frame
<1>3. CASE OutputInhibited
  <2>1. CASE CurtainCancel /\ UNCHANGED slide
    BY <1>0, <2>1, RevealsEnd DEF CurtainCancel
  <2>2. CASE SlideCancel /\ UNCHANGED curtain
    BY <1>0, <2>2, RevealsEnd DEF SlideCancel
  <2> QED
    BY <1>3, <2>1, <2>2 DEF OutputInhibited
<1>4. CASE LoadPlugins
  <2>1. \/ CurtainFini /\ UNCHANGED slide
        \/ SlideFini /\ UNCHANGED curtain
        \/ CurtainInit /\ UNCHANGED slide
        \/ SlideInit /\ UNCHANGED curtain
    BY <1>4 DEF LoadPlugins
  <2> QED
    BY <1>0, <2>1, CurtainUnloads, SlideUnloads, CurtainLoads, SlideLoads
<1> QED
  BY <1>1, <1>2, <1>3, <1>4

(* The drawer hears of the focus once less.                                   *)
LEMMA HearingKeeps == ASSUME World, HearFocus PROVE World'
<1>0. /\ SameReveals /\ news # <<>> /\ news' = Tail(news)
      /\ UNCHANGED <<mapped, off, overlays, hooked, active, wins, keys, listening, running>>
  BY StaySame DEF HearFocus, OnFocusChanged
<1>1. Plugins' /\ Holds' /\ Views' /\ UNCHANGED <<Reveals(curtain.state), Reveals(slide.state)>>
  BY <1>0, SamePlugins
<1>2. /\ news' \in Seq(Windows \union {NoWindow})
      /\ Len(news') \in Nat /\ Len(news) \in Nat /\ Len(news') <= Len(news)
  BY <1>0 DEF World, Keyboard
<1>3. Reveals(curtain.state) \in 0..1 /\ Reveals(slide.state) \in 0..1
  BY DEF Reveals
<1>4. Len(news') + Reveals(curtain'.state) + Reveals(slide'.state) <= MaxNews + 2
  BY <1>1, <1>2, <1>3, SceneConstants DEF World, Keyboard
<1> QED
  BY <1>0, <1>1, <1>2, <1>4 DEF World, Keyboard

LEMMA StartKeeps == ASSUME World, DrawerStarts PROVE World'
<1>0. /\ SameReveals /\ UNCHANGED <<mapped, off, overlays, hooked, active, wins, keys>>
      /\ running' /\ listening' = TRUE
      /\ news' = IF Toplevel(keys) = NoWindow THEN <<>> ELSE <<Toplevel(keys)>>
  BY ClosingKeeps DEF DrawerStarts, CloseReveal, Activate
<1>1. Plugins' /\ Holds' /\ Views'
  BY <1>0, SamePlugins
<1>2. /\ news' \in Seq(Windows \union {NoWindow}) /\ Len(news') \in 0..1
  <2>1. Toplevel(keys) \in Windows \union {NoWindow}
    BY DEF Toplevel
  <2>2. CASE Toplevel(keys) = NoWindow
    BY <1>0, <2>2
  <2>3. CASE Toplevel(keys) # NoWindow
    <3>1. news' = <<Toplevel(keys)>>
      BY <1>0, <2>3
    <3> QED
      BY <2>1, <3>1
  <2> QED
    BY <2>2, <2>3
<1>3. Reveals(curtain'.state) \in 0..1 /\ Reveals(slide'.state) \in 0..1
  BY DEF Reveals
<1>4. Len(news') + Reveals(curtain'.state) + Reveals(slide'.state) <= MaxNews + 2
  <2>1. MaxNews \in Nat /\ MaxNews >= 1
    BY SceneConstants
  <2>2. \A a, b, c \in 0..1 : a + b + c <= MaxNews + 2
    BY <2>1
  <2> QED
    BY <1>2, <1>3, <2>2
<1> QED
  BY <1>0, <1>1, <1>2, <1>4 DEF World, Keyboard

LEMMA NextWorld == World /\ [Next]_vars => World'
<1> SUFFICES ASSUME World, [Next]_vars PROVE World'
  OBVIOUS
<1>1. CASE Toggle \/ Frame \/ OutputInhibited \/ LoadPlugins
  BY <1>1, StyleKeeps
<1>2. CASE WidgetsMap \/ WidgetsUnmap
  BY <1>2, WidgetsKeep
<1>3. CASE ClickGrid \/ \E w \in Windows : WindowMaps(w) \/ WindowCloses(w)
  BY <1>3, WindowsKeep
<1>5. CASE DrawerStarts
  BY <1>5, StartKeeps
<1>6. CASE DrawerMaps
  BY <1>6, GridMaps
<1>7. CASE DrawerRebuilds \/ DrawerCrashes
  BY <1>7, GridGoes DEF DrawerRebuilds, DrawerCrashes, RebuildWindows, Crash
<1>8. CASE HearFocus
  BY <1>8, HearingKeeps
<1>9. CASE Launch \/ Escape
  BY <1>9, CloseKeeps DEF Launch, Escape, EnterLaunches, Dismiss
<1>10. CASE \/ ConfigReloaded \/ StyleSecondWrite
            \/ \E s \in {"curtain", "slide"} : ChooseStyle(s)
  <2>1. UNCHANGED <<scene, curtain, slide, running>>
    BY <1>10 DEF ConfigReloaded, StyleSecondWrite, ChooseStyle, drawer
  <2> QED
    BY <2>1, StaySame, SameWorld
<1>11. CASE KeyInDrawer \/ ClickDots \/ SearchDue \/ ReloadDue \/ AppsChanged
  <2>1. UNCHANGED <<scene, curtain, slide, running>>
    BY <1>11 DEF KeyInDrawer, ClickDots, SearchDue, ReloadDue, AppsChanged, Type, Clear,
         EnterSearches, TurnPage, SearchChanged, Reload, AppsChange
  <2> QED
    BY <2>1, StaySame, SameWorld
<1>12. CASE UNCHANGED vars
  <2>1. UNCHANGED <<scene, curtain, slide, running>>
    BY <1>12 DEF vars, drawer
  <2> QED
    BY <2>1, StaySame, SameWorld
<1> QED
  BY <1>1, <1>2, <1>3, <1>5, <1>6, <1>7, <1>8, <1>9, <1>10, <1>11, <1>12, Zenon DEF Next

(***************************************************************************)
(* What is hidden, when Wayfire never reads its file between two writes.   *)
(***************************************************************************)

(* The writes of a choice go through lists that Wayfire does not read, so at  *)
(* most one of the two plugins is wanted, and loaded, at a time.              *)
Choice ==
    /\ wanted \in {{"curtain"}, {"slide"}}
    /\ \/ style = "none" /\ listed \in {{"curtain"}, {"slide"}}
       \/ style = "slide" /\ listed \in {{"slide"}, {"curtain", "slide"}}
       \/ style = "curtain" /\ listed \in {{}, {"curtain"}}
    /\ curtain.state = "NONE" \/ slide.state = "NONE"

(* A plugin remembers the views that it has to enable again: one that is      *)
(* hidden and forgotten would stay hidden.                                    *)
Hidden ==
    /\ off \intersect Layers = IF curtain.state \in Shown THEN Layers
                               ELSE IF slide.state \in Shown THEN SlideLayers ELSE {}
    /\ "grid" \in off => /\ curtain.state # "NONE" => curtain.desktop
                         /\ slide.state # "NONE" => slide.desktop
    /\ "grid" \in mapped =>
         ("grid" \in off <=> curtain.state = "IDLE" \/ slide.state = "IDLE")
    /\ "widgets" \in off => \/ curtain.state \in Shown /\ curtain.widget
                            \/ slide.state \in Shown /\ slide.widget

Settled == Choice /\ Hidden

LEMMA InitSettled == Init => Settled
<1> SUFFICES ASSUME Init PROVE Settled
  OBVIOUS
<1>1. mapped = {} /\ off = {} /\ wanted = listed /\ style = "none"
  BY DEF Init
<1>2. \/ curtain.state = "IDLE" /\ slide.state = "NONE" /\ listed = {"curtain"}
      \/ curtain.state = "NONE" /\ slide.state = "IDLE" /\ listed = {"slide"}
  BY DEF Init, CurtainUnloaded, SlideUnloaded
<1>3. Choice
  BY <1>1, <1>2 DEF Choice
<1>4. Hidden
  BY <1>1, <1>2 DEF Hidden, Shown
<1> QED
  BY <1>3, <1>4 DEF Settled

(* What is disabled while one plugin is loaded.                               *)
LEMMA WhileCurtain ==
    ASSUME World, Settled, curtain.state # "NONE"
    PROVE  /\ slide.state = "NONE" /\ curtain.state \in Shown \union {"IDLE"}
           /\ off \subseteq Layers \union {"grid", "widgets"}
           /\ curtain.state \notin Shown => off \subseteq {"grid"}
           /\ Layers \intersect off = (IF curtain.state \in Shown THEN Layers ELSE {})
           /\ "grid" \in off => curtain.desktop
           /\ "widgets" \in off => curtain.widget
           /\ curtain.desktop => "grid" \in mapped
           /\ curtain.widget => "widgets" \in mapped
           /\ CurtainDesktop <=> "grid" \in mapped
           /\ curtain.desktop \in BOOLEAN /\ curtain.widget \in BOOLEAN
<1>1. slide.state = "NONE" /\ curtain.state \in Shown \union {"IDLE"} /\ slide.state \notin Shown
  BY DEF World, Plugins, Plugin, Settled, Choice, Shown, States
<1>2. /\ off \subseteq Layers \union {"grid", "widgets"}
      /\ curtain.desktop => "grid" \in mapped
      /\ curtain.widget => "widgets" \in mapped
      /\ "grid" \in off => curtain.desktop
      /\ curtain.desktop \in BOOLEAN /\ curtain.widget \in BOOLEAN
  BY DEF World, Plugins, Plugin, Views, Settled, Hidden
<1>3. /\ "widgets" \in off => curtain.widget
      /\ Layers \intersect off = (IF curtain.state \in Shown THEN Layers ELSE {})
      /\ curtain.state \notin Shown => "widgets" \notin off
  BY <1>1 DEF Settled, Hidden
<1>4. curtain.state \notin Shown => off \subseteq {"grid"}
  BY <1>2, <1>3
<1> QED
  BY <1>1, <1>2, <1>3, <1>4 DEF CurtainDesktop, Visible

LEMMA WhileSlide ==
    ASSUME World, Settled, slide.state # "NONE"
    PROVE  /\ curtain.state = "NONE" /\ slide.state \in Shown \union {"IDLE"}
           /\ off \subseteq Layers \union {"grid", "widgets"}
           /\ slide.state \notin Shown => off \subseteq {"grid"}
           /\ Layers \intersect off = (IF slide.state \in Shown THEN SlideLayers ELSE {})
           /\ "grid" \in off => slide.desktop
           /\ "widgets" \in off => slide.widget
           /\ slide.desktop => "grid" \in mapped
           /\ slide.widget => "widgets" \in mapped
           /\ SlideDesktop <=> "grid" \in mapped
           /\ slide.desktop \in BOOLEAN /\ slide.widget \in BOOLEAN
<1>1. curtain.state = "NONE" /\ slide.state \in Shown \union {"IDLE"} /\ curtain.state \notin Shown
  BY DEF World, Plugins, SlidePlugin, States, Settled, Choice, Shown
<1>2. /\ off \subseteq Layers \union {"grid", "widgets"}
      /\ slide.desktop => "grid" \in mapped
      /\ slide.widget => "widgets" \in mapped
      /\ "grid" \in off => slide.desktop
      /\ slide.desktop \in BOOLEAN /\ slide.widget \in BOOLEAN
  BY DEF World, Plugins, SlidePlugin, Views, Settled, Hidden
<1>3. /\ "widgets" \in off => slide.widget
      /\ Layers \intersect off = (IF slide.state \in Shown THEN SlideLayers ELSE {})
      /\ slide.state \notin Shown => "widgets" \notin off
  BY <1>1 DEF Settled, Hidden
<1>4. slide.state \notin Shown => off \subseteq {"grid"}
  BY <1>2, <1>3
<1> QED
  BY <1>1, <1>2, <1>3, <1>4 DEF SlideDesktop, Visible

(* The choice is not disturbed by a step that loads nothing.                  *)
LEMMA ChoiceKeeps ==
    ASSUME Choice, UNCHANGED settings,
           curtain.state = "NONE" => curtain'.state = "NONE",
           slide.state = "NONE" => slide'.state = "NONE"
    PROVE  Choice'
  BY DEF Choice, settings

LEMMA CurtainOpensSettled ==
    ASSUME World, Settled, CurtainStartOpen, UNCHANGED <<slide, settings>>
    PROVE  Settled'
<1>1. curtain.state = "IDLE" /\ curtain' = CurtainKnows("OPENING")
  BY DEF CurtainStartOpen
<1>2. /\ curtain'.state = "OPENING" /\ (curtain'.widget <=> CurtainWidget)
      /\ slide'.state = "NONE" /\ slide.state = "NONE"
  BY <1>1, Remembers, WhileCurtain DEF States
<1>3. /\ off' \intersect Layers = Layers /\ "grid" \notin off'
      /\ "widgets" \in off' => CurtainWidget
  BY <1>1, WhileCurtain DEF CurtainStartOpen, View, Layers, Shown
<1>4. Choice'
  BY <1>1, <1>2, ChoiceKeeps DEF Settled
<1>5. Hidden'
  BY <1>2, <1>3 DEF Hidden, Shown
<1> QED
  BY <1>4, <1>5 DEF Settled

LEMMA SlideOpensSettled ==
    ASSUME World, Settled, SlideStartOpen, UNCHANGED <<curtain, settings>>
    PROVE  Settled'
<1>1. slide.state = "IDLE" /\ slide' = SlideKnows("OPENING", SlideDesktop) /\ SlideDesktop \in BOOLEAN
  BY WhileSlide DEF SlideStartOpen, SlideDesktop, Visible
<1>2. /\ slide'.state = "OPENING" /\ (slide'.widget <=> SlideWidget)
      /\ curtain'.state = "NONE" /\ curtain.state = "NONE"
  BY <1>1, Remembers, WhileSlide DEF States
<1>3. /\ off' \intersect Layers = SlideLayers /\ "grid" \notin off'
      /\ "widgets" \in off' => SlideWidget
  BY <1>1, WhileSlide DEF SlideStartOpen, View, Layers, SlideLayers, Shown
<1>4. Choice'
  BY <1>1, <1>2, ChoiceKeeps DEF Settled
<1>5. Hidden'
  BY <1>2, <1>3 DEF Hidden, Shown
<1> QED
  BY <1>4, <1>5 DEF Settled

(* The end of a reveal hides the grid and nothing else.                       *)
LEMMA EndsSettled ==
    ASSUME World, Settled, UNCHANGED settings,
           \/ curtain.state \in Shown /\ CurtainHardReset /\ UNCHANGED slide
           \/ slide.state \in Shown /\ SlideHardReset /\ UNCHANGED curtain
    PROVE  Settled'
<1>1. CASE curtain.state \in Shown /\ CurtainHardReset /\ UNCHANGED slide
  <2>1. curtain.state # "NONE" /\ curtain' = CurtainKnows("IDLE") /\ mapped' = mapped
    BY <1>1 DEF CurtainHardReset, CurtainClear, Shown
  <2>2. /\ curtain'.state = "IDLE" /\ (curtain'.desktop <=> CurtainDesktop)
        /\ slide'.state = "NONE" /\ slide.state = "NONE"
    BY <1>1, <2>1, Remembers, WhileCurtain DEF States
  <2>3. CurtainWidget \/ "widgets" \notin off
    BY <2>1, WhileCurtain DEF CurtainWidget
  <2>4. off' = View("grid", CurtainDesktop)
    BY <1>1, <2>1, <2>3, WhileCurtain DEF CurtainHardReset, CurtainClear, View
  <2>5. Choice'
    BY <2>1, <2>2, ChoiceKeeps DEF Settled
  <2>6. Hidden'
    BY <2>1, <2>2, <2>4, WhileCurtain DEF Hidden, Shown, View, Layers
  <2> QED
    BY <2>5, <2>6 DEF Settled
<1>2. CASE slide.state \in Shown /\ SlideHardReset /\ UNCHANGED curtain
  <2>1. slide.state # "NONE" /\ slide' = SlideKnows("IDLE", FALSE) /\ mapped' = mapped
    BY <1>2 DEF SlideHardReset, SlideClear, Shown
  <2>2. /\ slide'.state = "IDLE" /\ (slide'.desktop <=> SlideDesktop)
        /\ curtain'.state = "NONE" /\ curtain.state = "NONE"
    BY <1>2, <2>1, Remembers, WhileSlide DEF States
  <2>3. SlideWidget \/ "widgets" \notin off
    BY <2>1, WhileSlide DEF SlideWidget
  <2>4. off' = View("grid", SlideDesktop)
    BY <1>2, <2>1, <2>3, WhileSlide DEF SlideHardReset, SlideClear, View, SlideLayers, Layers
  <2>5. Choice'
    BY <2>1, <2>2, ChoiceKeeps DEF Settled
  <2>6. Hidden'
    BY <2>1, <2>2, <2>4, WhileSlide DEF Hidden, Shown, View, Layers
  <2> QED
    BY <2>5, <2>6 DEF Settled
<1> QED
  BY <1>1, <1>2

(* An unloaded plugin leaves nothing disabled, whatever it was doing.         *)
LEMMA UnloadsSettled ==
    ASSUME World, Settled, UNCHANGED settings,
           \/ CurtainFini /\ UNCHANGED slide
           \/ SlideFini /\ UNCHANGED curtain
    PROVE  Settled'
<1>1. CASE CurtainFini /\ UNCHANGED slide
  <2>1. curtain.state # "NONE" /\ curtain' = CurtainUnloaded
    BY <1>1 DEF CurtainFini
  <2>2. CurtainWidget \/ "widgets" \notin off
    BY <2>1, WhileCurtain DEF CurtainWidget
  <2>3. "grid" \in off => CurtainDesktop
    BY <2>1, WhileCurtain DEF CurtainDesktop
  <2>4. off' = {}
    <3>1. CASE curtain.state = "IDLE" /\ off' = off \ (View("grid", CurtainDesktop)
                                                   \union View("widgets", CurtainWidget))
      BY <2>1, <2>3, <3>1, WhileCurtain DEF View, Shown
    <3>2. CASE curtain.state # "IDLE" /\ CurtainClear({})
      BY <2>1, <2>2, <2>3, <3>2, WhileCurtain DEF View, CurtainClear
    <3> QED
      BY <1>1, <3>1, <3>2 DEF CurtainFini
  <2>5. curtain'.state = "NONE" /\ slide'.state = "NONE" /\ slide.state = "NONE"
    BY <1>1, <2>1, Unloaded, WhileCurtain
  <2>6. Choice'
    BY <2>1, <2>5, ChoiceKeeps DEF Settled
  <2> QED
    BY <2>4, <2>5, <2>6 DEF Settled, Hidden, Shown
<1>2. CASE SlideFini /\ UNCHANGED curtain
  <2>1. slide.state # "NONE" /\ slide' = SlideUnloaded
    BY <1>2 DEF SlideFini
  <2>2. SlideWidget \/ "widgets" \notin off
    BY <2>1, WhileSlide DEF SlideWidget
  <2>3. "grid" \in off => SlideDesktop
    BY <2>1, WhileSlide DEF SlideDesktop
  <2>4. off' = {}
    <3>1. CASE slide.state = "IDLE" /\ off' = off \ (View("grid", SlideDesktop)
                                                 \union View("widgets", SlideWidget))
      BY <2>1, <2>3, <3>1, WhileSlide DEF View, Shown
    <3>2. CASE slide.state # "IDLE" /\ SlideClear({})
      BY <2>1, <2>2, <2>3, <3>2, WhileSlide DEF View, SlideClear, SlideLayers, Layers
    <3> QED
      BY <1>2, <3>1, <3>2 DEF SlideFini
  <2>5. slide'.state = "NONE" /\ curtain'.state = "NONE" /\ curtain.state = "NONE"
    BY <1>2, <2>1, Unloaded, WhileSlide
  <2>6. Choice'
    BY <2>1, <2>5, ChoiceKeeps DEF Settled
  <2> QED
    BY <2>4, <2>5, <2>6 DEF Settled, Hidden, Shown
<1> QED
  BY <1>1, <1>2

(* A plugin that is loaded hides the grid that is there.                      *)
LEMMA LoadsSettled ==
    ASSUME World, Settled, UNCHANGED settings, Loaded \subseteq wanted,
           \/ "curtain" \in wanted /\ CurtainInit /\ UNCHANGED slide
           \/ "slide" \in wanted /\ SlideInit /\ UNCHANGED curtain
    PROVE  Settled'
<1>1. wanted \in {{"curtain"}, {"slide"}} /\ UNCHANGED <<wanted, listed, style>>
  BY DEF Settled, Choice, settings
<1>2. CASE "curtain" \in wanted /\ CurtainInit /\ UNCHANGED slide
  <2>1. slide.state = "NONE" /\ slide'.state = "NONE" /\ curtain.state = "NONE"
    BY <1>1, <1>2 DEF Loaded, CurtainInit
  <2>2. off = {}
    BY <2>1 DEF World, Views, Settled, Hidden, Shown
  <2>3. /\ curtain'.state = "IDLE" /\ (curtain'.desktop <=> "grid" \in mapped) /\ mapped' = mapped
        /\ off' = View("grid", "grid" \in mapped)
    BY <1>2, <2>2 DEF CurtainInit, Visible
  <2>4. Choice'
    BY <1>1, <2>1 DEF Settled, Choice
  <2>5. Hidden'
    BY <2>1, <2>3 DEF Hidden, View, Layers, Shown
  <2> QED
    BY <2>4, <2>5 DEF Settled
<1>3. CASE "slide" \in wanted /\ SlideInit /\ UNCHANGED curtain
  <2>1. slide.state = "NONE" /\ curtain'.state = "NONE" /\ curtain.state = "NONE"
    BY <1>1, <1>3 DEF Loaded, SlideInit
  <2>2. off = {}
    BY <2>1 DEF World, Views, Settled, Hidden, Shown
  <2>3. /\ slide'.state = "IDLE" /\ (slide'.desktop <=> "grid" \in mapped) /\ mapped' = mapped
        /\ off' = View("grid", "grid" \in mapped)
    BY <1>3, <2>2 DEF SlideInit, SlideUnloaded, Visible
  <2>4. Choice'
    BY <1>1, <2>1 DEF Settled, Choice
  <2>5. Hidden'
    BY <2>1, <2>3 DEF Hidden, View, Layers, Shown
  <2> QED
    BY <2>4, <2>5 DEF Settled
<1> QED
  BY <1>2, <1>3

LEMMA ViewsSettled ==
    ASSUME World, Settled, UNCHANGED settings,
           WidgetsMap \/ WidgetsUnmap \/ GridGone \/ DrawerMaps
    PROVE  Settled'
<1>1. CASE WidgetsMap
  BY <1>1, ChoiceKeeps DEF WidgetsMap, Settled, Hidden, Layers
<1>2. CASE WidgetsUnmap
  <2>1. /\ curtain'.state = curtain.state /\ curtain'.desktop = curtain.desktop
        /\ slide'.state = slide.state /\ slide'.desktop = slide.desktop
        /\ off' = off \ {"widgets"} /\ ("grid" \in mapped' <=> "grid" \in mapped)
    BY <1>2 DEF WidgetsUnmap, CurtainOnUnmapped, SlideOnUnmapped, World, Plugins, Plugin, SlidePlugin
  <2>2. Choice'
    BY <2>1, ChoiceKeeps DEF Settled
  <2>3. Hidden'
    BY <2>1 DEF Settled, Hidden, Layers
  <2> QED
    BY <2>2, <2>3 DEF Settled
<1>3. CASE GridGone
  <2>1. /\ curtain'.state = curtain.state /\ curtain'.widget = curtain.widget
        /\ off' = off \ {"grid"} /\ "grid" \notin mapped'
    BY <1>3 DEF GridGone, CurtainOnUnmapped, World, Plugins, Plugin
  <2>2. slide'.state = slide.state /\ slide'.widget = slide.widget
    BY <1>3 DEF GridGone, SlideOnUnmapped, World, Plugins, SlidePlugin
  <2>3. Choice'
    BY <2>1, <2>2, ChoiceKeeps DEF Settled
  <2>4. Hidden'
    BY <2>1, <2>2 DEF Settled, Hidden, Layers
  <2> QED
    BY <2>3, <2>4 DEF Settled
<1>4. CASE DrawerMaps
  <2>1. /\ curtain'.state = curtain.state /\ curtain'.widget = curtain.widget
        /\ curtain.state # "NONE" => curtain'.desktop
    BY <1>4 DEF DrawerMaps, CurtainOnMapped, World, Plugins, Plugin
  <2>2. /\ slide'.state = slide.state /\ slide'.widget = slide.widget
        /\ slide.state # "NONE" => slide'.desktop
    BY <1>4 DEF DrawerMaps, SlideOnMapped, World, Plugins, SlidePlugin
  <2>3. /\ "grid" \in off' <=> (curtain.state = "IDLE" \/ slide.state = "IDLE")
        /\ off' \ {"grid"} = off \ {"grid"}
    BY <1>4 DEF DrawerMaps, CurtainHidesMapped, SlideHidesMapped
  <2>4. Choice'
    BY <2>1, <2>2, ChoiceKeeps DEF Settled
  <2>5. Hidden'
    BY <2>1, <2>2, <2>3 DEF Settled, Hidden, Layers
  <2> QED
    BY <2>4, <2>5 DEF Settled
<1> QED
  BY <1>1, <1>2, <1>3, <1>4

LEMMA SameSettled ==
    ASSUME World, Settled, SameReveals, UNCHANGED <<mapped, off>>
    PROVE  /\ Hidden'
           /\ UNCHANGED settings => Settled'
<1>1. /\ curtain.state \in Shown <=> curtain'.state \in Shown
      /\ slide.state \in Shown <=> slide'.state \in Shown
      /\ curtain.state = "IDLE" <=> curtain'.state = "IDLE"
      /\ slide.state = "IDLE" <=> slide'.state = "IDLE"
      /\ curtain.state = "NONE" <=> curtain'.state = "NONE"
      /\ slide.state = "NONE" <=> slide'.state = "NONE"
  BY DEF SameReveals, Shown
<1>2. Hidden'
  BY <1>1 DEF SameReveals, Settled, Hidden
<1> QED
  BY <1>1, <1>2, ChoiceKeeps DEF Settled

LEMMA StyleSettled ==
    ASSUME World, Settled, Toggle \/ Frame \/ OutputInhibited \/ LoadPlugins
    PROVE  Settled'
<1>0. /\ UNCHANGED settings
      /\ "curtain" \in active <=> curtain.state \in Shown
      /\ "slide" \in active <=> slide.state \in Shown
  BY DEF World, Holds, Toggle, Frame, OutputInhibited, LoadPlugins
<1>1. CASE Toggle
  <2>1. CASE CurtainStartOpen /\ UNCHANGED slide
    BY <1>0, <2>1, CurtainOpensSettled
  <2>2. CASE SlideStartOpen /\ UNCHANGED curtain
    BY <1>0, <2>2, SlideOpensSettled
  <2>3. CASE \/ CurtainStartClose /\ UNCHANGED slide
             \/ SlideStartClose /\ UNCHANGED curtain
    <3>1. SameReveals
      BY <2>3, ClosingKeeps DEF CurtainStartClose, SlideStartClose
    <3> QED
      BY <1>0, <2>3, <3>1, SameSettled DEF CurtainStartClose, SlideStartClose, scene
  <2> QED
    BY <1>1, <2>1, <2>2, <2>3 DEF Toggle, CurtainToggle, SlideToggle
<1>2. CASE Frame
  <2>1. CASE \/ curtain.state = "CLOSING" /\ CurtainHardReset /\ UNCHANGED slide
             \/ slide.state = "CLOSING" /\ SlideHardReset /\ UNCHANGED curtain
    BY <1>0, <2>1, EndsSettled DEF Shown
  <2>2. CASE \/ /\ curtain.state = "OPENING" /\ curtain' = [curtain EXCEPT !.state = "OPEN"]
                /\ UNCHANGED <<slide, scene>>
             \/ /\ slide.state = "OPENING" /\ slide' = [slide EXCEPT !.state = "OPEN"]
                /\ UNCHANGED <<curtain, scene>>
    <3>1. curtain \in Plugin /\ slide \in SlidePlugin /\ "OPEN" \in States
      BY DEF World, Plugins, States
    <3>2. SameReveals
      <4>1. CASE curtain.state = "OPENING" /\ curtain' = [curtain EXCEPT !.state = "OPEN"]
                 /\ UNCHANGED slide
        BY <3>1, <4>1, StateSet DEF SameReveals, Shown
      <4>2. CASE slide.state = "OPENING" /\ slide' = [slide EXCEPT !.state = "OPEN"]
                 /\ UNCHANGED curtain
        BY <3>1, <4>2, StateSet DEF SameReveals, Shown
      <4> QED
        BY <2>2, <4>1, <4>2
    <3> QED
      BY <1>0, <2>2, <3>2, SameSettled DEF scene
  <2> QED
    BY <1>2, <2>1, <2>2 DEF Frame, CurtainFrame, SlideFrame
<1>3. CASE OutputInhibited
  BY <1>0, <1>3, EndsSettled DEF OutputInhibited, CurtainCancel, SlideCancel
<1>4. CASE LoadPlugins
  BY <1>0, <1>4, UnloadsSettled, LoadsSettled DEF LoadPlugins
<1> QED
  BY <1>1, <1>2, <1>3, <1>4

LEMMA WritesSettled ==
    ASSUME ~ReadsBetween, World, Settled,
           \/ ConfigReloaded \/ StyleSecondWrite
           \/ \E s \in {"curtain", "slide"} : ChooseStyle(s)
    PROVE  Settled'
<1>1. UNCHANGED <<mapped, off, curtain, slide>> /\ SameReveals
  BY StaySame DEF ConfigReloaded, StyleSecondWrite, ChooseStyle, scene
<1>2. Hidden'
  BY <1>1, SameSettled
<1>3. Choice'
  <2>1. CASE ConfigReloaded
    BY <2>1 DEF ConfigReloaded, Settled, Choice
  <2>2. CASE StyleSecondWrite
    BY <2>2 DEF StyleSecondWrite, Settled, Choice
  <2>3. CASE ChooseStyle("curtain")
    BY <2>3 DEF ChooseStyle, Settled, Choice
  <2>4. CASE ChooseStyle("slide")
    BY <2>4 DEF ChooseStyle, Settled, Choice
  <2> QED
    BY <2>1, <2>2, <2>3, <2>4
<1> QED
  BY <1>2, <1>3 DEF Settled

LEMMA NextSettled ==
    ASSUME ~ReadsBetween
    PROVE  World /\ Settled /\ [Next]_vars => Settled'
<1> SUFFICES ASSUME World, Settled, [Next]_vars PROVE Settled'
  OBVIOUS
<1>1. CASE Toggle \/ Frame \/ OutputInhibited \/ LoadPlugins
  BY <1>1, StyleSettled
<1>2. CASE \/ ConfigReloaded \/ StyleSecondWrite
           \/ \E s \in {"curtain", "slide"} : ChooseStyle(s)
  BY <1>2, WritesSettled
<1>3. CASE WidgetsMap \/ WidgetsUnmap \/ DrawerMaps \/ DrawerRebuilds \/ DrawerCrashes
  BY <1>3, ViewsSettled DEF WidgetsMap, WidgetsUnmap, DrawerMaps, DrawerRebuilds, DrawerCrashes, GridGone
<1>4. CASE DrawerStarts \/ Launch \/ Escape
  <2>1. SameReveals /\ UNCHANGED <<mapped, off, settings>>
    BY <1>4, ClosingKeeps DEF DrawerStarts, Launch, Escape, CloseReveal, scene
  <2> QED
    BY <2>1, SameSettled
<1>5. CASE \/ ClickGrid \/ HearFocus
           \/ \E w \in Windows : WindowMaps(w) \/ WindowCloses(w)
  <2>1. SameReveals /\ UNCHANGED <<mapped, off, settings>>
    BY <1>5, StaySame DEF ClickGrid, HearFocus, WindowMaps, WindowCloses
  <2> QED
    BY <2>1, SameSettled
<1>6. CASE \/ KeyInDrawer \/ ClickDots \/ SearchDue \/ ReloadDue \/ AppsChanged
           \/ UNCHANGED vars
  <2>1. SameReveals /\ UNCHANGED <<mapped, off, settings>>
    BY <1>6, StaySame DEF KeyInDrawer, ClickDots, SearchDue, ReloadDue, AppsChanged, vars, scene
  <2> QED
    BY <2>1, SameSettled
<1> QED
  BY <1>1, <1>2, <1>3, <1>4, <1>5, <1>6, Zenon DEF Next

LEMMA WorldStays == Spec => []World
  BY InitWorld, NextWorld, PTL DEF Spec

(* Whichever way a reveal ends -- its last frame, a cancelled output, the     *)
(* unloading of its plugin -- it gives back what it took, and until then it   *)
(* has it: hard_reset() and fini() of curtain-peek.cpp and slide-peek.cpp.    *)
(* For any number of choices, windows and reports, but only if Wayfire does   *)
(* not read the list between the two writes of a choice.                      *)
THEOREM RevealIsBracketed == ASSUME ~ReadsBetween PROVE Spec => []RevealBracketed
<1>1. World /\ Settled /\ [Next]_vars => Settled'
  BY NextSettled
<1>2. World /\ Settled => RevealBracketed
  <2> SUFFICES ASSUME World, Settled PROVE RevealBracketed
    OBVIOUS
  <2>1. /\ Revealing("curtain") <=> curtain.state \in Shown
        /\ Revealing("slide") <=> slide.state \in Shown
    BY DEF Revealing, Shown
  <2>2. (\E p \in Loaded : ~Revealing(p)) <=> (curtain.state = "IDLE" \/ slide.state = "IDLE")
    BY DEF Loaded, Revealing, World, Plugins, Plugin, SlidePlugin, States
  <2>3. (\E p \in Loaded : Revealing(p)) <=> (curtain.state \in Shown \/ slide.state \in Shown)
    BY <2>1 DEF Loaded, Shown
  <2>4. \A p \in {"curtain", "slide"} :
          (p \in hooked) = Revealing(p) /\ (p \in active) = Revealing(p)
    <3>1. \A p \in {"curtain", "slide"} : (p \in hooked <=> Revealing(p)) /\ (p \in active <=> Revealing(p))
      BY <2>1 DEF World, Holds
    <3> QED
      BY <3>1 DEF Revealing
  <2>5. /\ overlays = (IF Revealing("curtain") THEN CurtainNodes ELSE {})
                      \union View("slide snapshot", Revealing("slide"))
                      \union View("slide transformer", slide.tr)
        /\ slide.tr => Revealing("slide")
    BY <2>1 DEF World, Holds, Plugins, View
  <2>6. off \intersect Layers = IF Revealing("curtain") THEN Layers
                                ELSE IF Revealing("slide") THEN SlideLayers ELSE {}
    BY <2>1 DEF Settled, Hidden
  <2>7. "grid" \in mapped => ("grid" \in off) = (\E p \in Loaded : ~Revealing(p))
    <3> DEFINE Idle == \E p \in Loaded : ~Revealing(p)
    <3>1. Idle \in BOOLEAN /\ ("grid" \in mapped => ("grid" \in off <=> Idle))
      BY <2>2 DEF Settled, Hidden
    <3> HIDE DEF Idle
    <3>2. "grid" \in mapped => ("grid" \in off) = Idle
      BY <3>1
    <3> QED
      BY <3>2 DEF Idle
  <2>8. "widgets" \in off => \E p \in Loaded : Revealing(p)
    BY <2>3 DEF Settled, Hidden
  <2> QED
    BY <2>4, <2>5, <2>6, <2>7, <2>8 DEF RevealBracketed
<1> QED
  BY <1>1, <1>2, InitSettled, WorldStays, PTL DEF Spec

(***************************************************************************)
(* The drawer's window.                                                    *)
(***************************************************************************)

(* There are finitely many apps, so there is at least one page.               *)
LEMMA AppsFinite == IsFiniteSet(ToSet(Apps)) /\ IsFiniteSet(DOMAIN Apps)
<1>1. DOMAIN Apps = 1 .. Len(Apps) /\ Len(Apps) \in Nat
  <2>1. Apps \in Seq(STRING)
    BY DrawerConstants
  <2> QED
    BY <2>1, LenProperties
<1>2. IsFiniteSet(DOMAIN Apps)
  BY <1>1, FS_Interval
<1>3. [i \in DOMAIN Apps |-> Apps[i]] \in Surjection(DOMAIN Apps, ToSet(Apps))
  BY DEF Surjection, ToSet
<1> QED
  BY <1>2, <1>3, FS_Surjection

LEMMA PageCount ==
    ASSUME NEW as \in SUBSET ToSet(Apps)
    PROVE  PagedGrid(as) \in [count : Nat \ {0}, page : Nat] /\ PagedGrid(as).page = 0
<1>1. CASE as = {}
  BY <1>1 DEF PagedGrid
<1>2. CASE as # {}
  <2>1. Cardinality(as) \in Nat \ {0}
    BY <1>2, AppsFinite, FS_Subset, FS_CardinalityType, FS_EmptySet
  <2>2. \A n \in Nat \ {0}, p \in Nat \ {0} : (n + p - 1) \div p \in Nat \ {0}
    OBVIOUS
  <2> QED
    BY <1>2, <2>1, <2>2, DrawerConstants DEF PagedGrid
<1> QED
  BY <1>1, <1>2

(* The results fit on one page, whatever matches.                             *)
LEMMA OrderedApps == ASSUME NEW as PROVE \E S : InOrder(as) \in Seq(S)
<1> DEFINE places == {i \in DOMAIN Apps : Apps[i] \in as}
           e(k)   == Apps[CHOOSE i \in places : Cardinality({j \in places : j <= i}) = k]
           n      == Cardinality(places)
<1>1. n \in Nat
  BY AppsFinite, FS_Subset, FS_CardinalityType
<1>2. InOrder(as) = [k \in 1 .. n |-> e(k)]
  BY DEF InOrder
<1> HIDE DEF e, n
<1>3. [k \in 1 .. n |-> e(k)] \in Seq({e(k) : k \in 1 .. n})
  BY <1>1
<1> QED
  BY <1>2, <1>3

LEMMA OnePage ==
    ASSUME NEW q, NEW as
    PROVE  Len(Index(q, as)) \in Nat /\ Len(Index(q, as)) <= PerPage
<1> DEFINE first == InOrder(as \intersect Prefix[q])
           rest  == InOrder((as \intersect Fuzzy[q]) \ Prefix[q])
           all   == first \o rest
           most  == IF Len(all) < PerPage THEN Len(all) ELSE PerPage
<1>1. PICK S, T : first \in Seq(S) /\ rest \in Seq(T)
  BY OrderedApps
<1>2. first \in Seq(S \union T) /\ rest \in Seq(S \union T)
  BY <1>1, SeqMonotonic
<1>3. Len(all) \in Nat
  BY <1>2, ConcatProperties
<1>4. Index(q, as) = SubSeq(all, 1, most)
  BY DEF Index
<1>5. PerPage \in Nat
  BY DrawerConstants
<1> HIDE DEF all
<1>6. most \in Nat /\ most <= PerPage
  BY <1>3, <1>5
<1> HIDE DEF most
<1>7. Len(SubSeq(all, 1, most)) = IF 1 <= most THEN most - 1 + 1 ELSE 0
  <2> DEFINE shown == {all[i] : i \in 1 .. most}
  <2>1. \A i \in 1 .. most : all[i] \in shown
    OBVIOUS
  <2> HIDE DEF shown
  <2> QED
    BY <1>6, <2>1, SubSeqProperties
<1>8. Len(SubSeq(all, 1, most)) = most
  BY <1>6, <1>7
<1> QED
  BY <1>4, <1>6, <1>8

(* The apps are those of some moment; those of now, or a reload is due.       *)
Catalogue ==
    /\ version \in DOMAIN Installed /\ apps \in SUBSET ToSet(Apps)
    /\ running \in BOOLEAN /\ refresh \in BOOLEAN
    /\ refresh => running
    /\ running /\ ~refresh => apps = Installed[version]

Dots == [count : Nat, active : Nat, visible : BOOLEAN]

(* The pages fit the apps and, while there is a window, the dots the pages.   *)
Pages ==
    /\ grid \in [count : Nat \ {0}, page : Nat]
    /\ dots \in Dots
    /\ grid.count = PagedGrid(apps).count /\ grid.page < grid.count
    /\ running => dots.count = grid.count /\ dots.active = grid.page

(* The database agrees with the apps it searched, the view with the database, *)
(* and, unless search_changed is due, the database with the entry.            *)
Search ==
    /\ db.active \in BOOLEAN
    /\ view = "results" <=> db.active
    /\ db.active => /\ db.filtered = Index(db.last, apps) /\ tiles = db.filtered
                    /\ ~dots.visible
    /\ query = "" /\ ~pending => ~db.active
    /\ query # "" /\ ~pending => db.active /\ db.last = query
    /\ db.active \/ pending => running

OnOnePage == Len(tiles) <= PerPage /\ Len(db.filtered) <= PerPage

InDrawer == Catalogue /\ Pages /\ Search /\ OnOnePage

LEMMA DotsSet ==
    /\ PageDots(0, FALSE) \in Dots
    /\ \A d \in Dots, p \in Nat :
         LET e == [d EXCEPT !.active = p]
         IN  e \in Dots /\ e.active = p /\ e.count = d.count /\ e.visible = d.visible
    /\ \A d \in Dots, b \in BOOLEAN :
         LET e == [d EXCEPT !.visible = b]
         IN  e \in Dots /\ e.visible = b /\ e.count = d.count /\ e.active = d.active
  BY DEF Dots, PageDots

LEMMA NoSearchIsEmpty ==
    NoSearch.active = FALSE /\ NoSearch.filtered = <<>> /\ Len(<<>>) <= PerPage
<1>1. NoSearch.active = FALSE /\ NoSearch.filtered = <<>>
  BY DEF NoSearch
<1>2. PerPage \in Nat
  BY DrawerConstants
<1>3. Len(<<>>) = 0
  BY EmptySeq
<1> QED
  BY <1>1, <1>2, <1>3

LEMMA InstalledNow ==
    ASSUME Catalogue
    PROVE  Installed[version] \in SUBSET ToSet(Apps)
  <1>1. Installed \in Seq(SUBSET ToSet(Apps))
    BY DrawerConstants
  <1> QED
    BY <1>1, ElementOfSeq, LenProperties DEF Catalogue

(* set_query() answers for the apps that are loaded, also from its cache.     *)
LEMMA QueryAnswers ==
    ASSUME Search, NEW text
    PROVE  LET d == SetQuery(db, text, apps)
           IN  /\ text = "" => d = NoSearch
               /\ text # "" => /\ d.active = TRUE /\ d.last = text
                               /\ d.filtered = Index(text, apps)
<1>1. CASE text = ""
  BY <1>1 DEF SetQuery
<1>2. CASE text # "" /\ db.active /\ text = db.last
  BY <1>2 DEF SetQuery, Search
<1>3. CASE text # "" /\ ~(db.active /\ text = db.last)
  BY <1>3 DEF SetQuery
<1> QED
  BY <1>1, <1>2, <1>3

LEMMA InitInDrawer == Init => InDrawer
<1> SUFFICES ASSUME Init PROVE InDrawer
  OBVIOUS
<1>0. /\ running = FALSE /\ version = 1 /\ apps = {} /\ refresh = FALSE
      /\ query = "" /\ pending = FALSE /\ db = NoSearch /\ tiles = <<>>
      /\ view = "grid" /\ grid = PagedGrid({}) /\ dots = PageDots(0, FALSE)
  BY DEF Init, DrawerInit
<1>1. Catalogue
  <2>1. 1 \in DOMAIN Installed
    <3>1. Installed \in Seq(SUBSET ToSet(Apps)) /\ Installed # <<>>
      BY DrawerConstants
    <3>2. Len(Installed) \in Nat \ {0} /\ DOMAIN Installed = 1 .. Len(Installed)
      BY <3>1, EmptySeq, LenProperties
    <3> QED
      BY <3>2
  <2> QED
    BY <1>0, <2>1 DEF Catalogue
<1>2. Pages
  <2>1. PagedGrid({}) \in [count : Nat \ {0}, page : Nat] /\ PagedGrid({}).page = 0
    BY PageCount
  <2>2. grid \in [count : Nat \ {0}, page : Nat] /\ grid.page = 0 /\ grid.count \in Nat \ {0}
    BY <1>0, <2>1
  <2>3. dots \in Dots
    BY <1>0, DotsSet
  <2>4. grid.page < grid.count
    BY <2>2
  <2> QED
    BY <1>0, <2>2, <2>3, <2>4 DEF Pages
<1>3. Search
  BY <1>0, NoSearchIsEmpty DEF Search
<1>4. OnOnePage
  BY <1>0, NoSearchIsEmpty DEF OnOnePage
<1> QED
  BY <1>1, <1>2, <1>3, <1>4 DEF InDrawer

(* A window that is built anew, at the start, for other monitors or after a   *)
(* reload, starts on the first of the pages that its apps need.               *)
LEMMA NewPages ==
    ASSUME NEW visible \in BOOLEAN, apps' \in SUBSET ToSet(Apps),
           grid' = PagedGrid(apps'), dots' = PageDots(grid'.count, visible)
    PROVE  Pages'
<1>1. /\ grid' \in [count : Nat \ {0}, page : Nat] /\ grid'.page = 0
      /\ grid'.count \in Nat \ {0}
  BY PageCount
<1>2. dots' \in Dots /\ dots'.count = grid'.count /\ dots'.active = 0
  BY <1>1 DEF PageDots, Dots
<1> QED
  BY <1>1, <1>2 DEF Pages

LEMMA StartsInDrawer == ASSUME InDrawer, Activate PROVE InDrawer'
<1>0. /\ ~running /\ running' = TRUE /\ apps' = Installed[version]
      /\ grid' = PagedGrid(apps') /\ dots' = PageDots(grid'.count, TRUE)
      /\ UNCHANGED <<version, refresh, query, pending, db, tiles, view>>
  BY DEF Activate
<1>1. Catalogue'
  BY <1>0, InstalledNow DEF InDrawer, Catalogue
<1>2. Pages'
  BY <1>0, <1>1, NewPages DEF Catalogue
<1>3. Search'
  BY <1>0 DEF InDrawer, Search
<1> QED
  BY <1>0, <1>1, <1>2, <1>3 DEF InDrawer, OnOnePage

LEMMA RebuildsInDrawer == ASSUME InDrawer, RebuildWindows PROVE InDrawer'
<1>0. /\ running /\ running' = running /\ apps' = Installed[version]
      /\ grid' = PagedGrid(apps') /\ dots' = PageDots(grid'.count, TRUE)
      /\ query' = "" /\ pending' = FALSE /\ db' = NoSearch /\ tiles' = <<>> /\ view' = "grid"
      /\ UNCHANGED <<version, refresh>>
  BY DEF RebuildWindows
<1>1. Catalogue'
  BY <1>0, InstalledNow DEF InDrawer, Catalogue
<1>2. Pages'
  BY <1>0, <1>1, NewPages DEF Catalogue
<1>3. Search'
  BY <1>0, NoSearchIsEmpty DEF Search
<1>4. OnOnePage'
  BY <1>0, NoSearchIsEmpty DEF OnOnePage
<1> QED
  BY <1>1, <1>2, <1>3, <1>4 DEF InDrawer

LEMMA CrashInDrawer == ASSUME InDrawer, Crash PROVE InDrawer'
<1>0. /\ running' = FALSE /\ apps' = {} /\ refresh' = FALSE
      /\ query' = "" /\ pending' = FALSE /\ db' = NoSearch /\ tiles' = <<>>
      /\ view' = "grid" /\ grid' = PagedGrid({}) /\ dots' = PageDots(0, FALSE)
      /\ UNCHANGED version
  BY DEF Crash
<1>1. Catalogue'
  BY <1>0 DEF InDrawer, Catalogue
<1>2. Pages'
  <2>1. PagedGrid({}) \in [count : Nat \ {0}, page : Nat] /\ PagedGrid({}).page = 0
    BY PageCount
  <2>2. /\ grid' \in [count : Nat \ {0}, page : Nat] /\ grid'.page = 0
        /\ grid'.count \in Nat \ {0}
    BY <1>0, <2>1
  <2>3. dots' \in Dots
    BY <1>0, DotsSet
  <2>4. grid'.page < grid'.count
    BY <2>2
  <2> QED
    BY <1>0, <2>2, <2>3, <2>4 DEF Pages
<1>3. Search'
  BY <1>0, NoSearchIsEmpty DEF Search
<1>4. OnOnePage'
  BY <1>0, NoSearchIsEmpty DEF OnOnePage
<1> QED
  BY <1>1, <1>2, <1>3, <1>4 DEF InDrawer

LEMMA ReloadsInDrawer == ASSUME InDrawer, Reload PROVE InDrawer'
<1>0. /\ refresh' = FALSE /\ apps' = Installed[version] /\ db' = NoSearch
      /\ grid' = PagedGrid(apps') /\ dots' = PageDots(grid'.count, grid'.count > 1)
      /\ query' = "" /\ pending' = FALSE /\ view' = "grid"
      /\ UNCHANGED <<running, version, tiles>>
  BY DEF Reload
<1>1. Catalogue'
  BY <1>0, InstalledNow DEF InDrawer, Catalogue
<1>2. Pages'
  <2>1. (grid'.count > 1) \in BOOLEAN
    OBVIOUS
  <2> QED
    BY <1>0, <1>1, <2>1, NewPages DEF Catalogue
<1>3. Search'
  BY <1>0, NoSearchIsEmpty DEF Search
<1>4. OnOnePage'
  BY <1>0, NoSearchIsEmpty DEF InDrawer, OnOnePage
<1> QED
  BY <1>1, <1>2, <1>3, <1>4 DEF InDrawer

LEMMA ChangesInDrawer == ASSUME InDrawer, AppsChange PROVE InDrawer'
<1>0. /\ version < Len(Installed) /\ version' = version + 1 /\ refresh' = running
      /\ UNCHANGED <<running, apps, query, pending, db, tiles, view, grid, dots>>
  BY DEF AppsChange, ui
<1>1. version' \in DOMAIN Installed
  <2>1. DOMAIN Installed = 1 .. Len(Installed) /\ Len(Installed) \in Nat
    BY DrawerConstants, LenProperties
  <2> QED
    BY <1>0, <2>1 DEF InDrawer, Catalogue
<1>2. Catalogue'
  BY <1>0, <1>1 DEF InDrawer, Catalogue
<1> QED
  BY <1>0, <1>2 DEF InDrawer, Pages, Search, OnOnePage

(* A page that the grid scrolls to is one of the dots'.                       *)
LEMMA PagesFollow ==
    ASSUME Pages, running, NEW page, ScrollTo(page), UNCHANGED <<running, apps>>
    PROVE  Pages' /\ dots'.visible = dots.visible
<1>1. /\ page \in Nat /\ page < grid.count /\ page < dots.count
      /\ grid' = [grid EXCEPT !.page = page] /\ dots' = SetActive(dots, page)
  BY DEF ScrollTo, Pages
<1>2. dots' = [dots EXCEPT !.active = page]
  BY <1>1 DEF SetActive
<1>3. dots' \in Dots /\ dots'.active = page /\ dots'.count = dots.count /\ dots'.visible = dots.visible
  BY <1>1, <1>2, DotsSet DEF Pages
<1>4. grid' \in [count : Nat \ {0}, page : Nat] /\ grid'.count = grid.count /\ grid'.page = page
  BY <1>1 DEF Pages
<1> QED
  BY <1>1, <1>3, <1>4 DEF Pages

LEMMA TurnsInDrawer == ASSUME InDrawer, running, TurnPage PROVE InDrawer'
<1>1. UNCHANGED <<running, version, apps, refresh, query, pending, db, tiles, view>>
  BY DEF TurnPage
<1>2. \E page : ScrollTo(page)
  BY DEF TurnPage
<1>3. Pages' /\ dots'.visible = dots.visible
  BY <1>1, <1>2, PagesFollow DEF InDrawer
<1> QED
  BY <1>1, <1>3 DEF InDrawer, Catalogue, Search, OnOnePage

(* The dots are shown or hidden, and otherwise what they were.                *)
LEMMA DotsShown ==
    ASSUME Pages, NEW b \in BOOLEAN, dots' = [dots EXCEPT !.visible = b],
           UNCHANGED <<running, apps, grid>>
    PROVE  Pages' /\ dots'.visible = b
  BY DotsSet DEF Pages

LEMMA SyncsInDrawer ==
    ASSUME InDrawer, running, SyncQuery, pending' \in {pending, FALSE},
           UNCHANGED <<running, version, apps, refresh, query, grid>>
    PROVE  InDrawer'
<1>0. /\ db' = SetQuery(db, query, apps)
      /\ tiles' = IF db'.active THEN db'.filtered ELSE tiles
      /\ view' = IF db'.active THEN "results" ELSE "grid"
      /\ dots' = [dots EXCEPT !.visible = ~db'.active /\ grid.count > 1]
  BY DEF SyncQuery
<1>1. Pages' /\ (dots'.visible => ~db'.active)
  <2>1. (~db'.active /\ grid.count > 1) \in BOOLEAN
    OBVIOUS
  <2> QED
    BY <1>0, <2>1, DotsShown DEF InDrawer
<1>2. CASE query = ""
  <2>1. db' = NoSearch /\ ~db'.active /\ tiles' = tiles /\ view' = "grid"
    BY <1>0, <1>2, QueryAnswers, NoSearchIsEmpty DEF InDrawer
  <2>2. Search'
    BY <1>2, <2>1, NoSearchIsEmpty DEF InDrawer, Search
  <2> QED
    BY <1>1, <2>1, <2>2, NoSearchIsEmpty DEF InDrawer, Catalogue, OnOnePage
<1>3. CASE query # ""
  <2>0. db'.active = TRUE /\ db'.last = query /\ db'.filtered = Index(query, apps)
    BY <1>0, <1>3, QueryAnswers DEF InDrawer
  <2>1. tiles' = db'.filtered /\ view' = "results"
    BY <1>0, <2>0
  <2>2. Search'
    BY <1>1, <1>3, <2>0, <2>1 DEF InDrawer, Search
  <2>3. OnOnePage'
    BY <2>0, <2>1, OnePage DEF OnOnePage
  <2> QED
    BY <1>1, <2>2, <2>3 DEF InDrawer, Catalogue
<1> QED
  BY <1>2, <1>3

(* The entry is emptied, which is synced at once.                             *)
LEMMA ClearsInDrawer == ASSUME InDrawer, Clear PROVE InDrawer'
<1>0. /\ query' = "" /\ pending' = FALSE /\ db' = SetQuery(db, "", apps) /\ view' = "grid"
      /\ dots' = [dots EXCEPT !.visible = grid.count > 1]
      /\ UNCHANGED <<running, version, apps, refresh, tiles, grid>>
  BY DEF Clear
<1>1. db' = NoSearch
  BY <1>0, QueryAnswers DEF InDrawer
<1>2. Pages'
  <2>1. (grid.count > 1) \in BOOLEAN
    OBVIOUS
  <2> QED
    BY <1>0, <2>1, DotsShown DEF InDrawer
<1>3. Search'
  BY <1>0, <1>1, NoSearchIsEmpty DEF Search
<1> QED
  BY <1>0, <1>1, <1>2, <1>3, NoSearchIsEmpty DEF InDrawer, Catalogue, OnOnePage

LEMMA PagesTyped ==
    ASSUME Pages
    PROVE  /\ grid.count \in Nat /\ grid.count > 0 /\ grid.page \in Nat
           /\ dots \in Dots /\ dots.count \in Nat /\ dots.active \in Nat
           /\ running => dots.count > 0
<1>1. grid.count \in Nat /\ grid.count > 0 /\ grid.page \in Nat
  BY DEF Pages
<1>2. dots \in Dots /\ dots.count \in Nat /\ dots.active \in Nat
  BY DEF Pages, Dots
<1>3. running => dots.count = grid.count
  BY DEF Pages
<1> QED
  BY <1>1, <1>2, <1>3

LEMMA FirstDot ==
    ASSUME NEW ds \in Dots
    PROVE  /\ SetActive(ds, 0) \in Dots /\ SetActive(ds, 0).count = ds.count
           /\ ds.count > 0 => SetActive(ds, 0).active = 0
<1>1. 0 \in Nat /\ ds.count \in Nat
  BY DEF Dots
<1>2. CASE 0 < ds.count
  BY <1>1, <1>2, DotsSet DEF SetActive
<1>3. CASE ~(0 < ds.count)
  BY <1>1, <1>3 DEF SetActive
<1> QED
  BY <1>2, <1>3

(* reset_view(), also when it follows a launch from the entry.                *)
LEMMA ResetsInDrawer ==
    ASSUME InDrawer, query' = "", pending' = FALSE, db' = NoSearch, view' = "grid",
           grid' = [grid EXCEPT !.page = 0],
           NEW b \in BOOLEAN, dots' = [SetActive(dots, 0) EXCEPT !.visible = b],
           Len(tiles') <= PerPage,
           UNCHANGED <<running, version, apps, refresh>>
    PROVE  InDrawer'
<1>1. Pages'
  <2>1. /\ SetActive(dots, 0) \in Dots
        /\ SetActive(dots, 0).count = dots.count
        /\ running => SetActive(dots, 0).active = 0
    BY PagesTyped, FirstDot DEF InDrawer
  <2>2. /\ dots' \in Dots
        /\ dots'.count = dots.count
        /\ running => dots'.active = 0
    BY <2>1, DotsSet
  <2>3. /\ grid' \in [count : Nat \ {0}, page : Nat]
        /\ grid'.count = grid.count /\ grid'.page = 0
    BY DEF InDrawer, Pages
  <2> QED
    <3>1. grid'.page < grid'.count
      BY <2>3, PagesTyped DEF InDrawer
    <3> QED
      BY <2>2, <2>3, <3>1 DEF InDrawer, Pages
<1>2. Search'
  BY NoSearchIsEmpty DEF Search
<1> QED
  BY <1>1, <1>2, NoSearchIsEmpty DEF InDrawer, Catalogue, OnOnePage

LEMMA DismissInDrawer == ASSUME InDrawer, Dismiss PROVE InDrawer'
<1>1. /\ query' = "" /\ pending' = FALSE /\ view' = "grid"
      /\ db' = SetQuery(db, "", apps) /\ grid' = [grid EXCEPT !.page = 0]
      /\ dots' = [SetActive(dots, 0) EXCEPT !.visible = grid.count > 1]
      /\ UNCHANGED <<running, version, apps, refresh, tiles>>
  BY DEF Dismiss, ResetView
<1>2. db' = NoSearch
  BY <1>1, QueryAnswers DEF InDrawer
<1>3. Len(tiles') <= PerPage
  BY <1>1 DEF InDrawer, OnOnePage
<1> QED
  <2>1. (grid.count > 1) \in BOOLEAN
    OBVIOUS
  <2> QED
    BY <1>1, <1>2, <1>3, <2>1, ResetsInDrawer

LEMMA LaunchInDrawer == ASSUME InDrawer, EnterLaunches PROVE InDrawer'
<1>1. /\ query # "" /\ query' = "" /\ pending' = FALSE /\ view' = "grid"
      /\ tiles' = SetQuery(db, query, apps).filtered
      /\ db' = SetQuery(SetQuery(db, query, apps), "", apps)
      /\ grid' = [grid EXCEPT !.page = 0]
      /\ dots' = [SetActive(dots, 0) EXCEPT !.visible = grid.count > 1]
      /\ UNCHANGED <<running, version, apps, refresh>>
  BY DEF EnterLaunches, EnterFinds
<1>2. db' = NoSearch
  BY <1>1 DEF SetQuery
<1>3. Len(tiles') <= PerPage
  <2>1. tiles' = Index(query, apps)
    BY <1>1, QueryAnswers DEF InDrawer
  <2> QED
    BY <2>1, OnePage
<1> QED
  <2>1. (grid.count > 1) \in BOOLEAN
    OBVIOUS
  <2> QED
    BY <1>1, <1>2, <1>3, <2>1, ResetsInDrawer

LEMMA NextInDrawer == World /\ InDrawer /\ [Next]_vars => InDrawer'
<1> SUFFICES ASSUME World, InDrawer, [Next]_vars PROVE InDrawer'
  OBVIOUS
<1>0. keys = "grid" \/ Visible("grid") \/ pending => running
  BY SceneConstants DEF World, Keyboard, Visible, InDrawer, Search
<1>1. CASE UNCHANGED drawer
  BY <1>1 DEF drawer, ui, InDrawer, Catalogue, Pages, Search, OnOnePage
<1>2. CASE DrawerStarts
  BY <1>2, StartsInDrawer DEF DrawerStarts
<1>3. CASE DrawerRebuilds
  BY <1>3, RebuildsInDrawer DEF DrawerRebuilds
<1>4. CASE DrawerCrashes
  BY <1>4, CrashInDrawer DEF DrawerCrashes
<1>5. CASE KeyInDrawer
  <2>1. running
    BY <1>0, <1>5 DEF KeyInDrawer
  <2>2. CASE \E text \in Queries : Type(text)
    <3>1. /\ pending' = TRUE
          /\ UNCHANGED <<running, version, apps, refresh, db, tiles, view, grid, dots>>
      BY <2>2 DEF Type
    <3> QED
      BY <2>1, <3>1 DEF InDrawer, Catalogue, Pages, Search, OnOnePage
  <2>3. CASE EnterSearches
    BY <2>1, <2>3, SyncsInDrawer DEF EnterSearches
  <2> QED
    BY <1>5, <2>1, <2>2, <2>3, ClearsInDrawer, TurnsInDrawer DEF KeyInDrawer
<1>6. CASE Launch \/ Escape
  BY <1>6, DismissInDrawer, LaunchInDrawer DEF Launch, Escape
<1>7. CASE ClickDots
  BY <1>0, <1>7, TurnsInDrawer DEF ClickDots
<1>8. CASE SearchDue
  BY <1>0, <1>8, SyncsInDrawer DEF SearchDue, SearchChanged
<1>9. CASE ReloadDue
  BY <1>9, ReloadsInDrawer DEF ReloadDue
<1>10. CASE AppsChanged
  BY <1>10, ChangesInDrawer DEF AppsChanged
<1>11. CASE HearFocus
  <2>1. CASE Head(news) \notin {NoWindow, focused_id}
    <3>1. Dismiss
      BY <1>11, <2>1 DEF HearFocus, OnFocusChanged, Dismiss
    <3> QED
      BY <3>1, DismissInDrawer
  <2>2. CASE ~(Head(news) \notin {NoWindow, focused_id})
    <3>1. UNCHANGED drawer
      BY <1>11, <2>2 DEF HearFocus, OnFocusChanged, drawer, ui
    <3> QED
      BY <1>1, <3>1
  <2> QED
    BY <2>1, <2>2
<1>12. CASE \/ Toggle \/ Frame \/ OutputInhibited \/ LoadPlugins \/ ConfigReloaded
            \/ WidgetsMap \/ WidgetsUnmap \/ ClickGrid \/ StyleSecondWrite \/ DrawerMaps
            \/ \E w \in Windows : WindowMaps(w) \/ WindowCloses(w)
            \/ \E s \in {"curtain", "slide"} : ChooseStyle(s)
            \/ UNCHANGED vars
  <2>1. UNCHANGED drawer
    BY <1>12 DEF Toggle, Frame, OutputInhibited, LoadPlugins, ConfigReloaded, WidgetsMap,
         WidgetsUnmap, ClickGrid, StyleSecondWrite, DrawerMaps, WindowMaps, WindowCloses,
         ChooseStyle, vars
  <2> QED
    BY <1>1, <2>1
<1> QED
  BY <1>2, <1>3, <1>4, <1>5, <1>6, <1>7, <1>8, <1>9, <1>10, <1>11, <1>12, Zenon DEF Next

LEMMA DrawerAgrees == Spec => []InDrawer
  BY InitInDrawer, NextInDrawer, WorldStays, PTL DEF Spec

(* What the drawer updates part by part agrees after each callback: grid and  *)
(* dots, entry, database and results, results and apps (search_db.vala        *)
(* set_query(), window.vala sync_query(), reset_view(), the reload).          *)
THEOREM DrawerStaysInStep == Spec => []DrawerInStep
<1>1. InDrawer => DrawerInStep
  <2> SUFFICES ASSUME InDrawer, running PROVE
        /\ dots.count = grid.count /\ dots.active = grid.page
        /\ grid.count = PagedGrid(apps).count
        /\ (view = "results") = db.active
        /\ db.active => tiles = Index(db.last, apps) /\ ~dots.visible
        /\ ~pending => IF query = "" THEN ~db.active ELSE db.active /\ db.last = query
        /\ refresh \/ apps = Installed[version]
    BY DEF DrawerInStep
  <2>1. dots.count = grid.count /\ dots.active = grid.page /\ grid.count = PagedGrid(apps).count
    BY DEF InDrawer, Pages
  <2>2. (view = "results") = db.active
    BY DEF InDrawer, Search
  <2>3. db.active => tiles = Index(db.last, apps) /\ ~dots.visible
    BY DEF InDrawer, Search
  <2>4. ~pending => IF query = "" THEN ~db.active ELSE db.active /\ db.last = query
    BY DEF InDrawer, Search
  <2>5. refresh \/ apps = Installed[version]
    BY DEF InDrawer, Catalogue
  <2> QED
    BY <2>1, <2>2, <2>3, <2>4, <2>5
<1> QED
  BY <1>1, DrawerAgrees, PTL

(* The lists of plugins, whether or not Wayfire reads between two writes.     *)
Lists == listed \subseteq {"curtain", "slide"} /\ wanted \subseteq {"curtain", "slide"}

LEMMA ListsStay == Spec => []Lists
<1>1. Init => Lists
  BY DEF Init, Lists
<1>2. Lists /\ [Next]_vars => Lists'
  <2> SUFFICES ASSUME Lists, [Next]_vars PROVE Lists'
    OBVIOUS
  <2>1. \/ ConfigReloaded \/ StyleSecondWrite
        \/ \E s \in {"curtain", "slide"} : ChooseStyle(s)
        \/ UNCHANGED <<listed, wanted>>
    BY DEF Next, vars, settings, Toggle, Frame, OutputInhibited, LoadPlugins, WidgetsMap,
       WidgetsUnmap, ClickGrid, WindowMaps, WindowCloses, DrawerStarts, DrawerMaps,
       DrawerRebuilds, DrawerCrashes, GridGone, KeyInDrawer, Launch, Escape, ClickDots,
       SearchDue, ReloadDue, AppsChanged, HearFocus
  <2> QED
    BY <2>1 DEF Lists, ConfigReloaded, StyleSecondWrite, ChooseStyle
<1> QED
  BY <1>1, <1>2, PTL DEF Spec

(* A remembered or disabled view is mapped, a page, a dot and a result exist, *)
(* also when both plugins are loaded; so no plugin reaches for a view that is *)
(* gone and no index leaves its array.                                        *)
THEOREM TypesCorrect == Spec => []TypeOK
<1>1. World /\ InDrawer /\ Lists => TypeOK
  <2> SUFFICES ASSUME World, InDrawer, Lists PROVE TypeOK
    OBVIOUS
  <2>1. /\ mapped \subseteq {"grid", "widgets"} /\ off \subseteq mapped \union Layers
        /\ curtain.desktop \/ slide.desktop => "grid" \in mapped
        /\ curtain.widget \/ slide.widget => "widgets" \in mapped
    BY DEF World, Views
  <2>2. curtain \in Plugin /\ slide \in SlidePlugin
    BY DEF World, Plugins
  <2>3. hooked \subseteq Loaded /\ active \subseteq Loaded
    BY DEF World, Holds, Loaded, Shown
  <2>4. /\ wins \subseteq Windows /\ keys \in wins \union {NoWindow} \union (mapped \ {"widgets"})
        /\ news \in Seq(Windows \union {NoWindow}) /\ ("grid" \in mapped => running)
    BY DEF World, Keyboard
  <2>5. Len(news) <= MaxNews + 2
    <3>1. /\ Len(news) \in Nat
          /\ Len(news) + Reveals(curtain.state) + Reveals(slide.state) <= MaxNews + 2
      BY DEF World, Keyboard
    <3>2. Reveals(curtain.state) \in 0..1 /\ Reveals(slide.state) \in 0..1
      BY DEF Reveals
    <3> QED
      BY <3>1, <3>2, SceneConstants
  <2>6. grid.page \in 0 .. grid.count - 1
    BY PagesTyped DEF InDrawer, Pages
  <2>7. running => dots.active \in 0 .. dots.count - 1
    BY <2>6 DEF InDrawer, Pages
  <2>8. Len(tiles) <= PerPage /\ Len(db.filtered) <= PerPage
    BY DEF InDrawer, OnOnePage
  <2>9. listed \subseteq {"curtain", "slide"} /\ wanted \subseteq {"curtain", "slide"}
    BY DEF Lists
  <2> QED
    BY <2>1, <2>2, <2>3, <2>4, <2>5, <2>6, <2>7, <2>8, <2>9 DEF TypeOK
<1> QED
  BY <1>1, WorldStays, DrawerAgrees, ListsStay, PTL
==============================================================================
