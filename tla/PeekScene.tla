----------------------------- MODULE PeekScene -----------------------------
(***************************************************************************)
(* One output of Wayfire's scene as the reveal plugins use it.  External:  *)
(* nothing here is code of this repository; it is what curtain-peek.cpp    *)
(* and slide-peek.cpp rely on.                                             *)
(*                                                                         *)
(* A node is enabled or disabled, and enabling an enabled node does        *)
(* nothing.  Layers and views are nodes; a disabled view is not found by   *)
(* collect_views_from_output, which is why the plugins remember theirs.    *)
(* The drawer learns from the compositor which window has the keyboard,    *)
(* in order and with delay (`news`).                                       *)
(***************************************************************************)
EXTENDS Naturals, Sequences

CONSTANTS
    Windows,     \* toplevels
    NoWindow,
    MaxNews      \* bound: reports of the focus that may be under way

ASSUME SceneConstants ==
    /\ NoWindow \notin Windows \union {"grid"} /\ "grid" \notin Windows
    /\ MaxNews \in Nat \ {0}

VARIABLES
    mapped,      \* which of "grid" (the drawer) and "widgets" is mapped
    off,         \* disabled nodes: those two views, and layers
    overlays,    \* nodes and transformers that a plugin added
    hooked,      \* plugins with an effect hook on the output's frames
    active,      \* plugins activated on the output
    wins,        \* mapped toplevels
    keys,        \* who has the keyboard: a window, "grid" or NoWindow
    listening,   \* the drawer is connected
    news         \* windows it is yet to hear of as focused (NoWindow: none)

scene == <<mapped, off, overlays, hooked, active, wins, keys, listening, news>>

Layers == {"BACKGROUND", "WORKSPACE", "TOP"}

Visible(view) == view \in mapped \ off
View(view, found) == IF found THEN {view} ELSE {}

Toplevel(who) == IF who \in Windows THEN who ELSE NoWindow

\* seat->set_active_node(); the toplevel's activation is reported if it changes.
Focus(who) ==
    /\ keys' = who
    /\ news' = IF Toplevel(who) = Toplevel(keys) \/ ~listening
               THEN news ELSE Append(news, Toplevel(who))

\* seat->refocus(): a window if there is one.
Refocus(windows) ==
    IF windows # {} THEN \E w \in windows : Focus(w) ELSE Focus(NoWindow)

\* Bound on the user's and the environment's steps, not on the program's.
Calm == Len(news) < MaxNews
=============================================================================
