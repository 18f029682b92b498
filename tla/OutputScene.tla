---------------------------- MODULE OutputScene ----------------------------
(***************************************************************************)
(* Wayfire's outputs and views as the effect plugins desktop-peek,         *)
(* panel-push, startup-zoom and night-light use them.  External: nothing   *)
(* here is code of this repository.                                        *)
(*                                                                         *)
(* A plugin holds things of the compositor until it gives them back: an    *)
(* effect hook on an output's frames, its activation on an output, a node  *)
(* in a layer, a transformer on a view.  `held` is the set of all of them, *)
(* each with the plugin and the output of the instance that took it.       *)
(* There is always an output: Wayfire replaces the last one by NOOP-1.     *)
(***************************************************************************)
EXTENDS Naturals, FiniteSets

CONSTANTS
    Outputs,
    Windows,     \* toplevels
    Panel,       \* the panel's layer surface (exclude_app_id of panel-push)
    Layers,      \* other layer surfaces: wallpaper, drawer
    Unmapped

Views == Windows \union Layers \union {Panel}

ASSUME OutputSceneConstants ==
    /\ Outputs # {} /\ Unmapped \notin Outputs
    /\ Panel \notin Windows \union Layers /\ Windows \intersect Layers = {}

VARIABLES
    plugged,     \* the outputs there are
    place,       \* where each view is mapped
    minimized,
    held

world == <<plugged, place, minimized>>

Hook(plugin, o)           == <<"hook", plugin, o>>
Activation(plugin, o)     == <<"activation", plugin, o>>
TintNode(plugin, o)       == <<"node", plugin, o>>
Transformer(plugin, o, v) == <<"transformer", plugin, o, v>>

Transformers(plugin, o, views) == {Transformer(plugin, o, v) : v \in views}

Holdings ==
    {Hook(p, o) : p \in {"desktop", "push", "zoom", "night"}, o \in Outputs}
    \union {Activation(p, o) : p \in {"desktop", "push"}, o \in Outputs}
    \union {TintNode("night", o) : o \in Outputs}
    \union UNION {Transformers(p, o, Views) : p \in {"desktop", "push", "zoom"}, o \in Outputs}

\* Views that wset()->get_views and collect_views_from_output find.
Visible(o) == {v \in Views : place[v] = o} \ minimized
=============================================================================
