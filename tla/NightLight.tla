----------------------------- MODULE NightLight -----------------------------
(***************************************************************************)
(* wayfire-night-light (night-light.cpp): one instance per output with its *)
(* tint node and animation, and one `enabled` for the plugin.  A request   *)
(* goes to every instance and sets `enabled` if one of them acted.         *)
(***************************************************************************)
EXTENDS OutputScene

VARIABLES night, enabled

NightHolds(o) == {Hook("night", o), TintNode("night", o)}

Lit(o) == night[o] \in {"FADING_IN", "ON"}

\* instances of which ipc_start() or ipc_stop() is not refused
NightActs(want) ==
    {o \in Outputs : night[o] \in IF want THEN {"OFF", "FADING_OUT"} ELSE {"ON", "FADING_IN"}}

\* set_all(); with `any` false nothing changes.  An instance that is fading
\* out has its node and hook still, and setup() runs for OFF ones only.
set_all(want) ==
    /\ NightActs(want) # {}
    /\ night' = [o \in Outputs |-> IF o \notin NightActs(want) THEN night[o]
                                   ELSE IF want THEN "FADING_IN" ELSE "FADING_OUT"]
    /\ held' = IF want THEN held \union UNION {NightHolds(o) : o \in NightActs(want)} ELSE held
    /\ enabled' = want

\* start, stop, and the panel's toggle, which wants ~enabled
NightRequest == \E want \in BOOLEAN : set_all(want)

teardown(o) ==
    /\ night' = [night EXCEPT ![o] = "OFF"]
    /\ held' = held \ NightHolds(o)

NightFrame(o) ==
    /\ UNCHANGED enabled
    /\ \/ /\ night[o] = "FADING_IN"
          /\ night' = [night EXCEPT ![o] = "ON"]
          /\ UNCHANGED held
       \/ night[o] = "FADING_OUT" /\ teardown(o)

NightFini(os)   == [o \in Outputs |-> IF o \in os THEN "NONE" ELSE night[o]]
NightHeldOn(os) == UNION {NightHolds(o) : o \in os}
=============================================================================
