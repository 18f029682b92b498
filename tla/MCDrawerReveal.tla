--------------------------- MODULE MCDrawerReveal ---------------------------
(* DrawerReveal with three apps on two pages, of which one stays installed. *)
EXTENDS DrawerReveal

MCApps      == <<"a", "b", "c">>
MCInstalled == <<{"a", "b", "c"}, {"b"}>>
MCPrefix    == [q \in Queries |-> {"b"}]
MCFuzzy     == [q \in Queries |-> {"a", "b"}]
=============================================================================
