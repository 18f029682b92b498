-------------------------- MODULE MCOutputEffects --------------------------
EXTENDS OutputEffects
CONSTANTS o1, o2, w1, w2, panelview, none
MCPluginSets == {{"desktop"}, {"push"}, {"zoom"}, {"night"}}
=============================================================================
