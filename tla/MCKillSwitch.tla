---------------------------- MODULE MCKillSwitch ----------------------------
\* KillSwitch for TLC: requests of a kind are interchangeable.
EXTENDS KillSwitch, TLC

RequestSymmetry == Permutations(Toggles) \cup Permutations(Hooks)
=============================================================================
