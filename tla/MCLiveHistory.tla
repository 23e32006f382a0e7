--------------------------- MODULE MCLiveHistory ---------------------------
(* Two settings, which are interchangeable.                                *)
EXTENDS LiveHistory, TLC

CONSTANTS a, b

SettingsSymmetry == Permutations({a, b})
=============================================================================
