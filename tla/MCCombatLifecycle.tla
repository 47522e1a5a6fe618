------------------------- MODULE MCCombatLifecycle -------------------------
(* Two handlers in flight, which are alike.                                *)
EXTENDS CombatLifecycle, TLC

AnyHandler == Permutations(Handlers)
=============================================================================
