------------------------------ MODULE MCCombatHp ------------------------------
(* Requests on one character are interchangeable.                          *)
EXTENDS CombatHp, TLC

AnyRequest == Permutations(Requests)
AnyHit == (1 .. MaxHp) \X {1}
=============================================================================
