--------------------------- MODULE MCCombatTurns ---------------------------
(* A player's character, alert to ambushes, and two monsters of a kind.    *)
EXTENDS CombatTurns, TLC

CONSTANTS hero, ogre, wolf, alice

MCTokens == {hero, ogre, wolf}
MCHero == {hero}
MCNPCs == {ogre, wolf}
MCBonus == [t \in Tokens |-> IF t = hero THEN 1 ELSE 0]
MCOwnerOf == [t \in Tokens |-> IF t = hero THEN alice ELSE Nobody]
MCFates == [t \in Tokens |-> IF t = hero THEN {"up", "down", "stable"} ELSE {"up"}]
Monsters == Permutations(MCNPCs)
=============================================================================
