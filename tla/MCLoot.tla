------------------------------- MODULE MCLoot -------------------------------
(* Two characters, one of whom has everything at first.                    *)
EXTENDS Loot, TLC

CONSTANTS ann, bob, rope

Pack == [c \in {ann, bob} |->
           IF c = ann THEN <<[item |-> rope, qty |-> 1]>> ELSE <<>>]

AnyRequest == Permutations(Requests)

\* What blind writes double is followed up to two ropes; without them there
\* are never more.
TwoRopes == Owned(rope) + Lying(rope) <= 2
=============================================================================
