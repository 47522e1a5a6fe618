------------------------ MODULE MCOpportunityAttacks ------------------------
(* Requests are interchangeable, and so are the two creatures that provoke. *)
EXTENDS OpportunityAttacks, TLC

Same == Permutations(Requests) \cup Permutations(Movers)
=============================================================================
