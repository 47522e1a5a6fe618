---------------------- MODULE OpportunityAttacksProofs ----------------------
(***************************************************************************)
(* Proofs about OpportunityAttacks for any number of requests, attackers,  *)
(* movers, opportunities and economies.                                    *)
(***************************************************************************)
EXTENDS OpportunityAttacks, TLAPS

----------------------------------------------------------------------------
(* The inductive invariant.                                                *)

Swings(r) == swing[r] # NoSwing

\* A registered opportunity, and one that is still to come, is untouched; a
\* claimed one belongs to one request until it is attacked on.
OpportunitiesOK ==
  /\ \A p \in Pairs, k \in 1 .. MaxPrompts :
       k = pending[p] \/ k > prompts[p] =>
         /\ attacks[<<p, k>>] = 0
         /\ <<p, k>> \in over => k = pending[p] /\ p \in expired
         /\ \A r \in Requests : Swings(r) => swing[r].on # <<p, k>>
  /\ \A r \in Requests : Swings(r) => attacks[swing[r].on] = 0 /\ swing[r].on \notin over
  /\ \A r, q \in Requests : Swings(r) /\ Swings(q) /\ swing[r].on = swing[q].on => r = q
  /\ OneAttackEach

\* A reaction that is not spent was not made and is reserved by nobody; a
\* reserved one belongs to one request, or to one dodge.
ReactionsOK ==
  /\ \A e \in Economies :
       e \notin spent => /\ reactions[e] = 0 /\ e \notin dodges
                        /\ \A r \in Requests : Swings(r) => swing[r].with # e
  /\ \A e \in dodges : /\ reactions[e] = 0
                        /\ \A r \in Requests : Swings(r) => swing[r].with # e
  /\ \A r \in Requests : Swings(r) => reactions[swing[r].with] = 0
  /\ \A r, q \in Requests : Swings(r) /\ Swings(q) /\ swing[r].with = swing[q].with => r = q
  /\ \A a \in Attackers, k \in 1 .. MaxEconomies : k > economies[a] => <<a, k>> \notin spent
  /\ OneReactionEach

(* What every step keeps: why nobody attacks or reacts twice.              *)
IInv == TypeOK /\ OpportunitiesOK /\ ReactionsOK

\* A record that swings has an opportunity and an economy.
LEMMA SwingType ==
  ASSUME TypeOK, NEW r \in Requests, Swings(r)
  PROVE  /\ swing[r] \in [on : Opportunities, with : Economies]
         /\ swing[r].on \in Opportunities /\ swing[r].with \in Economies
<1>1. swing[r] \in [on : Opportunities, with : Economies]
  BY DEF TypeOK, Swings
<1> QED
  BY <1>1

LEMMA InitOK == Init => IInv
<1> SUFFICES ASSUME Init PROVE IInv
  OBVIOUS
<1> USE DEF Init
<1>1. \A r \in Requests : ~Swings(r)
  BY DEF Swings
<1>2. TypeOK
  BY OaAssumption DEF TypeOK, NoSwing
<1>3. OpportunitiesOK
  BY <1>1 DEF OpportunitiesOK, OneAttackEach, Opportunities
<1>4. ReactionsOK
  BY <1>1 DEF ReactionsOK, OneReactionEach, Economies
<1> QED
  BY <1>2, <1>3, <1>4 DEF IInv

\* The economy of somebody who can react is an unspent one.
LEMMA CanReactOn ==
  ASSUME TypeOK, NEW a \in Attackers, CanReact(a)
  PROVE  /\ economy[a] \in 1 .. MaxEconomies /\ economy[a] <= economies[a]
         /\ <<a, economy[a]>> \in Economies /\ <<a, economy[a]>> \notin spent
BY OaAssumption DEF TypeOK, CanReact, ReactionSpent, Economies

\* An economy that is there, or a new one.
LEMMA ReservedIn ==
  ASSUME TypeOK, NEW a \in Attackers, Reserved(a) <= MaxEconomies
  PROVE  /\ Reserved(a) \in 1 .. MaxEconomies /\ <<a, Reserved(a)>> \in Economies
         /\ economy[a] = 0 => Reserved(a) = economies[a] + 1
         /\ economy[a] # 0 => Reserved(a) = economy[a] /\ economy[a] <= economies[a]
<1>1. Reserved(a) \in 1 .. MaxEconomies
  BY OaAssumption DEF TypeOK, Reserved
<1> QED
  BY <1>1, OaAssumption DEF TypeOK, Reserved, Economies

----------------------------------------------------------------------------
(* Types.                                                                  *)

LEMMA TypeStep ==
  ASSUME IInv, [Next]_vars
  PROVE  TypeOK'
<1> USE OaAssumption DEF IInv
<1>1. CASE StartCombat
  BY <1>1 DEF StartCombat, TypeOK
<1>2. CASE CombatStarted
  BY <1>2 DEF CombatStarted, ClearEconomies, TypeOK
<1>3. CASE EndCombat
  BY <1>3 DEF EndCombat, ClearEconomies, TypeOK
<1>4. ASSUME NEW a \in Attackers, NewEconomy(a) PROVE TypeOK'
  BY <1>4 DEF NewEconomy, TypeOK
<1>5. ASSUME NEW a \in Attackers, OtherReaction(a) PROVE TypeOK'
  <2>1. CASE UNCHANGED <<spent, reactions>>
    BY <1>5, <2>1 DEF OtherReaction, TypeOK
  <2>2. CASE /\ CanReact(a) /\ Mark(a)
             /\ reactions' = [reactions EXCEPT ![<<a, economy[a]>>] = @ + 1]
    <3>1. <<a, economy[a]>> \in Economies /\ <<a, economy[a]>> \notin spent
      BY <2>2, CanReactOn
    <3>2. reactions[<<a, economy[a]>>] = 0
      BY <3>1 DEF ReactionsOK
    <3>3. reactions' \in [Economies -> 0 .. 2]
      BY <2>2, <3>1, <3>2 DEF TypeOK
    <3> QED
      BY <1>5, <2>2, <3>1, <3>3 DEF OtherReaction, Mark, TypeOK
  <2> QED
    BY <1>5, <2>1, <2>2 DEF OtherReaction
<1>14. ASSUME NEW a \in Attackers, DodgeAsk(a) PROVE TypeOK'
  <2>1. <<a, economy[a]>> \in Economies
    BY <1>14, CanReactOn DEF DodgeAsk
  <2> QED
    BY <1>14, <2>1 DEF DodgeAsk, Mark, TypeOK
<1>15. ASSUME NEW e \in Economies, Dodge(e) PROVE TypeOK'
  <2>1. reactions[e] = 0
    BY <1>15 DEF Dodge, ReactionsOK
  <2>2. reactions' \in [Economies -> 0 .. 2] /\ spent' \subseteq Economies
    BY <1>15, <2>1 DEF Dodge, TypeOK
  <2> QED
    BY <1>15, <2>2 DEF Dodge, TypeOK
<1>16. ASSUME NEW a \in Attackers, UseReaction(a) PROVE TypeOK'
  <2>1. Reserved(a) \in 1 .. MaxEconomies /\ <<a, Reserved(a)>> \in Economies
    BY <1>16, ReservedIn DEF UseReaction
  <2>2. /\ economy' \in [Attackers -> 0 .. MaxEconomies]
        /\ economies' \in [Attackers -> 0 .. MaxEconomies]
        /\ \A b \in Attackers : economy'[b] <= economies'[b]
    BY <1>16, <2>1 DEF UseReaction, Reserved, TypeOK
  <2> QED
    BY <1>16, <2>1, <2>2 DEF UseReaction, TypeOK
<1>6. ASSUME NEW p \in Pairs, Provoke(p) PROVE TypeOK'
  <2>1. prompts[p] + 1 \in 1 .. MaxPrompts
    BY <1>6 DEF Provoke, TypeOK
  <2>2. \A k \in {pending[p]} \ {0} : <<p, k>> \in Opportunities
    BY DEF TypeOK, Opportunities
  <2>3. over' \subseteq Opportunities
    BY <1>6, <2>2 DEF Provoke, TypeOK
  <2>4. /\ prompts' \in [Pairs -> 0 .. MaxPrompts] /\ pending' \in [Pairs -> 0 .. MaxPrompts]
        /\ \A q \in Pairs : pending'[q] <= prompts'[q]
        /\ expired' \subseteq {q \in Pairs : pending'[q] > 0}
    BY <1>6, <2>1 DEF Provoke, TypeOK
  <2> QED
    BY <1>6, <2>3, <2>4 DEF Provoke, TypeOK
<1>7. ASSUME NEW p \in Pairs, Expire(p) PROVE TypeOK'
  <2>1. <<p, pending[p]>> \in Opportunities
    BY <1>7 DEF Expire, TypeOK, Opportunities
  <2> QED
    BY <1>7, <2>1 DEF Expire, TypeOK
<1>8. ASSUME NEW p \in Pairs, NEW k \in 1 .. prompts[p], Decline(p, k) PROVE TypeOK'
  <2>1. <<p, k>> \in Opportunities
    BY DEF TypeOK, Opportunities
  <2> QED
    BY <1>8, <2>1 DEF Decline, Delete, TypeOK
<1>9. ASSUME NEW p \in Pairs, NEW k \in 1 .. prompts[p], NEW r \in Requests, Execute(r, p, k)
      PROVE  TypeOK'
  <2>1. CASE Claim(p, k) /\ p \notin expired /\ Reserve(r, p, k)
    <3>1. p[1] \in Attackers /\ <<p, k>> \in Opportunities
      BY DEF Pairs, TypeOK, Opportunities
    <3>2. Reserved(p[1]) \in 1 .. MaxEconomies
      BY <2>1, <3>1 DEF Reserve, Reserved, TypeOK
    <3>3. <<p[1], Reserved(p[1])>> \in Economies
      BY <3>1, <3>2 DEF Economies
    <3>4. swing' \in [Requests -> {NoSwing} \cup [on : Opportunities, with : Economies]]
      BY <2>1, <3>1, <3>3 DEF Reserve, TypeOK
    <3>5. /\ economy' \in [Attackers -> 0 .. MaxEconomies]
          /\ economies' \in [Attackers -> 0 .. MaxEconomies]
          /\ \A a \in Attackers : economy'[a] <= economies'[a]
      BY <2>1, <3>1, <3>2 DEF Reserve, Reserved, TypeOK
    <3>6. /\ pending' \in [Pairs -> 0 .. MaxPrompts]
          /\ \A q \in Pairs : pending'[q] <= prompts[q]
          /\ expired' \subseteq {q \in Pairs : pending'[q] > 0}
      BY <2>1 DEF Claim, Delete, TypeOK
    <3>7. spent' \subseteq Economies
      BY <2>1, <3>3 DEF Reserve, TypeOK
    <3> QED
      BY <1>9, <3>4, <3>5, <3>6, <3>7 DEF Execute, TypeOK
  <2>2. CASE /\ Claim(p, k)
             /\ UNCHANGED <<economy, economies, spent, swing>>
    BY <1>9, <2>2 DEF Execute, Claim, Delete, TypeOK
  <2>3. CASE UNCHANGED <<pending, expired, economy, economies, spent, swing>>
    BY <1>9, <2>3 DEF Execute, TypeOK
  <2> QED
    BY <1>9, <2>1, <2>2, <2>3 DEF Execute
<1>10. ASSUME NEW r \in Requests, HandBack(r) PROVE TypeOK'
  BY <1>10 DEF HandBack, TypeOK
<1>11. ASSUME NEW r \in Requests, Attack(r) PROVE TypeOK'
  <2>1. Swings(r)
    BY <1>11 DEF Attack, Swings
  <2>2. /\ swing[r].on \in Opportunities /\ swing[r].with \in Economies
        /\ attacks[swing[r].on] = 0 /\ reactions[swing[r].with] = 0
    BY <2>1, SwingType DEF OpportunitiesOK, ReactionsOK
  <2>3. attacks' \in [Opportunities -> 0 .. 2] /\ reactions' \in [Economies -> 0 .. 2]
    BY <1>11, <2>2 DEF Attack, TypeOK
  <2> QED
    BY <1>11, <2>3 DEF Attack, TypeOK
<1>12. ASSUME NEW r \in Requests, WeaponFails(r) PROVE TypeOK'
  BY <1>12 DEF WeaponFails, TypeOK
<1>13. CASE UNCHANGED vars
  BY <1>13 DEF vars, TypeOK
<1> QED
  BY <1>1, <1>2, <1>3, <1>4, <1>5, <1>6, <1>7, <1>8, <1>9, <1>10, <1>11, <1>12, <1>13,
     <1>14, <1>15, <1>16 DEF Next

----------------------------------------------------------------------------
(* Opportunities.                                                          *)

LEMMA OpportunitiesStep ==
  ASSUME IInv, [Next]_vars
  PROVE  OpportunitiesOK'
<1> USE OaAssumption DEF IInv
<1>0. ASSUME UNCHANGED <<pending, expired, prompts, swing, attacks, over>>
      PROVE  OpportunitiesOK'
  BY <1>0 DEF OpportunitiesOK, OneAttackEach, Swings
<1>1. CASE StartCombat
  BY <1>0, <1>1 DEF StartCombat
<1>2. CASE CombatStarted \/ EndCombat
  BY <1>0, <1>2 DEF CombatStarted, EndCombat, ClearEconomies
<1>3. ASSUME NEW a \in Attackers,
             NewEconomy(a) \/ OtherReaction(a) \/ DodgeAsk(a) \/ UseReaction(a)
      PROVE  OpportunitiesOK'
  BY <1>0, <1>3 DEF NewEconomy, OtherReaction, DodgeAsk, UseReaction
<1>12. ASSUME NEW e \in Economies, Dodge(e) PROVE OpportunitiesOK'
  BY <1>0, <1>12 DEF Dodge
<1>4. ASSUME NEW p \in Pairs, Provoke(p) PROVE OpportunitiesOK'
  <2>1. prompts[p] + 1 \in 1 .. MaxPrompts /\ prompts[p] + 1 > prompts[p]
    BY <1>4 DEF Provoke, TypeOK
  <2>2. /\ pending' = [pending EXCEPT ![p] = prompts[p] + 1]
        /\ prompts' = [prompts EXCEPT ![p] = prompts[p] + 1]
        /\ p \notin expired' /\ \A q \in Pairs : q # p => (q \in expired' <=> q \in expired)
    BY <1>4 DEF Provoke, TypeOK
  <2>3. \A x \in Opportunities : x \in over' => x \in over \/ (pending[p] # 0 /\ x = <<p, pending[p]>>)
    BY <1>4 DEF Provoke
  <2>4. pending[p] # 0 => pending[p] \in 1 .. MaxPrompts /\ pending[p] <= prompts[p]
    BY DEF TypeOK
  <2>5. ASSUME NEW q \in Pairs, NEW k \in 1 .. MaxPrompts, k = pending'[q] \/ k > prompts'[q]
        PROVE  /\ attacks[<<q, k>>] = 0
               /\ <<q, k>> \in over' => k = pending'[q] /\ q \in expired'
               /\ \A r \in Requests : Swings(r) => swing[r].on # <<q, k>>
    <3>1. <<q, k>> \in Opportunities
      BY DEF Opportunities
    <3>2. CASE q = p
      <4>1. k > prompts[p]
        BY <2>1, <2>2, <2>5, <3>2 DEF TypeOK
      <4>2. <<p, k>> \notin over
        BY <2>4, <3>2, <4>1 DEF OpportunitiesOK, TypeOK
      <4>3. pending[p] # k
        BY <4>1 DEF TypeOK
      <4>4. <<p, k>> \notin over'
        BY <2>3, <3>1, <3>2, <4>2, <4>3
      <4> QED
        BY <3>2, <4>1, <4>4 DEF OpportunitiesOK
    <3>3. CASE q # p
      <4>1. k = pending[q] \/ k > prompts[q]
        BY <2>2, <2>5, <3>3 DEF TypeOK
      <4>2. <<q, k>> \in over' => <<q, k>> \in over
        BY <2>3, <3>1, <3>3
      <4>3. pending'[q] = pending[q]
        BY <2>2, <3>3 DEF TypeOK
      <4> QED
        BY <2>2, <3>3, <4>1, <4>2, <4>3 DEF OpportunitiesOK
    <3> QED
      BY <3>2, <3>3
  <2>6. pending[p] # 0 =>
          /\ attacks[<<p, pending[p]>>] = 0
          /\ \A r \in Requests : Swings(r) => swing[r].on # <<p, pending[p]>>
    BY <2>4 DEF OpportunitiesOK
  <2>7. ASSUME NEW r \in Requests, Swings(r)
        PROVE  attacks[swing[r].on] = 0 /\ swing[r].on \notin over'
    <3>1. swing[r].on \in Opportunities /\ attacks[swing[r].on] = 0 /\ swing[r].on \notin over
      BY <2>7, SwingType DEF OpportunitiesOK
    <3> QED
      BY <2>3, <2>6, <2>7, <3>1
  <2>8. ASSUME NEW x \in Opportunities
        PROVE  attacks[x] <= 1 /\ (attacks[x] = 1 => x \notin over')
    <3>1. attacks[x] <= 1 /\ (attacks[x] = 1 => x \notin over)
      BY DEF OpportunitiesOK, OneAttackEach
    <3> QED
      BY <2>3, <2>6, <3>1
  <2>9. UNCHANGED <<swing, attacks>>
    BY <1>4 DEF Provoke
  <2>10. \A r \in Requests : Swings(r)' <=> Swings(r)
    BY <2>9 DEF Swings
  <2> QED
    BY <2>5, <2>7, <2>8, <2>9, <2>10 DEF OpportunitiesOK, OneAttackEach
<1>5. ASSUME NEW p \in Pairs, NEW k \in 1 .. MaxPrompts,
             pending[p] = k, UNCHANGED <<prompts, swing, attacks>>,
             over' = over \cup {<<p, k>>},
             \/ pending' = pending /\ expired' = expired \cup {p}
             \/ pending' = [pending EXCEPT ![p] = 0] /\ expired' = expired \ {p}
      PROVE  OpportunitiesOK'
  <2>1. \A q \in Pairs : pending[q] <= prompts[q] /\ pending \in [Pairs -> 0 .. MaxPrompts]
                          /\ prompts \in [Pairs -> 0 .. MaxPrompts]
    BY DEF TypeOK
  <2>2. /\ attacks[<<p, k>>] = 0
        /\ \A r \in Requests : Swings(r) => swing[r].on # <<p, k>>
    BY <1>5 DEF OpportunitiesOK
  <2>3. \A r \in Requests : Swings(r)' <=> Swings(r)
    BY <1>5 DEF Swings
  <2>4. ASSUME NEW q \in Pairs, NEW j \in 1 .. MaxPrompts, j = pending'[q] \/ j > prompts[q]
        PROVE  /\ attacks[<<q, j>>] = 0
               /\ <<q, j>> \in over' => j = pending'[q] /\ q \in expired'
               /\ \A r \in Requests : Swings(r) => swing[r].on # <<q, j>>
    <3>1. j = pending[q] \/ j > prompts[q]
      BY <1>5, <2>1, <2>4
    <3>2. CASE q = p
      <4>1. CASE pending' = pending /\ expired' = expired \cup {p}
        BY <1>5, <3>1, <3>2, <4>1 DEF OpportunitiesOK
      <4>2. CASE pending' = [pending EXCEPT ![p] = 0] /\ expired' = expired \ {p}
        <5>1. j > prompts[p] /\ j # k
          BY <1>5, <2>1, <2>4, <3>2, <4>2
        <5>2. <<p, j>> \notin over
          BY <1>5, <2>1, <5>1 DEF OpportunitiesOK
        <5> QED
          BY <1>5, <3>2, <5>1, <5>2 DEF OpportunitiesOK
      <4> QED
        BY <1>5, <4>1, <4>2
    <3>3. CASE q # p
      <4>1. pending'[q] = pending[q] /\ (q \in expired' <=> q \in expired)
        BY <1>5, <2>1, <3>3
      <4>2. <<q, j>> \in over' => <<q, j>> \in over
        BY <1>5, <3>3
      <4> QED
        BY <3>1, <4>1, <4>2 DEF OpportunitiesOK
    <3> QED
      BY <3>2, <3>3
  <2>5. \A r \in Requests : Swings(r) => attacks[swing[r].on] = 0 /\ swing[r].on \notin over'
    BY <1>5, <2>2 DEF OpportunitiesOK
  <2>6. \A x \in Opportunities : attacks[x] <= 1 /\ (attacks[x] = 1 => x \notin over')
    BY <1>5, <2>2 DEF OpportunitiesOK, OneAttackEach
  <2> QED
    BY <1>5, <2>3, <2>4, <2>5, <2>6 DEF OpportunitiesOK, OneAttackEach
<1>6. ASSUME NEW p \in Pairs, Expire(p) PROVE OpportunitiesOK'
  <2>1. pending[p] \in 1 .. MaxPrompts
    BY <1>6 DEF Expire, TypeOK
  <2> QED
    BY <1>5, <1>6, <2>1 DEF Expire
<1>7. ASSUME NEW p \in Pairs, NEW k \in 1 .. prompts[p], Decline(p, k) PROVE OpportunitiesOK'
  <2>1. k \in 1 .. MaxPrompts
    BY DEF TypeOK
  <2> QED
    BY <1>5, <1>7, <2>1 DEF Decline, Delete
<1>8. ASSUME NEW p \in Pairs, NEW k \in 1 .. prompts[p], NEW r \in Requests, Execute(r, p, k)
      PROVE  OpportunitiesOK'
  <2>1. k \in 1 .. MaxPrompts /\ <<p, k>> \in Opportunities
    BY DEF TypeOK, Opportunities
  <2>2. UNCHANGED <<prompts, attacks, over>> /\ Free(r)
    BY <1>8 DEF Execute
  <2>3. \A q \in Pairs : pending[q] <= prompts[q] /\ pending \in [Pairs -> 0 .. MaxPrompts]
                          /\ prompts \in [Pairs -> 0 .. MaxPrompts]
    BY DEF TypeOK
  <2>4. ASSUME Claim(p, k)
        PROVE  /\ \A q \in Pairs, j \in 1 .. MaxPrompts :
                    j = pending'[q] \/ j > prompts[q] =>
                      /\ attacks[<<q, j>>] = 0
                      /\ <<q, j>> \in over => j = pending'[q] /\ q \in expired'
                      /\ <<q, j>> # <<p, k>>
                      /\ \A s \in Requests : Swings(s) => swing[s].on # <<q, j>>
    <3>1. /\ pending[p] = k /\ pending' = [pending EXCEPT ![p] = 0] /\ expired' = expired \ {p}
      BY <2>4 DEF Claim, Delete
    <3>2. ASSUME NEW q \in Pairs, NEW j \in 1 .. MaxPrompts, j = pending'[q] \/ j > prompts[q]
          PROVE  /\ attacks[<<q, j>>] = 0
                 /\ <<q, j>> \in over => j = pending'[q] /\ q \in expired'
                 /\ <<q, j>> # <<p, k>>
                 /\ \A s \in Requests : Swings(s) => swing[s].on # <<q, j>>
      <4>1. CASE q = p
        <5>1. j > prompts[p] /\ j # k /\ j # pending[p]
          BY <2>3, <3>1, <3>2, <4>1
        <5> QED
          BY <4>1, <5>1 DEF OpportunitiesOK
      <4>2. CASE q # p
        <5>1. pending'[q] = pending[q] /\ (q \in expired' <=> q \in expired)
          BY <2>3, <3>1, <4>2
        <5> QED
          BY <3>2, <4>2, <5>1 DEF OpportunitiesOK
      <4> QED
        BY <4>1, <4>2
    <3> QED
      BY <3>2
  <2>5. CASE Claim(p, k) /\ p \notin expired /\ Reserve(r, p, k)
    <3> DEFINE e == <<p[1], Reserved(p[1])>>
    <3>1. swing' = [swing EXCEPT ![r] = [on |-> <<p, k>>, with |-> e]]
      BY <2>5 DEF Reserve
    <3>2. swing'[r].on = <<p, k>>
      BY <3>1 DEF TypeOK
    <3>3. \A s \in Requests : s # r => swing'[s] = swing[s] /\ (Swings(s)' <=> Swings(s))
      BY <3>1 DEF TypeOK, Swings
    <3>4. /\ attacks[<<p, k>>] = 0 /\ <<p, k>> \notin over
          /\ \A s \in Requests : Swings(s) => swing[s].on # <<p, k>>
      BY <2>1, <2>5 DEF Claim, OpportunitiesOK
    <3>5. ASSUME NEW q \in Pairs, NEW j \in 1 .. MaxPrompts,
                 j = pending'[q] \/ j > prompts[q],
                 NEW s \in Requests, Swings(s)'
          PROVE  swing'[s].on # <<q, j>>
      <4>1. <<q, j>> # <<p, k>> /\ (Swings(s) => swing[s].on # <<q, j>>)
        BY <2>4, <2>5, <3>5
      <4>2. CASE s = r
        BY <3>2, <4>1, <4>2
      <4>3. CASE s # r
        BY <3>3, <3>5, <4>1, <4>3
      <4> QED
        BY <4>2, <4>3
    <3>6. \A s \in Requests : Swings(s)' => attacks[swing'[s].on] = 0 /\ swing'[s].on \notin over
      BY <3>2, <3>3, <3>4 DEF OpportunitiesOK
    <3>7. \A s, q \in Requests : Swings(s)' /\ Swings(q)' /\ swing'[s].on = swing'[q].on => s = q
      BY <3>2, <3>3, <3>4 DEF OpportunitiesOK
    <3> QED
      BY <2>2, <2>4, <2>5, <3>5, <3>6, <3>7 DEF OpportunitiesOK, OneAttackEach
  <2>6. CASE Claim(p, k) /\ UNCHANGED swing
    <3>1. \A s \in Requests : Swings(s)' <=> Swings(s)
      BY <2>6 DEF Swings
    <3> QED
      BY <2>2, <2>4, <2>6, <3>1 DEF OpportunitiesOK, OneAttackEach
  <2>7. CASE UNCHANGED <<pending, expired, swing>>
    BY <1>0, <2>2, <2>7
  <2> QED
    BY <1>8, <2>5, <2>6, <2>7 DEF Execute
<1>9. ASSUME NEW r \in Requests, HandBack(r) \/ WeaponFails(r) PROVE OpportunitiesOK'
  <2>1. /\ swing' = [swing EXCEPT ![r] = NoSwing]
        /\ UNCHANGED <<pending, expired, prompts, attacks, over>>
    BY <1>9 DEF HandBack, WeaponFails
  <2>2. \A s \in Requests : Swings(s)' => Swings(s) /\ swing'[s] = swing[s]
    BY <2>1 DEF Swings, TypeOK
  <2> QED
    BY <2>1, <2>2 DEF OpportunitiesOK, OneAttackEach
<1>10. ASSUME NEW r \in Requests, Attack(r) PROVE OpportunitiesOK'
  <2>1. /\ swing' = [swing EXCEPT ![r] = NoSwing] /\ Swings(r)
        /\ attacks' = [attacks EXCEPT ![swing[r].on] = @ + 1]
        /\ UNCHANGED <<pending, expired, prompts, over>>
    BY <1>10 DEF Attack, Swings
  <2>2. \A s \in Requests : Swings(s)' => Swings(s) /\ s # r /\ swing'[s] = swing[s]
    BY <2>1 DEF Swings, TypeOK
  <2>3. swing[r].on \in Opportunities /\ attacks[swing[r].on] = 0 /\ swing[r].on \notin over
    BY <2>1, SwingType DEF OpportunitiesOK
  <2>4. /\ attacks'[swing[r].on] = 1
        /\ \A x \in Opportunities : x # swing[r].on => attacks'[x] = attacks[x]
    BY <2>1, <2>3 DEF TypeOK
  <2>5. ASSUME NEW q \in Pairs, NEW j \in 1 .. MaxPrompts, j = pending[q] \/ j > prompts[q]
        PROVE  attacks'[<<q, j>>] = 0
    <3>1. <<q, j>> \in Opportunities /\ attacks[<<q, j>>] = 0 /\ swing[r].on # <<q, j>>
      BY <2>1, <2>5 DEF Opportunities, OpportunitiesOK
    <3> QED
      BY <2>4, <3>1
  <2>6. ASSUME NEW s \in Requests, Swings(s)'
        PROVE  attacks'[swing'[s].on] = 0 /\ swing'[s].on \notin over
    <3>1. Swings(s) /\ s # r /\ swing'[s] = swing[s]
      BY <2>2, <2>6
    <3>2. swing[s].on # swing[r].on /\ swing[s].on \in Opportunities
      BY <2>1, <3>1, SwingType DEF OpportunitiesOK
    <3> QED
      BY <2>4, <3>1, <3>2 DEF OpportunitiesOK
  <2>7. \A x \in Opportunities : attacks'[x] <= 1 /\ (attacks'[x] = 1 => x \notin over)
    BY <2>3, <2>4 DEF OpportunitiesOK, OneAttackEach
  <2>8. \A q \in Pairs, j \in 1 .. MaxPrompts : j = pending[q] \/ j > prompts[q] =>
          /\ <<q, j>> \in over => j = pending[q] /\ q \in expired
          /\ \A s \in Requests : Swings(s)' => swing'[s].on # <<q, j>>
    BY <2>2 DEF OpportunitiesOK
  <2>9. \A s, q \in Requests : Swings(s)' /\ Swings(q)' /\ swing'[s].on = swing'[q].on => s = q
    BY <2>2 DEF OpportunitiesOK
  <2> QED
    BY <2>1, <2>5, <2>6, <2>7, <2>8, <2>9 DEF OpportunitiesOK, OneAttackEach
<1>11. CASE UNCHANGED vars
  BY <1>0, <1>11 DEF vars
<1> QED
  BY <1>1, <1>2, <1>3, <1>4, <1>6, <1>7, <1>8, <1>9, <1>10, <1>11, <1>12 DEF Next

----------------------------------------------------------------------------
(* Reactions.                                                              *)

LEMMA ReactionsStep ==
  ASSUME IInv, [Next]_vars
  PROVE  ReactionsOK'
<1> USE OaAssumption DEF IInv
<1>0. ASSUME UNCHANGED <<economies, spent, swing, dodges, reactions>>
      PROVE  ReactionsOK'
  BY <1>0 DEF ReactionsOK, OneReactionEach, Swings
<1>1. CASE StartCombat \/ CombatStarted \/ EndCombat
  BY <1>0, <1>1 DEF StartCombat, CombatStarted, EndCombat, ClearEconomies
<1>2. ASSUME NEW p \in Pairs, Provoke(p) \/ Expire(p) PROVE ReactionsOK'
  BY <1>0, <1>2 DEF Provoke, Expire
<1>3. ASSUME NEW p \in Pairs, NEW k \in 1 .. prompts[p], Decline(p, k) PROVE ReactionsOK'
  BY <1>0, <1>3 DEF Decline
<1>4. ASSUME NEW a \in Attackers, NewEconomy(a) PROVE ReactionsOK'
  <2>1. /\ economies' = [economies EXCEPT ![a] = @ + 1]
        /\ UNCHANGED <<spent, swing, dodges, reactions>>
    BY <1>4 DEF NewEconomy
  <2>2. \A b \in Attackers, k \in 1 .. MaxEconomies : k > economies'[b] => k > economies[b]
    BY <2>1 DEF TypeOK
  <2> QED
    BY <2>1, <2>2 DEF ReactionsOK, OneReactionEach, Swings
\* An unspent economy is marked: its reaction is made, staked by a dodge, or
\* taken by hand.
<1>m. ASSUME NEW e \in Economies, e \notin spent, spent' = spent \cup {e},
             UNCHANGED swing, economies' \in [Attackers -> 0 .. MaxEconomies],
             \A b \in Attackers : economies'[b] >= economies[b],
             \A b \in Attackers, k \in 1 .. MaxEconomies : k > economies'[b] => <<b, k>> # e,
             \/ UNCHANGED dodges /\ reactions' = [reactions EXCEPT ![e] = @ + 1]
             \/ UNCHANGED reactions /\ dodges' \in {dodges, dodges \cup {e}}
      PROVE  ReactionsOK'
  <2>1. /\ reactions[e] = 0 /\ e \notin dodges
        /\ \A r \in Requests : Swings(r) => swing[r].with # e
    BY <1>m DEF ReactionsOK
  <2>2. /\ reactions'[e] \in {0, 1} /\ (e \in dodges' => reactions'[e] = 0)
        /\ \A x \in Economies : x # e => reactions'[x] = reactions[x]
        /\ \A x \in Economies : x # e => (x \in dodges' <=> x \in dodges)
    BY <1>m, <2>1 DEF TypeOK
  <2>3. \A r \in Requests : Swings(r)' <=> Swings(r)
    BY <1>m DEF Swings
  <2>4. \A x \in Economies : x \notin spent' =>
          /\ reactions'[x] = 0 /\ x \notin dodges'
          /\ \A r \in Requests : Swings(r) => swing[r].with # x
    BY <1>m, <2>2 DEF ReactionsOK
  <2>5. ASSUME NEW x \in dodges'
        PROVE  reactions'[x] = 0 /\ \A r \in Requests : Swings(r) => swing[r].with # x
    <3>1. x \in Economies
      BY <1>m DEF TypeOK
    <3> QED
      BY <2>1, <2>2, <3>1 DEF ReactionsOK
  <2>6. \A r \in Requests : Swings(r) => reactions'[swing[r].with] = 0
    BY <2>1, <2>2, SwingType DEF ReactionsOK
  <2>7. \A r, q \in Requests : Swings(r) /\ Swings(q) /\ swing[r].with = swing[q].with => r = q
    BY DEF ReactionsOK
  <2>8. ASSUME NEW b \in Attackers, NEW k \in 1 .. MaxEconomies, k > economies'[b]
        PROVE  <<b, k>> \notin spent'
    <3>1. k > economies[b]
      BY <1>m, <2>8 DEF TypeOK
    <3>2. <<b, k>> \notin spent
      BY <3>1 DEF ReactionsOK
    <3>3. <<b, k>> # e
      BY <1>m, <2>8
    <3> QED
      BY <1>m, <3>2, <3>3
  <2>9. \A x \in Economies : reactions'[x] <= 1
    BY <2>2 DEF ReactionsOK, OneReactionEach
  <2> QED
    BY <1>m, <2>3, <2>4, <2>5, <2>6, <2>7, <2>8, <2>9 DEF ReactionsOK, OneReactionEach
<1>5. ASSUME NEW a \in Attackers, OtherReaction(a) \/ DodgeAsk(a) PROVE ReactionsOK'
  <2>1. CASE UNCHANGED <<spent, reactions>> /\ OtherReaction(a)
    BY <1>0, <2>1 DEF OtherReaction
  <2>2. CASE CanReact(a) /\ Mark(a)
    <3> DEFINE e == <<a, economy[a]>>
    <3>1. /\ economy[a] <= economies[a] /\ economy[a] \in 1 .. MaxEconomies
          /\ e \in Economies /\ e \notin spent /\ spent' = spent \cup {e}
      BY <2>2, CanReactOn DEF Mark
    <3>2. /\ UNCHANGED <<swing, economies>>
          /\ \/ UNCHANGED dodges /\ reactions' = [reactions EXCEPT ![e] = @ + 1]
             \/ UNCHANGED spent
             \/ UNCHANGED reactions /\ dodges' = dodges \cup {e}
      BY <1>5 DEF OtherReaction, DodgeAsk
    <3>3. /\ \A b \in Attackers, k \in 1 .. MaxEconomies : k > economies'[b] => <<b, k>> # e
          /\ economies' \in [Attackers -> 0 .. MaxEconomies]
          /\ \A b \in Attackers : economies'[b] >= economies[b]
      BY <3>1, <3>2 DEF TypeOK
    <3> HIDE DEF e
    <3> QED
      BY <1>m, <3>1, <3>2, <3>3
  <2> QED
    BY <1>5, <2>1, <2>2 DEF OtherReaction, DodgeAsk
<1>11. ASSUME NEW a \in Attackers, UseReaction(a) PROVE ReactionsOK'
  <2> DEFINE e == <<a, Reserved(a)>>
  <2>1. /\ Reserved(a) <= MaxEconomies /\ spent' = spent \cup {e}
        /\ economies' = [economies EXCEPT ![a] = IF economy[a] = 0 THEN @ + 1 ELSE @]
        /\ UNCHANGED <<swing, dodges, reactions>>
    BY <1>11 DEF UseReaction
  <2>2. /\ Reserved(a) \in 1 .. MaxEconomies /\ e \in Economies
        /\ economy[a] = 0 => Reserved(a) = economies[a] + 1
        /\ economy[a] # 0 => Reserved(a) = economy[a] /\ economy[a] <= economies[a]
    BY <2>1, ReservedIn
  <2>3. /\ economies' \in [Attackers -> 0 .. MaxEconomies]
        /\ \A b \in Attackers : economies'[b] >= economies[b]
        /\ Reserved(a) <= economies'[a]
    BY <2>1, <2>2 DEF TypeOK
  <2>4. \A b \in Attackers, k \in 1 .. MaxEconomies : k > economies'[b] => <<b, k>> # e
    BY <2>2, <2>3 DEF TypeOK
  <2>5. CASE e \notin spent
    <3> HIDE DEF e
    <3> QED
      BY <1>m, <2>1, <2>2, <2>3, <2>4, <2>5
  <2>6. CASE e \in spent
    <3>1. UNCHANGED spent
      BY <2>1, <2>6
    <3>2. \A b \in Attackers, k \in 1 .. MaxEconomies : k > economies'[b] => k > economies[b]
      BY <2>3 DEF TypeOK
    <3> QED
      BY <2>1, <3>1, <3>2 DEF ReactionsOK, OneReactionEach, Swings
  <2> QED
    BY <2>5, <2>6
<1>12. ASSUME NEW e \in Economies, Dodge(e) PROVE ReactionsOK'
  <2>1. /\ e \in dodges /\ dodges' = dodges \ {e} /\ UNCHANGED <<economies, swing>>
        /\ \/ reactions' = [reactions EXCEPT ![e] = @ + 1] /\ UNCHANGED spent
           \/ spent' = spent \ {e} /\ UNCHANGED reactions
    BY <1>12 DEF Dodge
  <2>2. /\ reactions[e] = 0 /\ e \in spent
        /\ \A r \in Requests : Swings(r) => swing[r].with # e
    BY <2>1 DEF ReactionsOK
  <2>3. /\ reactions'[e] \in {0, 1} /\ (e \notin spent' => reactions'[e] = 0)
        /\ \A x \in Economies : x # e => reactions'[x] = reactions[x]
        /\ \A x \in Economies : x # e => (x \in spent' <=> x \in spent)
    BY <2>1, <2>2 DEF TypeOK
  <2>4. \A r \in Requests : Swings(r)' <=> Swings(r)
    BY <2>1 DEF Swings
  <2>5. ASSUME NEW x \in Economies, x \notin spent'
        PROVE  /\ reactions'[x] = 0 /\ x \notin dodges'
               /\ \A r \in Requests : Swings(r) => swing[r].with # x
    BY <2>1, <2>2, <2>3, <2>5 DEF ReactionsOK
  <2>6. ASSUME NEW x \in dodges'
        PROVE  reactions'[x] = 0 /\ \A r \in Requests : Swings(r) => swing[r].with # x
    <3>1. x \in Economies /\ x \in dodges /\ x # e
      BY <2>1 DEF TypeOK
    <3> QED
      BY <2>3, <3>1 DEF ReactionsOK
  <2>7. \A r \in Requests : Swings(r) => reactions'[swing[r].with] = 0
    BY <2>2, <2>3, SwingType DEF ReactionsOK
  <2>8. \A x \in Economies : reactions'[x] <= 1
    BY <2>3 DEF ReactionsOK, OneReactionEach
  <2>9. /\ \A r, q \in Requests : Swings(r) /\ Swings(q) /\ swing[r].with = swing[q].with => r = q
        /\ \A b \in Attackers, k \in 1 .. MaxEconomies : k > economies[b] => <<b, k>> \notin spent'
    BY <2>1 DEF ReactionsOK
  <2> QED
    BY <2>1, <2>4, <2>5, <2>6, <2>7, <2>8, <2>9 DEF ReactionsOK, OneReactionEach
<1>6. ASSUME NEW p \in Pairs, NEW k \in 1 .. prompts[p], NEW r \in Requests, Execute(r, p, k)
      PROVE  ReactionsOK'
  <2>1. CASE Reserve(r, p, k)
    <3> DEFINE a == p[1]
               e == <<a, Reserved(a)>>
    <3>1. a \in Attackers
      BY DEF Pairs
    <3>2. /\ ~ReactionSpent(a) /\ Reserved(a) <= MaxEconomies
          /\ economies' = [economies EXCEPT ![a] = IF economy[a] = 0 THEN @ + 1 ELSE @]
          /\ spent' = spent \cup {e}
          /\ swing' = [swing EXCEPT ![r] = [on |-> <<p, k>>, with |-> e]]
      BY <2>1 DEF Reserve
    <3>3. Reserved(a) \in 1 .. MaxEconomies /\ Reserved(a) <= economies'[a]
      BY <3>1, <3>2 DEF Reserved, TypeOK
    <3>4. e \in Economies
      BY <3>1, <3>3 DEF Economies
    <3>5. e \notin spent
      <4>1. CASE economy[a] = 0
        <5>1. Reserved(a) > economies[a]
          BY <3>1, <4>1 DEF Reserved, TypeOK
        <5> QED
          BY <3>1, <3>3, <5>1 DEF ReactionsOK
      <4>2. CASE economy[a] # 0
        BY <3>1, <3>2, <4>2 DEF Reserved, ReactionSpent, TypeOK
      <4> QED
        BY <4>1, <4>2
    <3>6. /\ reactions[e] = 0 /\ e \notin dodges
          /\ \A s \in Requests : Swings(s) => swing[s].with # e
      BY <3>4, <3>5 DEF ReactionsOK
    <3>7. swing'[r].with = e
      BY <3>2 DEF TypeOK
    <3>8. \A s \in Requests : s # r => swing'[s] = swing[s] /\ (Swings(s)' <=> Swings(s))
      BY <3>2 DEF TypeOK, Swings
    <3>9. UNCHANGED <<dodges, reactions>>
      BY <1>6 DEF Execute
    <3>14. ASSUME NEW x \in dodges
           PROVE  reactions[x] = 0 /\ \A s \in Requests : Swings(s)' => swing'[s].with # x
      <4>1. reactions[x] = 0 /\ \A s \in Requests : Swings(s) => swing[s].with # x
        BY DEF ReactionsOK
      <4>2. x # e
        BY <3>6
      <4> HIDE DEF e
      <4> QED
        BY <3>7, <3>8, <4>1, <4>2
    <3>10. ASSUME NEW x \in Economies, x \notin spent'
           PROVE  /\ reactions[x] = 0 /\ x \notin dodges
                  /\ \A s \in Requests : Swings(s)' => swing'[s].with # x
      <4>1. x \notin spent /\ x # e
        BY <3>2, <3>10
      <4>2. /\ reactions[x] = 0 /\ x \notin dodges
            /\ \A s \in Requests : Swings(s) => swing[s].with # x
        BY <4>1 DEF ReactionsOK
      <4> HIDE DEF e
      <4> QED
        BY <3>7, <3>8, <4>1, <4>2
    <3>11. \A s \in Requests : Swings(s)' => reactions[swing'[s].with] = 0
      BY <3>6, <3>7, <3>8 DEF ReactionsOK
    <3>12. \A s, q \in Requests : Swings(s)' /\ Swings(q)' /\ swing'[s].with = swing'[q].with => s = q
      BY <3>6, <3>7, <3>8 DEF ReactionsOK
    <3>13. ASSUME NEW b \in Attackers, NEW j \in 1 .. MaxEconomies, j > economies'[b]
           PROVE  <<b, j>> \notin spent'
      <4>1. j > economies[b]
        BY <3>1, <3>2, <3>13 DEF TypeOK
      <4>2. <<b, j>> \notin spent
        BY <4>1 DEF ReactionsOK
      <4>3. b = a => j # Reserved(a)
        BY <3>1, <3>2, <3>3, <3>13 DEF TypeOK
      <4> QED
        BY <3>2, <4>2, <4>3
    <3> HIDE DEF a, e
    <3> QED
      BY <3>9, <3>10, <3>11, <3>12, <3>13, <3>14 DEF ReactionsOK, OneReactionEach
  <2>2. CASE UNCHANGED <<economies, spent, swing>>
    BY <1>0, <1>6, <2>2 DEF Execute
  <2> QED
    BY <1>6, <2>1, <2>2 DEF Execute
<1>7. ASSUME NEW r \in Requests, HandBack(r) PROVE ReactionsOK'
  <2>1. /\ swing' = [swing EXCEPT ![r] = NoSwing] /\ Swings(r)
        /\ spent' = spent \ {swing[r].with}
        /\ UNCHANGED <<economies, dodges, reactions>>
    BY <1>7 DEF HandBack, Swings
  <2>2. \A s \in Requests : Swings(s)' => Swings(s) /\ s # r /\ swing'[s] = swing[s]
    BY <2>1 DEF Swings, TypeOK
  <2>3. ASSUME NEW x \in Economies, x \notin spent'
        PROVE  /\ reactions[x] = 0 /\ x \notin dodges
               /\ \A s \in Requests : Swings(s)' => swing'[s].with # x
    <3>1. CASE x \notin spent
      BY <2>2, <3>1 DEF ReactionsOK
    <3>2. CASE x = swing[r].with
      BY <2>1, <2>2, <3>2 DEF ReactionsOK
    <3> QED
      BY <2>1, <2>3, <3>1, <3>2
  <2> QED
    BY <2>1, <2>2, <2>3 DEF ReactionsOK, OneReactionEach
<1>8. ASSUME NEW r \in Requests, Attack(r) PROVE ReactionsOK'
  <2>1. /\ swing' = [swing EXCEPT ![r] = NoSwing] /\ Swings(r)
        /\ reactions' = [reactions EXCEPT ![swing[r].with] = @ + 1]
        /\ UNCHANGED <<economies, spent, dodges>>
    BY <1>8 DEF Attack, Swings
  <2>2. \A s \in Requests : Swings(s)' => Swings(s) /\ s # r /\ swing'[s] = swing[s]
    BY <2>1 DEF Swings, TypeOK
  <2>3. swing[r].with \in Economies /\ reactions[swing[r].with] = 0 /\ swing[r].with \in spent
    BY <2>1, SwingType DEF ReactionsOK
  <2>4. /\ reactions'[swing[r].with] = 1
        /\ \A x \in Economies : x # swing[r].with => reactions'[x] = reactions[x]
    BY <2>1, <2>3 DEF TypeOK
  <2>5. ASSUME NEW x \in Economies, x \notin spent
        PROVE  /\ reactions'[x] = 0 /\ x \notin dodges
               /\ \A s \in Requests : Swings(s)' => swing'[s].with # x
    BY <2>2, <2>3, <2>4, <2>5 DEF ReactionsOK
  <2>10. ASSUME NEW x \in dodges
         PROVE  reactions'[x] = 0 /\ \A s \in Requests : Swings(s)' => swing'[s].with # x
    <3>1. x \in Economies /\ x # swing[r].with
      BY <2>1 DEF TypeOK, ReactionsOK
    <3> QED
      BY <2>2, <2>4, <3>1 DEF ReactionsOK
  <2>6. ASSUME NEW s \in Requests, Swings(s)' PROVE reactions'[swing'[s].with] = 0
    <3>1. Swings(s) /\ s # r /\ swing'[s] = swing[s]
      BY <2>2, <2>6
    <3>2. swing[s].with # swing[r].with /\ swing[s].with \in Economies
      BY <2>1, <3>1, SwingType DEF ReactionsOK
    <3> QED
      BY <2>4, <3>1, <3>2 DEF ReactionsOK
  <2>7. \A x \in Economies : reactions'[x] <= 1
    BY <2>4 DEF ReactionsOK, OneReactionEach
  <2>8. \A s, q \in Requests : Swings(s)' /\ Swings(q)' /\ swing'[s].with = swing'[q].with => s = q
    BY <2>2 DEF ReactionsOK
  <2>9. \A b \in Attackers, k \in 1 .. MaxEconomies : k > economies[b] => <<b, k>> \notin spent
    BY DEF ReactionsOK
  <2> QED
    BY <2>1, <2>5, <2>6, <2>7, <2>8, <2>9, <2>10 DEF ReactionsOK, OneReactionEach
<1>9. ASSUME NEW r \in Requests, WeaponFails(r) PROVE ReactionsOK'
  <2>1. /\ swing' = [swing EXCEPT ![r] = NoSwing]
        /\ UNCHANGED <<economies, spent, dodges, reactions>>
    BY <1>9 DEF WeaponFails
  <2>2. \A s \in Requests : Swings(s)' => Swings(s) /\ swing'[s] = swing[s]
    BY <2>1 DEF Swings, TypeOK
  <2> QED
    BY <2>1, <2>2 DEF ReactionsOK, OneReactionEach
<1>10. CASE UNCHANGED vars
  BY <1>0, <1>10 DEF vars
<1> QED
  BY <1>1, <1>2, <1>3, <1>4, <1>5, <1>6, <1>7, <1>8, <1>9, <1>10, <1>11, <1>12 DEF Next

----------------------------------------------------------------------------
(* The theorems.                                                           *)

(* Every reachable state of the service satisfies the inductive invariant. *)
THEOREM Invariance == Spec => []IInv
<1>1. IInv /\ [Next]_vars => IInv'
  BY TypeStep, OpportunitiesStep, ReactionsStep DEF IInv
<1> QED
  BY InitOK, <1>1, PTL DEF Spec

(* The maps of the service always hold what their types say.               *)
THEOREM TypeCorrect == Spec => []TypeOK
<1>1. IInv => TypeOK
  BY DEF IInv
<1> QED
  BY Invariance, <1>1, PTL

(* However many requests answer a prompt, its opportunity is attacked on   *)
(* once, and never after a decline, its expiry or a later prompt.          *)
THEOREM AttackedOnce == Spec => []OneAttackEach
<1>1. IInv => OneAttackEach
  BY DEF IInv, OpportunitiesOK
<1> QED
  BY Invariance, <1>1, PTL

(* However many opportunities, checked chat commands, Uncanny Dodges and   *)
(* marks by hand compete for an economy, it pays for one of them.          *)
THEOREM ReactsOnce == Spec => []OneReactionEach
<1>1. IInv => OneReactionEach
  BY DEF IInv, ReactionsOK
<1> QED
  BY Invariance, <1>1, PTL

----------------------------------------------------------------------------
(* The refinement: what a step does to the abstract reactions.             *)

Offered == {x \in Opportunities : x[2] <= prompts[x[1]]}
Open == {x \in Opportunities : x[2] = pending[x[1]] /\ x[1] \notin expired}
Struck == {x \in Opportunities : attacks[x] > 0}
Used == spent \ ({c.with : c \in Claimed} \cup dodges)

\* The abstract state is a function of six of the maps.
LEMMA SeesTheSame ==
  /\ prompts' = prompts => Offered' = Offered
  /\ pending' = pending /\ expired' = expired => Open' = Open
  /\ swing' = swing => Claimed' = Claimed
  /\ attacks' = attacks => Struck' = Struck
  /\ swing' = swing /\ spent' = spent /\ dodges' = dodges => Used' = Used
BY DEF Offered, Open, Claimed, Struck, Used

LEMMA NothingSeen ==
  ASSUME UNCHANGED <<pending, expired, prompts, spent, swing, dodges, attacks>>
  PROVE  UNCHANGED Promises!rvars
BY SeesTheSame DEF Promises!rvars, Offered, Open, Struck, Used

\* Opportunities are pairs of a pair and a number.
LEMMA Membership ==
  ASSUME NEW p \in Pairs, NEW k \in 1 .. MaxPrompts
  PROVE  /\ <<p, k>> \in Opportunities
         /\ <<p, k>> \in Open <=> k = pending[p] /\ p \notin expired
         /\ <<p, k>> \in Offered <=> k <= prompts[p]
BY DEF Opportunities, Open, Offered

\* A pair loses what is registered for it, or keeps it though it is too late.
LEMMA LapseSeen ==
  ASSUME TypeOK, NEW p \in Pairs, pending[p] > 0,
         \/ pending' = pending /\ expired' = expired \cup {p}
         \/ pending' = [pending EXCEPT ![p] = 0] /\ expired' = expired \ {p}
  PROVE  Open' = Open \ {<<p, pending[p]>>}
<1> DEFINE x == <<p, pending[p]>>
<1>1. pending[p] \in 1 .. MaxPrompts /\ x \in Opportunities
  BY OaAssumption DEF TypeOK, Opportunities
<1>2. ASSUME NEW y \in Opportunities
      PROVE  y \in Open' <=> y \in Open /\ y # x
  <2>1. PICK q \in Pairs, k \in 1 .. MaxPrompts : y = <<q, k>>
    BY DEF Opportunities
  <2>2. y \in Open <=> k = pending[q] /\ q \notin expired
    BY <2>1, Membership
  <2>3. y \in Open' <=> k = pending'[q] /\ q \notin expired'
    BY <2>1 DEF Open
  <2>4. CASE q = p
    <3>1. ~(k = pending'[q] /\ q \notin expired')
      BY <1>1, <2>4 DEF TypeOK
    <3> QED
      BY <2>1, <2>2, <2>3, <2>4, <3>1
  <2>5. CASE q # p
    <3>1. pending'[q] = pending[q] /\ (q \in expired' <=> q \in expired)
      BY <2>5 DEF TypeOK
    <3> QED
      BY <2>1, <2>2, <2>3, <2>5, <3>1
  <2> QED
    BY <2>4, <2>5
<1> QED
  BY <1>2 DEF Open

\* What is on the way is one commitment per request, and costs a reaction
\* each; so when r is done, its own is what is gone.
LEMMA ClaimEnds ==
  ASSUME IInv, NEW r \in Requests, Swings(r), swing' = [swing EXCEPT ![r] = NoSwing],
         dodges' = dodges
  PROVE  /\ swing[r] \in Claimed /\ Claimed' = Claimed \ {swing[r]}
         /\ swing[r].with \in spent
         /\ spent' = spent => Used' = Used \cup {swing[r].with}
         /\ spent' = spent \ {swing[r].with} => Used' = Used
<1>1. swing[r] \in Claimed
  BY DEF Claimed, Swings
<1>2. \A q \in Requests : q # r => swing'[q] = swing[q]
  BY DEF IInv, TypeOK
<1>3. swing'[r] = NoSwing
  BY DEF IInv, TypeOK
<1>4. \A q \in Requests : Swings(q) /\ q # r => swing[q].with # swing[r].with
  BY DEF IInv, ReactionsOK
<1>5. Claimed' = Claimed \ {swing[r]}
  <2>1. ASSUME NEW c \in Claimed' PROVE c \in Claimed \ {swing[r]}
    <3>1. PICK q \in Requests : swing'[q] # NoSwing /\ c = swing'[q]
      BY DEF Claimed
    <3>2. q # r /\ swing[q] = c /\ Swings(q)
      BY <1>2, <1>3, <3>1 DEF Swings
    <3> QED
      BY <1>4, <3>2 DEF Claimed, Swings
  <2>2. ASSUME NEW c \in Claimed, c # swing[r] PROVE c \in Claimed'
    <3>1. PICK q \in Requests : swing[q] # NoSwing /\ c = swing[q]
      BY DEF Claimed
    <3>2. q # r /\ swing'[q] = c
      BY <1>2, <2>2, <3>1
    <3> QED
      BY <3>1, <3>2 DEF Claimed
  <2> QED
    BY <2>1, <2>2
<1>6. swing[r].with \in spent
  <2>1. swing[r].with \in Economies
    BY SwingType DEF IInv
  <2> QED
    BY <2>1 DEF IInv, ReactionsOK
<1>7. \A c \in Claimed \ {swing[r]} : c.with # swing[r].with
  <2> TAKE c \in Claimed \ {swing[r]}
  <2>1. PICK q \in Requests : swing[q] # NoSwing /\ c = swing[q]
    BY DEF Claimed
  <2> QED
    BY <1>4, <2>1 DEF Swings
<1>8. {c.with : c \in Claimed} = {c.with : c \in Claimed'} \cup {swing[r].with}
  BY <1>1, <1>5
<1>9. swing[r].with \notin {c.with : c \in Claimed'}
  BY <1>5, <1>7
<1>10. swing[r].with \notin dodges
  BY DEF IInv, ReactionsOK
<1> QED
  BY <1>1, <1>5, <1>6, <1>8, <1>9, <1>10 DEF Used

\* The abstract actions, in the words of this module.
LEMMA OfferSeen ==
  ASSUME NEW x \in Opportunities, x \notin Offered, Offered' = Offered \cup {x},
         \E lapsed \in SUBSET Open : Open' = (Open \ lapsed) \cup {x},
         Claimed' = Claimed, Struck' = Struck, Used' = Used, dodges' = dodges
  PROVE  Promises!Next
<1>1. Promises!Offer(x)
  BY DEF Promises!Offer, Offered, Open, Struck, Used
<1> QED
  BY <1>1 DEF Promises!Next

LEMMA LapseIsSeen ==
  ASSUME NEW x \in Opportunities, Open' = Open \ {x},
         Offered' = Offered, Claimed' = Claimed, Struck' = Struck, Used' = Used, dodges' = dodges
  PROVE  [Promises!Next]_(Promises!rvars)
<1>1. CASE x \in Open
  <2>1. Promises!Lapse(x)
    BY <1>1 DEF Promises!Lapse, Offered, Open, Struck, Used
  <2> QED
    BY <2>1 DEF Promises!Next
<1>2. CASE x \notin Open
  <2>1. Open' = Open
    BY <1>2
  <2> QED
    BY <2>1 DEF Promises!rvars, Offered, Open, Struck, Used
<1> QED
  BY <1>1, <1>2

LEMMA CommitSeen ==
  ASSUME NEW x \in Opportunities, NEW e \in Economies, x \in Open,
         e \notin Used \cup dodges, \A c \in Claimed : c.with # e,
         Open' = Open \ {x}, Claimed' = Claimed \cup {[on |-> x, with |-> e]},
         Offered' = Offered, Struck' = Struck, Used' = Used, dodges' = dodges
  PROVE  Promises!Next
<1>1. Promises!Available(e)
  BY DEF Promises!Available, Used
<1>2. Promises!Commit(x, e)
  BY <1>1 DEF Promises!Commit, Offered, Open, Struck, Used
<1> QED
  BY <1>2 DEF Promises!Next

LEMMA EndSeen ==
  ASSUME NEW c \in Claimed, Claimed' = Claimed \ {c}, Offered' = Offered, Open' = Open,
         \/ Used' = Used /\ Struck' = Struck
         \/ Used' = Used \cup {c.with} /\ Struck' = Struck
         \/ Used' = Used \cup {c.with} /\ c.on \notin Struck /\ Struck' = Struck \cup {c.on}, dodges' = dodges
  PROVE  Promises!Next
<1>1. CASE Used' = Used /\ Struck' = Struck
  <2>1. Promises!Withdraw(c)
    BY <1>1 DEF Promises!Withdraw, Promises!Ends, Offered, Open, Struck, Used
  <2> QED
    BY <2>1 DEF Promises!Next
<1>2. CASE Used' = Used \cup {c.with} /\ Struck' = Struck
  <2>1. Promises!Forfeit(c)
    BY <1>2 DEF Promises!Forfeit, Promises!Ends, Offered, Open, Struck, Used
  <2> QED
    BY <2>1 DEF Promises!Next
<1>3. CASE Used' = Used \cup {c.with} /\ c.on \notin Struck /\ Struck' = Struck \cup {c.on}
  <2>1. Promises!Strike(c)
    BY <1>3 DEF Promises!Strike, Promises!Ends, Offered, Open, Struck, Used
  <2> QED
    BY <2>1 DEF Promises!Next
<1> QED
  BY <1>1, <1>2, <1>3

LEMMA ReactionSeen ==
  ASSUME NEW e \in Economies, e \notin Used \cup dodges, \A c \in Claimed : c.with # e,
         Used' = Used \cup {e}, Claimed' = Claimed,
         Offered' = Offered, Open' = Open, Struck' = Struck, dodges' = dodges
  PROVE  Promises!Next
<1>1. Promises!Available(e)
  BY DEF Promises!Available, Used
<1>2. Promises!React(e)
  BY <1>1 DEF Promises!React, Offered, Open, Struck, Used
<1> QED
  BY <1>2 DEF Promises!Next

LEMMA BraceSeen ==
  ASSUME NEW e \in Economies, e \notin Used \cup dodges, \A c \in Claimed : c.with # e,
         dodges' = dodges \cup {e}, Used' = Used, Claimed' = Claimed,
         Offered' = Offered, Open' = Open, Struck' = Struck
  PROVE  Promises!Next
<1>1. Promises!Available(e)
  BY DEF Promises!Available, Used
<1>2. Promises!Brace(e)
  BY <1>1 DEF Promises!Brace, Offered, Open, Struck, Used
<1> QED
  BY <1>2 DEF Promises!Next

LEMMA SettleSeen ==
  ASSUME NEW e \in Economies, e \in dodges, dodges' = dodges \ {e},
         Used' \in {Used, Used \cup {e}}, Claimed' = Claimed,
         Offered' = Offered, Open' = Open, Struck' = Struck
  PROVE  Promises!Next
<1>1. Promises!Settle(e)
  BY DEF Promises!Settle, Offered, Open, Struck, Used
<1> QED
  BY <1>1 DEF Promises!Next

\* A reaction that is not spent is available.
LEMMA Unspent ==
  ASSUME IInv, NEW e \in Economies, e \notin spent
  PROVE  e \notin Used \cup dodges /\ \A c \in Claimed : c.with # e
<1>1. e \notin dodges /\ \A r \in Requests : Swings(r) => swing[r].with # e
  BY DEF IInv, ReactionsOK
<1> QED
  BY <1>1 DEF Used, Claimed, Swings

LEMMA ProvokeSeen ==
  ASSUME IInv, NEW p \in Pairs, Provoke(p)
  PROVE  Promises!Next
<1> DEFINE k == prompts[p] + 1
           x == <<p, k>>
<1>1. /\ prompts \in [Pairs -> 0 .. MaxPrompts] /\ pending \in [Pairs -> 0 .. MaxPrompts]
      /\ MaxPrompts \in Nat /\ \A q \in Pairs : pending[q] <= prompts[q]
  BY OaAssumption DEF IInv, TypeOK
<1>2. prompts[p] < MaxPrompts /\ prompts' = [prompts EXCEPT ![p] = @ + 1]
  BY DEF Provoke
<1>3. k \in 1 .. MaxPrompts /\ x \in Opportunities
  BY <1>1, <1>2 DEF Opportunities
<1>4. /\ prompts'[p] = k /\ \A q \in Pairs : q # p => prompts'[q] = prompts[q]
      /\ pending'[p] = k /\ \A q \in Pairs : q # p => pending'[q] = pending[q]
      /\ expired' = expired \ {p}
  BY <1>1, <1>2 DEF Provoke
<1>5. x \notin Offered
  BY <1>1, <1>3, Membership
<1> HIDE DEF k
<1>6. Offered' = Offered \cup {x}
  <2>1. ASSUME NEW y \in Opportunities PROVE y \in Offered' <=> y \in Offered \/ y = x
    <3>1. PICK q \in Pairs, j \in 1 .. MaxPrompts : y = <<q, j>>
      BY DEF Opportunities
    <3>2. (y \in Offered <=> j <= prompts[q]) /\ (y \in Offered' <=> j <= prompts'[q])
      BY <3>1 DEF Offered
    <3>3. CASE q = p
      <4>1. j <= k <=> j <= prompts[p] \/ j = k
        BY <1>1, <1>3 DEF k
      <4> QED
        BY <1>4, <3>1, <3>2, <3>3, <4>1
    <3>4. CASE q # p
      BY <1>4, <3>1, <3>2, <3>4
    <3> QED
      BY <3>3, <3>4
  <2> QED
    BY <1>3, <2>1 DEF Offered
<1>7. \E lapsed \in SUBSET Open : Open' = (Open \ lapsed) \cup {x}
  <2> DEFINE lapsed == {y \in Open : y[1] = p}
  <2>1. ASSUME NEW y \in Opportunities
        PROVE  y \in Open' <=> (y \in Open /\ y \notin lapsed) \/ y = x
    <3>1. PICK q \in Pairs, j \in 1 .. MaxPrompts : y = <<q, j>>
      BY DEF Opportunities
    <3>2. (y \in Open <=> j = pending[q] /\ q \notin expired)
          /\ (y \in Open' <=> j = pending'[q] /\ q \notin expired')
      BY <3>1 DEF Open
    <3>3. CASE q = p
      BY <1>4, <3>1, <3>2, <3>3
    <3>4. CASE q # p
      BY <1>4, <3>1, <3>2, <3>4
    <3> QED
      BY <3>3, <3>4
  <2>2. Open' = (Open \ lapsed) \cup {x}
    BY <1>3, <2>1 DEF Open
  <2> QED
    BY <2>2
<1>8. Claimed' = Claimed /\ Struck' = Struck /\ Used' = Used /\ dodges' = dodges
  BY SeesTheSame DEF Provoke
<1> QED
  BY <1>3, <1>5, <1>6, <1>7, <1>8, OfferSeen

\* What a pair has registered is declined, grows old, or is claimed in vain.
LEMMA GoneSeen ==
  ASSUME IInv, NEW p \in Pairs, pending[p] > 0,
         \/ pending' = pending /\ expired' = expired \cup {p}
         \/ pending' = [pending EXCEPT ![p] = 0] /\ expired' = expired \ {p},
         prompts' = prompts, swing' = swing, spent' = spent, dodges' = dodges,
         attacks' = attacks
  PROVE  [Promises!Next]_(Promises!rvars)
<1>1. <<p, pending[p]>> \in Opportunities
  BY OaAssumption DEF IInv, TypeOK, Opportunities
<1>2. Open' = Open \ {<<p, pending[p]>>}
  BY LapseSeen DEF IInv
<1> QED
  BY <1>1, <1>2, SeesTheSame, LapseIsSeen

LEMMA ReserveSeen ==
  ASSUME IInv, NEW r \in Requests, NEW p \in Pairs, NEW k \in 1 .. prompts[p], Free(r),
         Claim(p, k), p \notin expired, Reserve(r, p, k), prompts' = prompts, attacks' = attacks,
         dodges' = dodges
  PROVE  Promises!Next
<1> DEFINE a == p[1]
           e == <<a, Reserved(a)>>
           x == <<p, k>>
<1>1. /\ economy \in [Attackers -> 0 .. MaxEconomies] /\ economies \in [Attackers -> 0 .. MaxEconomies]
      /\ MaxEconomies \in Nat /\ MaxPrompts \in Nat /\ prompts[p] \in 0 .. MaxPrompts
      /\ pending \in [Pairs -> 0 .. MaxPrompts] /\ a \in Attackers
      /\ swing \in [Requests -> {NoSwing} \cup [on : Opportunities, with : Economies]]
  BY OaAssumption DEF IInv, TypeOK, Pairs
<1>2. /\ ~ReactionSpent(a) /\ Reserved(a) <= MaxEconomies /\ spent' = spent \cup {e}
      /\ swing' = [swing EXCEPT ![r] = [on |-> x, with |-> e]]
  BY DEF Reserve
<1>3. e \in Economies /\ e \notin spent
  <2>1. CASE economy[a] = 0
    <3>1. Reserved(a) = economies[a] + 1
      BY <2>1 DEF Reserved
    <3>2. Reserved(a) \in 1 .. MaxEconomies /\ Reserved(a) > economies[a]
      BY <1>1, <1>2, <3>1
    <3> QED
      BY <1>1, <3>2 DEF IInv, ReactionsOK, Economies
  <2>2. CASE economy[a] # 0
    <3>1. Reserved(a) = economy[a] /\ economy[a] > 0
      BY <1>1, <2>2 DEF Reserved
    <3>2. Reserved(a) \in 1 .. MaxEconomies
      BY <1>1, <3>1
    <3> QED
      BY <1>1, <1>2, <3>1, <3>2 DEF ReactionSpent, Economies
  <2> QED
    BY <2>1, <2>2
<1>4. k \in 1 .. MaxPrompts /\ pending[p] = k /\ pending[p] > 0
  BY <1>1 DEF Claim
<1>5. x \in Opportunities /\ x \in Open
  BY <1>4, Membership
<1>6. Open' = Open \ {x}
  BY <1>4, LapseSeen DEF IInv, Claim, Delete
<1> HIDE DEF a, e, x
<1>7. Claimed' = Claimed \cup {[on |-> x, with |-> e]}
  <2>1. swing'[r] = [on |-> x, with |-> e] /\ \A q \in Requests : q # r => swing'[q] = swing[q]
    BY <1>1, <1>2
  <2>2. swing'[r] # NoSwing
    <3>1. [on |-> x, with |-> e].on = x
      OBVIOUS
    <3>2. DOMAIN [on |-> x, with |-> e] # DOMAIN NoSwing
      BY DEF NoSwing
    <3> QED
      BY <2>1, <3>2
  <2>3. swing[r] = NoSwing
    BY DEF Free
  <2>4. ASSUME NEW c \in Claimed' PROVE c \in Claimed \cup {[on |-> x, with |-> e]}
    <3>1. PICK q \in Requests : swing'[q] # NoSwing /\ c = swing'[q]
      BY DEF Claimed
    <3> QED
      BY <2>1, <3>1 DEF Claimed
  <2>5. ASSUME NEW c \in Claimed PROVE c \in Claimed'
    <3>1. PICK q \in Requests : swing[q] # NoSwing /\ c = swing[q]
      BY DEF Claimed
    <3>2. q # r
      BY <2>3, <3>1
    <3> QED
      BY <2>1, <3>1, <3>2 DEF Claimed
  <2>6. [on |-> x, with |-> e] \in Claimed'
    BY <2>1, <2>2 DEF Claimed
  <2> QED
    BY <2>4, <2>5, <2>6
<1>8. e \notin Used \cup dodges /\ \A c \in Claimed : c.with # e
  BY <1>3, Unspent
<1>9. Used' = Used
  <2>1. {c.with : c \in Claimed'} = {c.with : c \in Claimed} \cup {e}
    <3> DEFINE new == [on |-> x, with |-> e]
    <3>1. new.with = e
      OBVIOUS
    <3> HIDE DEF new
    <3>2. Claimed' = Claimed \cup {new}
      BY <1>7 DEF new
    <3> QED
      BY <3>1, <3>2
  <2> QED
    BY <1>2, <1>3, <2>1 DEF Used
<1>10. Offered' = Offered /\ Struck' = Struck
  BY SeesTheSame
<1> QED
  BY <1>3, <1>5, <1>6, <1>7, <1>8, <1>9, <1>10, CommitSeen

\* Whoever was on the way attacks, finds no weapon, or fails.
LEMMA SwingSeen ==
  ASSUME IInv, NEW r \in Requests, HandBack(r) \/ Attack(r) \/ WeaponFails(r)
  PROVE  Promises!Next
<1>1. /\ Swings(r) /\ swing' = [swing EXCEPT ![r] = NoSwing]
      /\ prompts' = prompts /\ pending' = pending /\ expired' = expired /\ dodges' = dodges
  BY DEF HandBack, Attack, WeaponFails, Swings
<1>2. /\ swing[r] \in Claimed /\ Claimed' = Claimed \ {swing[r]}
      /\ spent' = spent => Used' = Used \cup {swing[r].with}
      /\ spent' = spent \ {swing[r].with} => Used' = Used
  BY <1>1, ClaimEnds
<1>3. Offered' = Offered /\ Open' = Open
  BY <1>1, SeesTheSame
<1>4. CASE HandBack(r)
  <2>1. Used' = Used /\ Struck' = Struck
    BY <1>2, <1>4, SeesTheSame DEF HandBack
  <2> QED
    BY <1>1, <1>2, <1>3, <2>1, EndSeen
<1>5. CASE WeaponFails(r)
  <2>1. Used' = Used \cup {swing[r].with} /\ Struck' = Struck
    BY <1>2, <1>5, SeesTheSame DEF WeaponFails
  <2> QED
    BY <1>1, <1>2, <1>3, <2>1, EndSeen
<1>6. CASE Attack(r)
  <2>1. Used' = Used \cup {swing[r].with}
    BY <1>2, <1>6 DEF Attack
  <2>2. PICK x \in Opportunities : x = swing[r].on
    BY <1>1, SwingType DEF IInv
  <2>3. attacks \in [Opportunities -> 0 .. 2] /\ attacks[x] = 0
    BY <1>1, <2>2 DEF IInv, TypeOK, OpportunitiesOK
  <2>4. attacks' = [attacks EXCEPT ![x] = @ + 1]
    BY <1>6, <2>2 DEF Attack
  <2>5. attacks'[x] > 0 /\ \A y \in Opportunities : y # x => attacks'[y] = attacks[y]
    BY <2>3, <2>4
  <2>6. x \notin Struck /\ Struck' = Struck \cup {x}
    BY <2>3, <2>5 DEF Struck
  <2> QED
    BY <1>1, <1>2, <1>3, <2>1, <2>2, <2>6, EndSeen
<1> QED
  BY <1>4, <1>5, <1>6

(* The service implements the abstract reactions: a claim or a dodge       *)
(* stakes a reaction nobody else has staked or used, and what is on the    *)
(* way uses or gives back exactly its own, whatever turns, prompts,        *)
(* declines, expiry, chat commands and marks by hand come between.         *)
THEOREM ServiceKeepsPromises == Spec => ImplementsReactions
<1>1. Init => Promises!Init
  <2> SUFFICES ASSUME Init PROVE Promises!Init
    OBVIOUS
  <2>1. /\ \A p \in Pairs : prompts[p] = 0 /\ pending[p] = 0
        /\ \A x \in Opportunities : attacks[x] = 0
        /\ \A r \in Requests : swing[r] = NoSwing
        /\ spent = {} /\ dodges = {}
    BY DEF Init
  <2>2. \A x \in Opportunities : x[1] \in Pairs /\ x[2] \in 1 .. MaxPrompts
    BY DEF Opportunities
  <2>3. \A x \in Opportunities : ~(x[2] <= prompts[x[1]]) /\ x[2] # pending[x[1]]
    BY <2>1, <2>2
  <2>4. Claimed = {}
    BY <2>1 DEF Claimed
  <2> QED
    BY <2>1, <2>3, <2>4 DEF Promises!Init
<1>2. ASSUME IInv, [Next]_vars
      PROVE  [Promises!Next]_(Promises!rvars)
  <2>1. CASE StartCombat \/ CombatStarted \/ EndCombat \/ UNCHANGED vars
    BY <2>1, NothingSeen DEF StartCombat, CombatStarted, EndCombat, ClearEconomies, vars
  <2>2. ASSUME NEW a \in Attackers, NewEconomy(a)
        PROVE  [Promises!Next]_(Promises!rvars)
    BY <2>2, NothingSeen DEF NewEconomy
  <2>m. ASSUME NEW e \in Economies, e \notin spent, spent' = spent \cup {e},
               UNCHANGED <<pending, expired, prompts, swing, attacks>>,
               dodges' \in {dodges, dodges \cup {e}}
        PROVE  Promises!Next
    <3>1. e \notin Used \cup dodges /\ \A c \in Claimed : c.with # e
      BY <1>2, <2>m, Unspent
    <3>2. Claimed' = Claimed /\ Offered' = Offered /\ Open' = Open /\ Struck' = Struck
      BY <2>m, SeesTheSame
    <3>3. e \notin {c.with : c \in Claimed}
      BY <3>1
    <3>4. CASE dodges' = dodges
      <4>1. Used' = Used \cup {e}
        BY <2>m, <3>1, <3>2, <3>3, <3>4 DEF Used
      <4> QED
        BY <3>1, <3>2, <3>4, <4>1, ReactionSeen
    <3>5. CASE dodges' = dodges \cup {e}
      <4>1. Used' = Used
        BY <2>m, <3>2, <3>5 DEF Used
      <4> QED
        BY <3>1, <3>2, <3>5, <4>1, BraceSeen
    <3> QED
      BY <2>m, <3>4, <3>5
  <2>3. ASSUME NEW a \in Attackers, OtherReaction(a) \/ DodgeAsk(a)
        PROVE  [Promises!Next]_(Promises!rvars)
    <3> DEFINE e == <<a, economy[a]>>
    <3>1. UNCHANGED <<pending, expired, prompts, swing, attacks>>
      BY <2>3 DEF OtherReaction, DodgeAsk
    <3>2. CASE UNCHANGED <<spent, dodges>>
      BY <3>1, <3>2, NothingSeen
    <3>3. CASE CanReact(a) /\ Mark(a)
      <4>1. e \in Economies /\ e \notin spent /\ spent' = spent \cup {e}
        BY <1>2, <3>3, CanReactOn DEF IInv, Mark
      <4>2. dodges' \in {dodges, dodges \cup {e}}
        BY <2>3 DEF OtherReaction, DodgeAsk
      <4> HIDE DEF e
      <4> QED
        BY <2>m, <3>1, <4>1, <4>2
    <3> QED
      BY <2>3, <3>2, <3>3 DEF OtherReaction, DodgeAsk
  <2>9. ASSUME NEW a \in Attackers, UseReaction(a)
        PROVE  [Promises!Next]_(Promises!rvars)
    <3> DEFINE e == <<a, Reserved(a)>>
    <3>1. /\ UNCHANGED <<pending, expired, prompts, swing, dodges, attacks>>
          /\ Reserved(a) <= MaxEconomies /\ spent' = spent \cup {e}
      BY <2>9 DEF UseReaction
    <3>2. e \in Economies
      BY <1>2, <3>1, ReservedIn DEF IInv
    <3> HIDE DEF e
    <3>3. CASE e \notin spent
      BY <2>m, <3>1, <3>2, <3>3
    <3>4. CASE e \in spent
      <4>1. spent' = spent
        BY <3>1, <3>4
      <4> QED
        BY <3>1, <4>1, NothingSeen
    <3> QED
      BY <3>3, <3>4
  <2>10. ASSUME NEW e \in Economies, Dodge(e)
         PROVE  [Promises!Next]_(Promises!rvars)
    <3>1. /\ e \in dodges /\ dodges' = dodges \ {e} /\ spent' \in {spent, spent \ {e}}
          /\ UNCHANGED <<pending, expired, prompts, swing, attacks>>
      BY <2>10 DEF Dodge
    <3>2. Claimed' = Claimed /\ Offered' = Offered /\ Open' = Open /\ Struck' = Struck
      BY <3>1, SeesTheSame
    <3>3. e \in spent /\ \A c \in Claimed : c.with # e
      BY <1>2, <3>1 DEF IInv, ReactionsOK, Claimed, Swings
    <3>4. e \notin {c.with : c \in Claimed}
      BY <3>3
    <3>5. Used' \in {Used, Used \cup {e}}
      <4>1. CASE spent' = spent
        BY <3>1, <3>2, <3>3, <3>4, <4>1 DEF Used
      <4>2. CASE spent' = spent \ {e}
        BY <3>1, <3>2, <4>2 DEF Used
      <4> QED
        BY <3>1, <4>1, <4>2
    <3> QED
      BY <3>1, <3>2, <3>5, SettleSeen
  <2>4. ASSUME NEW p \in Pairs, Provoke(p)
        PROVE  [Promises!Next]_(Promises!rvars)
    BY <1>2, <2>4, ProvokeSeen
  <2>5. ASSUME NEW p \in Pairs, Expire(p)
        PROVE  [Promises!Next]_(Promises!rvars)
    BY <1>2, <2>5, GoneSeen DEF Expire
  <2>6. ASSUME NEW p \in Pairs, NEW k \in 1 .. prompts[p], Decline(p, k)
        PROVE  [Promises!Next]_(Promises!rvars)
    <3>1. pending[p] > 0
      BY <1>2, <2>6 DEF Decline, IInv, TypeOK
    <3> QED
      BY <1>2, <2>6, <3>1, GoneSeen DEF Decline, Delete
  <2>7. ASSUME NEW p \in Pairs, NEW k \in 1 .. prompts[p], NEW r \in Requests, Execute(r, p, k)
        PROVE  [Promises!Next]_(Promises!rvars)
    <3>1. Free(r) /\ prompts' = prompts /\ attacks' = attacks /\ dodges' = dodges
      BY <2>7 DEF Execute
    <3>2. CASE Claim(p, k) /\ p \notin expired /\ Reserve(r, p, k)
      BY <1>2, <3>1, <3>2, ReserveSeen
    <3>3. CASE Claim(p, k) /\ UNCHANGED <<spent, swing>>
      <4>1. pending[p] > 0
        BY <1>2, <3>3 DEF Claim, IInv, TypeOK
      <4> QED
        BY <1>2, <3>1, <3>3, <4>1, GoneSeen DEF Claim, Delete
    <3>4. CASE UNCHANGED <<pending, expired, spent, swing>>
      BY <3>1, <3>4, NothingSeen
    <3> QED
      BY <2>7, <3>2, <3>3, <3>4 DEF Execute
  <2>8. ASSUME NEW r \in Requests, HandBack(r) \/ Attack(r) \/ WeaponFails(r)
        PROVE  [Promises!Next]_(Promises!rvars)
    BY <1>2, <2>8, SwingSeen
  <2> QED
    BY <1>2, <2>1, <2>2, <2>3, <2>4, <2>5, <2>6, <2>7, <2>8, <2>9, <2>10 DEF Next
<1> QED
  BY <1>1, <1>2, Invariance, PTL DEF Spec, ImplementsReactions, Promises!Spec
=============================================================================
