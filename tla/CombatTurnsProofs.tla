------------------------- MODULE CombatTurnsProofs -------------------------
(***************************************************************************)
(* Proofs about CombatTurns for any number of tokens, players, pending     *)
(* handlers and initiative totals.                                         *)
(***************************************************************************)
EXTENDS CombatTurns, TLAPS, SequenceTheorems, FiniteSetTheorems,
        WellFoundedInduction

----------------------------------------------------------------------------
(* The least element of a set of positions.                                *)
LEMMA MinIsLeast ==
  ASSUME NEW S \in SUBSET Nat, S # {}
  PROVE  Min(S) \in S /\ \A y \in S : Min(S) <= y
<1>1. IsWellFoundedOn({ss \in Nat \X Nat : ss[1] < ss[2]}, Nat)
  BY NatLessThanWellFounded DEF OpToRel
<1>2. PICK x \in S : \A y \in S :
        ~(<<y, x>> \in {ss \in Nat \X Nat : ss[1] < ss[2]})
  BY <1>1, WFMin
<1>3. ASSUME NEW y \in S PROVE x <= y
  <2>1. ~(y < x)
    BY <1>2
  <2>2. x \in Nat /\ y \in Nat
    OBVIOUS
  <2> QED
    BY <2>1, <2>2
<1> QED
  BY <1>3 DEF Min

----------------------------------------------------------------------------
(* Sorting.  The rank of an entry is one more than the number of entries   *)
(* ahead of it; being ahead is a strict total order, so the ranks of an    *)
(* array of n entries are 1 .. n, each once.                               *)

LEMMA AheadIsTotalOrder ==
  ASSUME NEW s \in Seq(Combatants)
  PROVE  /\ \A i \in DOMAIN s : ~Ahead(s, i, i)
         /\ \A i, j \in DOMAIN s : i # j => Ahead(s, i, j) \/ Ahead(s, j, i)
         /\ \A i, j, k \in DOMAIN s :
              Ahead(s, i, j) /\ Ahead(s, j, k) => Ahead(s, i, k)
<1>1. \A i \in DOMAIN s : s[i].init \in Int /\ Bonus[s[i].tok] \in Int /\ i \in Int
  <2>1. \A i \in DOMAIN s : s[i] \in Combatants /\ i \in Int
    OBVIOUS
  <2>2. \A c \in Combatants : c.tok \in Tokens /\ c.init \in Int
    BY DEF Combatants
  <2> QED
    BY <2>1, <2>2, TurnsAssumption
<1> QED
  BY <1>1, SMTT(20) DEF Ahead, Before

LEMMA RankBijective ==
  ASSUME NEW s \in Seq(Combatants)
  PROVE  /\ \A i, j \in DOMAIN s : i # j => Rank(s, i) # Rank(s, j)
         /\ \A i \in DOMAIN s : Rank(s, i) \in DOMAIN s
         /\ \A k \in DOMAIN s : \E i \in DOMAIN s : Rank(s, i) = k
<1> DEFINE n == Len(s)
           D == 1 .. n
           A(i) == {j \in D : Ahead(s, j, i)}
           f == [i \in D |-> Rank(s, i)]
<1>1. DOMAIN s = D /\ n \in Nat
  BY LenProperties
<1>2. IsFiniteSet(D) /\ Cardinality(D) = n
  <2>1. /\ 1 \in Int /\ n \in Int
        /\ IsFiniteSet(1 .. n)
        /\ Cardinality(1 .. n) = IF 1 > n THEN 0 ELSE n - 1 + 1
    BY <1>1, FS_Interval
  <2> QED
    BY <1>1, <2>1
<1> HIDE DEF D
<1>3. ASSUME NEW i \in D
      PROVE  IsFiniteSet(A(i)) /\ Cardinality(A(i)) \in 0 .. n - 1
  <2>1. A(i) \in SUBSET (D \ {i})
    BY <1>1, AheadIsTotalOrder
  <2>2. IsFiniteSet(D \ {i}) /\ Cardinality(D \ {i}) = n - 1
    BY <1>2, FS_RemoveElement
  <2>3. IsFiniteSet(A(i)) /\ Cardinality(A(i)) <= n - 1
    BY <2>1, <2>2, FS_Subset
  <2> QED
    BY <1>1, <2>3, FS_CardinalityType
<1>4. \A i \in D : Rank(s, i) = Cardinality(A(i)) + 1
  BY <1>1 DEF Rank
<1>5. f \in [D -> D]
  <2>1. ASSUME NEW i \in D PROVE Rank(s, i) \in D
    <3>1. \A c \in 0 .. n - 1 : c + 1 \in D
      BY <1>1 DEF D
    <3> QED
      BY <1>3, <1>4, <3>1
  <2> QED
    BY <2>1
<1>6. ASSUME NEW i \in D, NEW j \in D, Ahead(s, i, j)
      PROVE  Cardinality(A(i)) # Cardinality(A(j))
  <2>1. A(i) \in SUBSET A(j) /\ i \in A(j) /\ i \notin A(i)
    BY <1>1, <1>6, AheadIsTotalOrder
  <2>2. IsFiniteSet(A(j))
    BY <1>3
  <2>3. Cardinality(A(j)) = Cardinality(A(i)) => A(j) = A(i)
    BY <2>1, <2>2, FS_Subset
  <2> QED
    BY <2>1, <2>3
<1>7. ASSUME NEW i \in D, NEW j \in D, i # j PROVE f[i] # f[j]
  <2>1. Ahead(s, i, j) \/ Ahead(s, j, i)
    BY <1>1, <1>7, AheadIsTotalOrder
  <2>2. Cardinality(A(i)) # Cardinality(A(j))
    <3>1. CASE Ahead(s, i, j)
      BY <1>6, <3>1
    <3>2. CASE Ahead(s, j, i)
      BY <1>6, <3>2
    <3> QED
      BY <2>1, <3>1, <3>2
  <2>3. Cardinality(A(i)) \in Int /\ Cardinality(A(j)) \in Int
    <3>1. \A c \in 0 .. n - 1 : c \in Int
      BY <1>1
    <3> QED
      BY <1>3, <3>1
  <2>4. f[i] = Cardinality(A(i)) + 1 /\ f[j] = Cardinality(A(j)) + 1
    BY <1>4
  <2> HIDE DEF A, f
  <2> QED
    BY <2>2, <2>3, <2>4
<1>8. f \in Injection(D, D)
  BY <1>5, <1>7 DEF Injection, IsInjective
<1>9. f \in Surjection(D, D)
  BY <1>2, <1>8, FS_Injection
<1>10. \A k \in D : \E i \in D : f[i] = k
  BY <1>9 DEF Surjection
<1> QED
  BY <1>1, <1>5, <1>7, <1>10

(* Sorting permutes the array: it keeps its length and its combatants.     *)
LEMMA SortedIsPermuted ==
  ASSUME NEW s \in Seq(Combatants)
  PROVE  /\ Sorted(s) \in Seq(Combatants)
         /\ DOMAIN Sorted(s) = DOMAIN s /\ Len(Sorted(s)) = Len(s)
         /\ \A k \in DOMAIN s : \E i \in DOMAIN s : Sorted(s)[k] = s[i]
         /\ \A i \in DOMAIN s : \E k \in DOMAIN s : Sorted(s)[k] = s[i]
<1>1. DOMAIN s = 1 .. Len(s) /\ Len(s) \in Nat
  BY LenProperties
<1>2. \A k \in DOMAIN s : \E i \in DOMAIN s :
        Sorted(s)[k] = s[i] /\ Rank(s, i) = k
  BY RankBijective DEF Sorted
<1>3. Sorted(s) \in [1 .. Len(s) -> Combatants]
  BY <1>1, <1>2 DEF Sorted
<1>4. Sorted(s) \in Seq(Combatants)
  BY <1>1, <1>3
<1>5. ASSUME NEW i \in DOMAIN s
      PROVE  \E k \in DOMAIN s : Sorted(s)[k] = s[i]
  <2>1. PICK j \in DOMAIN s :
          Sorted(s)[Rank(s, i)] = s[j] /\ Rank(s, j) = Rank(s, i)
    BY <1>2, RankBijective
  <2>2. j = i
    BY <2>1, RankBijective
  <2> QED
    BY <2>1, <2>2, RankBijective
<1> QED
  BY <1>1, <1>2, <1>3, <1>4, <1>5, LenProperties

----------------------------------------------------------------------------
(* Where a token stands.                                                   *)

(* The first place of a token that is in the array.                        *)
LEMMA FirstPlace ==
  ASSUME NEW s \in Seq(Combatants), NEW t, Places(s, t) # {}
  PROVE  Min(Places(s, t)) \in DOMAIN s /\ s[Min(Places(s, t))].tok = t
<1>1. Places(s, t) \in SUBSET Nat
  BY DEF Places
<1>2. Min(Places(s, t)) \in Places(s, t)
  BY <1>1, MinIsLeast
<1> QED
  BY <1>2 DEF Places

(* Sorting loses nobody, so the anchor is found again.                     *)
LEMMA AnchorFound ==
  ASSUME NEW s \in Seq(Combatants), NEW t
  PROVE  /\ Places(s, t) # {} => Places(Sorted(s), t) # {}
         /\ Places(s, t) # {} =>
              /\ Anchored(Sorted(s), t) \in DOMAIN s
              /\ Sorted(s)[Anchored(Sorted(s), t)].tok = t
<1>1. ASSUME NEW i \in Places(s, t) PROVE Places(Sorted(s), t) # {}
  <2>1. i \in DOMAIN s /\ s[i].tok = t
    BY DEF Places
  <2>2. PICK k \in DOMAIN s : Sorted(s)[k] = s[i]
    BY <2>1, SortedIsPermuted
  <2>3. DOMAIN Sorted(s) = DOMAIN s
    BY SortedIsPermuted
  <2> QED
    BY <2>1, <2>2, <2>3 DEF Places
<1>2. Sorted(s) \in Seq(Combatants) /\ DOMAIN Sorted(s) = DOMAIN s
  BY SortedIsPermuted
<1>3. Places(Sorted(s), t) # {} =>
        /\ Anchored(Sorted(s), t) \in DOMAIN s
        /\ Sorted(s)[Anchored(Sorted(s), t)].tok = t
  BY <1>2, FirstPlace DEF Anchored
<1> QED
  BY <1>1, <1>3

(* Splicing out one entry leaves the others.                               *)
LEMMA Spliced ==
  ASSUME NEW s \in Seq(Combatants), NEW i \in DOMAIN s
  PROVE  /\ RemoveAt(s, i) \in Seq(Combatants)
         /\ Len(RemoveAt(s, i)) = Len(s) - 1
         /\ DOMAIN RemoveAt(s, i) = 1 .. Len(s) - 1
         /\ \A j \in DOMAIN s \ {i} : \E k \in DOMAIN RemoveAt(s, i) :
              RemoveAt(s, i)[k] = s[j]
         /\ \A k \in 1 .. Len(s) - 1 :
              RemoveAt(s, i)[k] = s[IF k < i THEN k ELSE k + 1]
<1> DEFINE l == SubSeq(s, 1, i - 1)
           r == SubSeq(s, i + 1, Len(s))
<1>1. DOMAIN s = 1 .. Len(s) /\ Len(s) \in Nat /\ i \in 1 .. Len(s)
  BY LenProperties
<1>2. \A j \in 1 .. Len(s) : s[j] \in Combatants
  BY <1>1, ElementOfSeq
<1>3. /\ l \in Seq(Combatants) /\ Len(l) = i - 1
      /\ \A j \in 1 .. i - 1 : l[j] = s[j]
  <2>1. \A j \in 1 .. i - 1 : s[j] \in Combatants
    BY <1>1, <1>2
  <2>2. 1 \in Int /\ i - 1 \in Int
    BY <1>1
  <2>3. /\ l \in Seq(Combatants)
        /\ Len(l) = IF 1 <= i - 1 THEN (i - 1) - 1 + 1 ELSE 0
        /\ \A j \in 1 .. (i - 1) - 1 + 1 : l[j] = s[1 + j - 1]
    BY <2>1, <2>2, SubSeqProperties
  <2> QED
    BY <1>1, <2>3
<1>4. /\ r \in Seq(Combatants) /\ Len(r) = Len(s) - i
      /\ \A j \in 1 .. Len(s) - i : r[j] = s[i + j]
  <2>1. \A j \in i + 1 .. Len(s) : s[j] \in Combatants
    BY <1>1, <1>2
  <2>2. i + 1 \in Int /\ Len(s) \in Int
    BY <1>1
  <2>3. /\ r \in Seq(Combatants)
        /\ Len(r) = IF i + 1 <= Len(s) THEN Len(s) - (i + 1) + 1 ELSE 0
        /\ \A j \in 1 .. Len(s) - (i + 1) + 1 : r[j] = s[(i + 1) + j - 1]
    BY <2>1, <2>2, SubSeqProperties
  <2> QED
    BY <1>1, <2>3
<1> HIDE DEF l, r
<1>5. /\ l \o r \in Seq(Combatants)
      /\ Len(l \o r) = Len(s) - 1
      /\ \A j \in 1 .. Len(s) - 1 :
           (l \o r)[j] = IF j <= i - 1 THEN l[j] ELSE r[j - (i - 1)]
  <2>1. /\ l \o r \in Seq(Combatants)
        /\ Len(l \o r) = Len(l) + Len(r)
        /\ \A j \in 1 .. Len(l) + Len(r) :
             (l \o r)[j] = IF j <= Len(l) THEN l[j] ELSE r[j - Len(l)]
    BY <1>3, <1>4, ConcatProperties
  <2> QED
    BY <1>1, <1>3, <1>4, <2>1, SMTT(20)
<1>6. RemoveAt(s, i) = l \o r
  BY DEF RemoveAt, l, r
<1>7. DOMAIN RemoveAt(s, i) = 1 .. Len(s) - 1
  BY <1>5, <1>6, LenProperties
<1>8. ASSUME NEW j \in DOMAIN s \ {i}
      PROVE  \E k \in 1 .. Len(s) - 1 : (l \o r)[k] = s[j]
  <2>1. CASE j < i
    <3>1. j \in 1 .. Len(s) - 1 /\ j \in 1 .. i - 1
      BY <1>1, <2>1
    <3>2. (l \o r)[j] = s[j]
      BY <1>1, <1>3, <1>5, <3>1
    <3> QED
      BY <3>1, <3>2
  <2>2. CASE j > i
    <3>1. j - 1 \in 1 .. Len(s) - 1 /\ j - i \in 1 .. Len(s) - i
          /\ ~(j - 1 <= i - 1) /\ (j - 1) - (i - 1) = j - i /\ i + (j - i) = j
      BY <1>1, <2>2
    <3>2. (l \o r)[j - 1] = r[j - i]
      BY <1>5, <3>1
    <3>3. r[j - i] = s[j]
      BY <1>4, <3>1
    <3> QED
      BY <3>1, <3>2, <3>3
  <2>3. j < i \/ j > i
    BY <1>1
  <2> QED
    BY <2>1, <2>2, <2>3
<1>9. ASSUME NEW k \in 1 .. Len(s) - 1
      PROVE  (l \o r)[k] = s[IF k < i THEN k ELSE k + 1]
  <2>1. CASE k < i
    <3>1. k \in 1 .. i - 1 /\ k <= i - 1
      BY <1>1, <2>1
    <3> QED
      BY <1>3, <1>5, <2>1, <3>1
  <2>2. CASE ~(k < i)
    <3>1. k - (i - 1) \in 1 .. Len(s) - i /\ ~(k <= i - 1) /\ i + (k - (i - 1)) = k + 1
      BY <1>1, <2>2
    <3> QED
      BY <1>4, <1>5, <2>2, <3>1
  <2> QED
    BY <2>1, <2>2
<1> QED
  BY <1>5, <1>6, <1>7, <1>8, <1>9

----------------------------------------------------------------------------
(* nextTurn.                                                               *)

LEMMA Cyclic ==
  ASSUME NEW n \in Nat \ {0}, NEW x \in Nat
  PROVE  /\ (x % n) + 1 \in 1 .. n /\ x \div n \in Nat
         /\ x >= n => x \div n >= 1
OBVIOUS

(* nextTurn leaves the pointer on a combatant and never turns the clock    *)
(* back; either that combatant takes the turn, or nobody does and the      *)
(* round is over.                                                          *)
LEMMA AdvanceLands ==
  ASSUME NEW s \in Seq(Combatants), s # <<>>,
         NEW at \in DOMAIN s, NEW r \in Nat \ {0}
  PROVE  LET k == Increments(s, at, r)
         IN  /\ Slot(s, at, k) \in DOMAIN s
             /\ RoundAt(s, at, r, k) \in Nat \ {0}
             /\ RoundAt(s, at, r, k) >= r
             /\ \/ TakesTurn(s[Slot(s, at, k)], RoundAt(s, at, r, k))
                \/ RoundAt(s, at, r, k) > r
<1> DEFINE k == Increments(s, at, r)
           n == Len(s)
<1>1. DOMAIN s = 1 .. n /\ n \in Nat \ {0} /\ at \in 1 .. n
  BY EmptySeq, LenProperties
<1>2. Stops(s, at, r) \in SUBSET (1 .. n + 1) /\ Stops(s, at, r) \in SUBSET Nat
  BY <1>1 DEF Stops
<1>3. Stops(s, at, r) # {} => k \in Stops(s, at, r)
  BY <1>2, MinIsLeast DEF Increments
<1>4. Stops(s, at, r) = {} => k = n + 1
  BY DEF Increments
<1>5. k \in 1 .. n + 1
  <2>1. n + 1 \in 1 .. n + 1
    BY <1>1
  <2> QED
    BY <1>2, <1>3, <1>4, <2>1
<1> HIDE DEF k, n
<1>6. at + k - 1 \in Nat /\ (k = n + 1 => at + k - 1 >= n)
  BY <1>1, <1>5
<1>7. /\ ((at + k - 1) % n) + 1 \in 1 .. n
      /\ (at + k - 1) \div n \in Nat
      /\ k = n + 1 => (at + k - 1) \div n >= 1
  BY <1>1, <1>6, Cyclic
<1>8. /\ Slot(s, at, k) \in DOMAIN s
      /\ RoundAt(s, at, r, k) \in Nat \ {0}
      /\ RoundAt(s, at, r, k) >= r
      /\ k = n + 1 => RoundAt(s, at, r, k) > r
  BY <1>1, <1>7 DEF Slot, RoundAt, n
<1>9. Stops(s, at, r) # {} =>
        TakesTurn(s[Slot(s, at, k)], RoundAt(s, at, r, k))
  BY <1>3 DEF Stops
<1> QED
  BY <1>4, <1>8, <1>9 DEF k

----------------------------------------------------------------------------
(* The inductive invariant: types, the pointer on a combatant, and a       *)
(* waiting add-combatant that remembers a token.                           *)

AddsToken == \A q \in Reqs : req[q].kind = "add" => req[q].tok \in Tokens

IInv == TypeOK /\ PointerInRange /\ AddsToken

(* What a step may do to the fight, and to everything else.                *)
FightOK ==
  /\ order \in Seq(Combatants) /\ turn \in Nat \ {0} /\ round \in Nat \ {0}
  /\ active \in BOOLEAN /\ PointerInRange

RestOK ==
  /\ scene \in BOOLEAN /\ gone \subseteq Tokens /\ vital \in [Tokens -> Vitals]
  /\ held \subseteq Linked /\ req \in [Reqs -> Requests] /\ AddsToken

LEMMA TwoParts == IInv <=> FightOK /\ RestOK
BY DEF IInv, TypeOK, FightOK, RestOK

LEMMA CurrentType ==
  ASSUME FightOK
  PROVE  /\ Current \in Tokens \cup {NoToken}
         /\ active /\ order # <<>> =>
              turn \in DOMAIN order /\ Current = order[turn].tok /\ Current \in Tokens
<1>1. \A i \in DOMAIN order : order[i] \in Combatants
  BY ElementOfSeq, LenProperties DEF FightOK
<1>2. \A c \in Combatants : c.tok \in Tokens
  BY DEF Combatants
<1> QED
  BY <1>1, <1>2 DEF Current, FightOK, PointerInRange

LEMMA NoFight ==
  /\ active = FALSE /\ order = <<>> /\ turn = 1 /\ round = 1 => FightOK
  /\ (active = FALSE /\ order = <<>> /\ turn = 1 /\ round = 1 => FightOK)'
<1>1. <<>> \in Seq(Combatants)
  BY EmptySeq
<1>2. 1 \in Nat \ {0} /\ FALSE \in BOOLEAN
  OBVIOUS
<1> QED
  BY <1>1, <1>2 DEF FightOK, PointerInRange

(* A re-sorted array keeps the pointer in range, on the combatant it was.  *)
LEMMA SortIntoKeeps ==
  ASSUME NEW s \in Seq(Combatants), turn \in DOMAIN s, SortInto(s)
  PROVE  /\ order' \in Seq(Combatants) /\ DOMAIN order' = DOMAIN s
         /\ order' # <<>> /\ turn' \in DOMAIN order' /\ turn' \in Nat \ {0}
         /\ Places(s, Current) # {} => order'[turn'].tok = Current
<1>1. /\ order' = Sorted(s) /\ turn' = Anchored(Sorted(s), Current)
  BY DEF SortInto
<1>2. order' \in Seq(Combatants) /\ DOMAIN order' = DOMAIN s
  BY <1>1, SortedIsPermuted
<1>3. turn' \in DOMAIN s
  <2>1. CASE Places(Sorted(s), Current) = {}
    BY <1>1, <2>1 DEF Anchored
  <2>2. CASE Places(Sorted(s), Current) # {}
    <3>1. turn' = Min(Places(Sorted(s), Current))
      BY <1>1, <2>2 DEF Anchored
    <3> QED
      BY <1>1, <1>2, <2>2, <3>1, FirstPlace
  <2> QED
    BY <2>1, <2>2
<1>4. \A i \in DOMAIN s : i \in Nat \ {0}
  BY LenProperties
<1>5. order' # <<>>
  BY <1>2, <1>3
<1>6. Places(s, Current) # {} => order'[turn'].tok = Current
  BY <1>1, AnchorFound
<1> QED
  BY <1>2, <1>3, <1>4, <1>5, <1>6

(* nextTurn keeps the fight well formed, and does not pick the surprised   *)
(* in round one.                                                           *)
LEMMA AdvanceKeeps ==
  ASSUME NEW s \in Seq(Combatants), s # <<>>, NEW at \in DOMAIN s,
         round \in Nat \ {0}, Advance(s, at)
  PROVE  /\ order' \in Seq(Combatants) /\ DOMAIN order' = DOMAIN s
         /\ order' # <<>> /\ turn' \in DOMAIN order' /\ turn' \in Nat \ {0}
         /\ round' \in Nat \ {0}
         /\ \A i \in DOMAIN s : order'[i].tok = s[i].tok
         /\ ~(order'[turn'].surprised /\ round' = 1)
<1> DEFINE k == Increments(s, at, round)
<1>1. /\ turn' = Slot(s, at, k) /\ round' = RoundAt(s, at, round, k)
      /\ order' = IF round' > round THEN Awake(s) ELSE s
  BY DEF Advance
<1>2. /\ turn' \in DOMAIN s /\ round' \in Nat \ {0} /\ round' >= round
      /\ TakesTurn(s[turn'], round') \/ round' > round
  BY <1>1, AdvanceLands
<1>3. \A i \in DOMAIN s : s[i] \in Combatants /\ i \in Nat \ {0}
  BY ElementOfSeq, LenProperties
<1>4. /\ Awake(s) \in Seq(Combatants) /\ DOMAIN Awake(s) = DOMAIN s
      /\ \A i \in DOMAIN s : Awake(s)[i].tok = s[i].tok /\ ~Awake(s)[i].surprised
  <2>1. \A c \in Combatants :
          /\ [c EXCEPT !.surprised = FALSE] \in Combatants
          /\ [c EXCEPT !.surprised = FALSE].tok = c.tok
          /\ [c EXCEPT !.surprised = FALSE].surprised = FALSE
    BY DEF Combatants
  <2>2. DOMAIN s = 1 .. Len(s) /\ Len(s) \in Nat
    BY LenProperties
  <2>3. Awake(s) \in [1 .. Len(s) -> Combatants]
    BY <1>3, <2>1, <2>2 DEF Awake
  <2>4. Awake(s) \in Seq(Combatants)
    BY <2>2, <2>3
  <2> QED
    BY <1>3, <2>1, <2>4 DEF Awake
<1>5. CASE round' > round
  <2>1. ~(round' = 1)
    BY <1>2, <1>5
  <2> QED
    BY <1>1, <1>2, <1>3, <1>4, <1>5, <2>1
<1>6. CASE ~(round' > round)
  <2>1. order' = s /\ TakesTurn(s[turn'], round')
    BY <1>1, <1>2, <1>6
  <2>2. ~(s[turn'].surprised /\ round' = 1)
    BY <2>1 DEF TakesTurn
  <2> QED
    BY <1>2, <1>3, <2>1, <2>2
<1> QED
  BY <1>5, <1>6

(* The handlers that end a turn.                                           *)
LEMMA NextTurnKeeps ==
  ASSUME FightOK, NextTurn, UNCHANGED active
  PROVE  /\ FightOK'
         /\ active /\ order # <<>> =>
              /\ order' # <<>> /\ turn' \in DOMAIN order'
              /\ \A i \in DOMAIN order : order'[i].tok = order[i].tok
              /\ ~(order'[turn'].surprised /\ round' = 1)
<1>1. CASE active /\ order # <<>>
  <2>1. turn \in DOMAIN order /\ order \in Seq(Combatants) /\ round \in Nat \ {0}
    BY <1>1 DEF FightOK, PointerInRange
  <2>2. Advance(order, turn)
    BY <1>1 DEF NextTurn
  <2> QED
    BY <1>1, <2>1, <2>2, AdvanceKeeps DEF FightOK, PointerInRange
<1>2. CASE ~(active /\ order # <<>>)
  BY <1>2 DEF NextTurn, FightOK, PointerInRange
<1> QED
  BY <1>1, <1>2

(* A late joiner.                                                          *)
LEMMA AddIntoKeeps ==
  ASSUME FightOK, active, NEW t \in Tokens, AddInto(t), UNCHANGED <<active, round>>
  PROVE  /\ FightOK'
         /\ order # <<>> => Current' = Current
<1>1. PICK x \in Totals : SortInto(Append(order, Enlisted(t, x, FALSE)))
  BY DEF AddInto
<1> DEFINE c == Enlisted(t, x, FALSE)
           s == Append(order, c)
<1>2. c \in Combatants
  BY TurnsAssumption DEF Enlisted, Combatants
<1> HIDE DEF c
<1>3. /\ s \in Seq(Combatants) /\ DOMAIN s = 1 .. Len(order) + 1
      /\ DOMAIN order = 1 .. Len(order) /\ Len(order) \in Nat
      /\ \A i \in DOMAIN order : s[i] = order[i]
  BY <1>2, LenProperties DEF FightOK
<1>4. turn \in DOMAIN s
  <2>1. CASE order = <<>>
    BY <1>3, <2>1 DEF FightOK, PointerInRange
  <2>2. CASE order # <<>>
    BY <1>3, <2>2 DEF FightOK, PointerInRange
  <2> QED
    BY <2>1, <2>2
<1> HIDE DEF s
<1>5. SortInto(s)
  BY <1>1 DEF s, c
<1>6. /\ order' \in Seq(Combatants) /\ order' # <<>> /\ turn' \in DOMAIN order'
      /\ turn' \in Nat \ {0}
      /\ Places(s, Current) # {} => order'[turn'].tok = Current
  BY <1>3, <1>4, <1>5, SortIntoKeeps
<1>7. order # <<>> => Places(s, Current) # {}
  <2>1. order # <<>> =>
          turn \in DOMAIN order /\ turn \in DOMAIN s /\ s[turn].tok = Current
    BY <1>3, CurrentType
  <2> QED
    BY <2>1 DEF Places
<1>8. order # <<>> => Current' = Current
  BY <1>6, <1>7 DEF Current
<1> QED
  BY <1>6, <1>8 DEF FightOK, PointerInRange

----------------------------------------------------------------------------
(* The handlers that rebuild the order.                                    *)

LEMMA StartKeeps ==
  ASSUME FightOK, NEW S \in SUBSET Tokens, Start(S)
  PROVE  FightOK'
<1>1. PICK s \in SetToSeqs(S), roll \in [S -> Totals] :
        order' = [i \in DOMAIN s |-> Enlisted(s[i], roll[s[i]], s[i] \in Alert)]
  BY DEF Start
<1>2. Cardinality(S) \in Nat
  BY FS_Subset, FS_CardinalityType, TurnsAssumption
<1>3. DOMAIN s = 1 .. Cardinality(S) /\ \A i \in DOMAIN s : s[i] \in S
  BY <1>1 DEF SetToSeqs
<1>4. \A t \in S : Enlisted(t, roll[t], t \in Alert) \in Combatants
  <2>1. \A t \in Tokens, x \in Int, b \in BOOLEAN : Enlisted(t, x, b) \in Combatants
    BY DEF Enlisted, Combatants
  <2>2. \A t \in S : t \in Tokens /\ roll[t] \in Int
    BY TurnsAssumption
  <2>3. \A t \in S : (t \in Alert) \in BOOLEAN
    OBVIOUS
  <2> QED
    BY <2>1, <2>2, <2>3
<1>5. order' \in [1 .. Cardinality(S) -> Combatants]
  BY <1>1, <1>3, <1>4
<1>6. order' \in Seq(Combatants)
  BY <1>2, <1>5
<1>7. order' # <<>> => 1 \in DOMAIN order'
  BY <1>6, EmptySeq, LenProperties
<1>8. active' = TRUE /\ turn' = 1 /\ round' = 1
  BY DEF Start
<1> QED
  BY <1>6, <1>7, <1>8 DEF FightOK, PointerInRange

(* One entry of the array rewritten in place.                              *)
LEMMA Rewritten ==
  ASSUME NEW s \in Seq(Combatants), NEW i \in DOMAIN s, NEW c \in Combatants
  PROVE  /\ [s EXCEPT ![i] = c] \in Seq(Combatants)
         /\ DOMAIN [s EXCEPT ![i] = c] = DOMAIN s
         /\ \A j \in DOMAIN s :
              [s EXCEPT ![i] = c][j] = IF j = i THEN c ELSE s[j]
BY ExceptSeq, LenProperties

LEMMA SetInitiativeKeeps ==
  ASSUME FightOK, NEW t \in Tokens, NEW x \in Totals, SetInitiative(t, x)
  PROVE  FightOK' /\ Current' = Current
<1> DEFINE i == Min(Places(order, t))
           c == [order[i] EXCEPT !.init = x]
           s == [order EXCEPT ![i] = c]
<1>1. active /\ Places(order, t) # {} /\ active' = active /\ round' = round
  BY DEF SetInitiative
<1>2. IF Rolled(s) THEN SortInto(s) ELSE order' = s /\ UNCHANGED turn
  BY DEF SetInitiative
<1>3. i \in DOMAIN order /\ order \in Seq(Combatants)
  BY <1>1, FirstPlace DEF FightOK
<1>4. c \in Combatants /\ c.tok = order[i].tok
  <2>1. order[i] \in Combatants
    BY <1>3, ElementOfSeq, LenProperties
  <2>2. x \in Int
    BY TurnsAssumption
  <2> QED
    BY <2>1, <2>2 DEF Combatants
<1> HIDE DEF i, c
<1>5. /\ s \in Seq(Combatants) /\ DOMAIN s = DOMAIN order
      /\ \A j \in DOMAIN s : s[j] = IF j = i THEN c ELSE order[j]
  BY <1>3, <1>4, Rewritten
<1> HIDE DEF s
<1>6. order # <<>> /\ turn \in DOMAIN order /\ Current = order[turn].tok
  <2>1. order # <<>>
    BY <1>3
  <2> QED
    BY <1>1, <2>1, CurrentType
<1>7. turn \in DOMAIN s /\ s[turn].tok = Current /\ Places(s, Current) # {} /\ s # <<>>
  <2>1. turn \in DOMAIN s /\ s[turn].tok = Current
    BY <1>4, <1>5, <1>6
  <2> QED
    BY <2>1 DEF Places
<1>8. CASE Rolled(s)
  BY <1>1, <1>2, <1>5, <1>7, <1>8, SortIntoKeeps DEF FightOK, PointerInRange, Current
<1>9. CASE ~Rolled(s)
  BY <1>1, <1>2, <1>5, <1>7, <1>9 DEF FightOK, PointerInRange, Current
<1> QED
  BY <1>8, <1>9

LEMMA SetSurpriseKeeps ==
  ASSUME FightOK, NEW t \in Tokens, NEW b \in BOOLEAN, SetSurprise(t, b)
  PROVE  FightOK' /\ Current' = Current
<1> DEFINE i == Min(Places(order, t))
           c == [order[i] EXCEPT !.surprised = b]
<1>1. /\ active /\ Places(order, t) # {}
      /\ active' = active /\ round' = round /\ turn' = turn
      /\ order' = [order EXCEPT ![i] = c]
  BY DEF SetSurprise
<1>2. i \in DOMAIN order /\ order \in Seq(Combatants) /\ order # <<>>
  BY <1>1, FirstPlace DEF FightOK
<1>3. c \in Combatants /\ c.tok = order[i].tok
  <2>1. order[i] \in Combatants
    BY <1>2, ElementOfSeq, LenProperties
  <2> QED
    BY <2>1 DEF Combatants
<1>4. turn \in DOMAIN order /\ Current = order[turn].tok
  BY <1>1, <1>2, CurrentType
<1> HIDE DEF i, c
<1>5. /\ order' \in Seq(Combatants) /\ DOMAIN order' = DOMAIN order
      /\ \A j \in DOMAIN order : order'[j] = IF j = i THEN c ELSE order[j]
  BY <1>1, <1>2, <1>3, Rewritten
<1>6. turn' \in DOMAIN order' /\ order'[turn'].tok = Current
  BY <1>1, <1>3, <1>4, <1>5
<1>7. Current' = Current /\ order' # <<>>
  BY <1>6 DEF Current
<1> QED
  BY <1>1, <1>5, <1>6, <1>7 DEF FightOK, PointerInRange

LEMMA LockKeeps ==
  ASSUME FightOK, Lock
  PROVE  /\ FightOK'
         /\ order' # <<>> => ~(order'[turn'].surprised /\ round' = 1)
<1> DEFINE s == Sorted(order)
<1>1. s \in Seq(Combatants) /\ active /\ active' = active /\ round \in Nat \ {0}
  BY SortedIsPermuted DEF FightOK, Lock
<1>2. s # <<>> => 1 \in DOMAIN s
  BY <1>1, EmptySeq, LenProperties
<1>3. CASE s # <<>> /\ round = 1 /\ s[1].surprised
  <2>1. Advance(s, 1)
    BY <1>3 DEF Lock
  <2> HIDE DEF s
  <2> QED
    BY <1>1, <1>2, <1>3, <2>1, AdvanceKeeps DEF FightOK, PointerInRange
<1>4. CASE ~(s # <<>> /\ round = 1 /\ s[1].surprised)
  <2>1. order' = s /\ turn' = 1 /\ round' = round
    BY <1>4 DEF Lock
  <2> HIDE DEF s
  <2> QED
    BY <1>1, <1>2, <1>4, <2>1 DEF FightOK, PointerInRange
<1> QED
  BY <1>3, <1>4

LEMMA RemoveTokenKeeps ==
  ASSUME FightOK, NEW t \in Tokens, RemoveToken(t)
  PROVE  /\ FightOK'
         /\ active /\ order # <<>> /\ Current' # Current => Current \in gone' \ gone
<1> DEFINE i == Min(Places(order, t))
           s == RemoveAt(order, i)
<1>0. active' = active /\ round' = round /\ t \notin gone /\ gone' = gone \cup {t}
  BY DEF RemoveToken
<1>1. CASE active /\ Places(order, t) # {}
  <2>1. order' = s /\ turn' = PointerAfter(s, i, t)
    BY <1>1 DEF RemoveToken
  <2>2. i \in DOMAIN order /\ order[i].tok = t /\ order \in Seq(Combatants)
    BY <1>1, FirstPlace DEF FightOK
  <2> HIDE DEF i
  <2>3. /\ s \in Seq(Combatants) /\ Len(s) = Len(order) - 1
        /\ DOMAIN s = 1 .. Len(order) - 1 /\ DOMAIN s = 1 .. Len(s)
        /\ \A j \in DOMAIN order \ {i} : \E k \in DOMAIN s : s[k] = order[j]
    BY <2>2, Spliced
  <2> HIDE DEF s
  <2>4. i \in 1 .. Len(order) /\ Len(order) \in Nat
    BY <2>2, LenProperties
  <2>5. s = <<>> => turn' = 1
    BY <2>1 DEF PointerAfter
  <2>6. CASE s # <<>> /\ Current # t /\ Places(s, Current) # {}
    <3>1. turn' = Min(Places(s, Current))
      BY <2>1, <2>6 DEF PointerAfter
    <3>2. turn' \in DOMAIN s /\ s[turn'].tok = Current
      BY <2>3, <2>6, <3>1, FirstPlace
    <3> QED
      BY <1>0, <2>1, <2>3, <2>6, <3>2 DEF FightOK, PointerInRange, Current
  <2>7. CASE s # <<>> /\ ~(Current # t /\ Places(s, Current) # {})
    <3>1. turn' = Min({i, Len(s)})
      BY <2>1, <2>7 DEF PointerAfter
    <3>2. Len(s) \in 1 .. Len(s) /\ Len(s) = Len(order) - 1 /\ Len(s) \in Nat
      BY <2>3, <2>7, EmptySeq
    <3>3. turn' \in {i, Len(s)} /\ turn' <= Len(s)
      BY <2>4, <3>1, <3>2, MinIsLeast, SMTT(20)
    <3>4. turn' \in DOMAIN s
      BY <2>3, <2>4, <3>2, <3>3
    <3>5. FightOK'
      BY <1>0, <2>1, <2>3, <2>7, <3>4 DEF FightOK, PointerInRange
    <3>6. Current = t \/ Places(s, Current) = {}
      BY <2>7
    <3> QED
      BY <1>0, <2>2, <2>3, <3>5, <3>6, CurrentType DEF Places
  <2>8. CASE s = <<>>
    <3>1. FightOK'
      BY <1>0, <2>1, <2>3, <2>5, <2>8 DEF FightOK, PointerInRange
    <3>2. active /\ order # <<>> => Current = t
      <4>1. turn \in DOMAIN order => turn = i
        BY <2>3, <2>8
      <4> QED
        BY <2>2, <4>1, CurrentType
    <3> QED
      BY <1>0, <3>1, <3>2
  <2> QED
    BY <2>6, <2>7, <2>8
<1>2. CASE ~(active /\ Places(order, t) # {})
  <2>1. order' = order /\ turn' = turn
    BY <1>2 DEF RemoveToken
  <2> QED
    BY <1>0, <2>1 DEF FightOK, PointerInRange, Current
<1> QED
  BY <1>1, <1>2

----------------------------------------------------------------------------
(* The theorems.                                                           *)

LEMMA InitOK ==
  ASSUME Init
  PROVE  IInv
<1>1. FightOK
  BY NoFight DEF Init
<1>2. NoReq \in Requests /\ NoReq.kind # "add"
  BY DEF NoReq, Requests
<1>3. RestOK
  <2>1. vital \in [Tokens -> Vitals]
    BY DEF Init, Vitals
  <2>2. req \in [Reqs -> Requests] /\ AddsToken
    BY <1>2 DEF Init, AddsToken
  <2> QED
    BY <2>1, <2>2 DEF Init, RestOK
<1> QED
  BY <1>1, <1>3, TwoParts

(* A request filed or answered is well formed.                             *)
LEMMA AskOK ==
  ASSUME RestOK, NEW q \in Reqs, NEW kind \in {"next", "add", "scene"},
         NEW u \in Players \cup {DM}, NEW t \in Tokens \cup {NoToken},
         kind = "add" => t \in Tokens, Ask(q, kind, u, t)
  PROVE  req' \in [Reqs -> Requests] /\ AddsToken'
<1>1. [kind |-> kind, by |-> u, tok |-> t] \in Requests
  BY DEF Requests
<1> QED
  BY <1>1 DEF Ask, RestOK, AddsToken

LEMMA AnsweredOK ==
  ASSUME RestOK, NEW q \in Reqs, Answered(q)
  PROVE  req' \in [Reqs -> Requests] /\ AddsToken'
<1>1. NoReq \in Requests /\ NoReq.kind # "add"
  BY DEF NoReq, Requests
<1> QED
  BY <1>1 DEF Answered, RestOK, AddsToken

(* The fight survives every step, and the turn only changes hands when it  *)
(* is ended, when the order is locked or when its token is deleted.        *)
LEMMA StepKeepsFight ==
  ASSUME IInv, [Next]_vars
  PROVE  /\ FightOK'
         /\ (active /\ active' /\ order # <<>> /\ Current' # Current) =>
              Current \in gone' \ gone \/ TurnPasses \/ Lock
         /\ (order' # <<>> /\ round' = 1 /\ order'[turn'].surprised) =>
              ~TurnPasses /\ ~Lock
<1> USE TwoParts
<1> DEFINE Changed == active /\ active' /\ order # <<>> /\ Current' # Current
           Handed == Current \in gone' \ gone \/ TurnPasses \/ Lock
<1>1. Lock => (order' # <<>> => ~(order'[turn'].surprised /\ round' = 1))
  BY LockKeeps
<1>2. TurnPasses => NextTurn /\ UNCHANGED active /\ active /\ order # <<>>
  <2>1. \A u \in Players \cup {DM} : EndTurn(u) => NextTurn
    BY DEF EndTurn
  <2>2. \A q \in Reqs : EndTurnAnswer(q) => NextTurn
    BY DEF EndTurnAnswer
  <2> QED
    BY <2>1, <2>2 DEF TurnPasses
<1>3. TurnPasses => ~(order'[turn'].surprised /\ round' = 1)
  BY <1>2, NextTurnKeeps
<1>4. ASSUME NextTurn, UNCHANGED <<active, world>>,
             \/ \E u \in Players \cup {DM} : EndTurn(u)
             \/ \E q \in Reqs : EndTurnAnswer(q)
      PROVE  FightOK' /\ (Changed => Handed)
  <2>1. FightOK'
    BY <1>4, NextTurnKeeps
  <2>2. ASSUME Changed, turn' = turn PROVE FALSE
    <3>1. turn \in DOMAIN order /\ Current = order[turn].tok
      BY <2>2, CurrentType
    <3>2. turn' \in DOMAIN order' /\ order'[turn'].tok = order[turn].tok
      BY <1>4, <2>2, <3>1, NextTurnKeeps
    <3> QED
      BY <2>2, <3>1, <3>2 DEF Current
  <2>3. Changed => TurnPasses
    BY <1>4, <2>2 DEF TurnPasses
  <2> QED
    BY <2>1, <2>3
<1>5. ASSUME UNCHANGED fight PROVE FightOK' /\ Current' = Current
  BY <1>5 DEF fight, FightOK, PointerInRange, Current
<1>6. FightOK' /\ (Changed => Handed)
  <2>1. ASSUME NEW S \in SUBSET Tokens, Start(S) PROVE FightOK' /\ ~Changed
    BY <2>1, StartKeeps DEF Start
  <2>2. CASE End
    BY <2>2, NoFight DEF End
  <2>3. CASE Lock
    BY <2>3, LockKeeps
  <2>4. ASSUME NEW t \in Tokens, NEW x \in Totals, SetInitiative(t, x)
        PROVE  FightOK' /\ ~Changed
    BY <2>4, SetInitiativeKeeps
  <2>5. ASSUME NEW t \in Tokens, NEW b \in BOOLEAN, SetSurprise(t, b)
        PROVE  FightOK' /\ ~Changed
    BY <2>5, SetSurpriseKeeps
  <2>6. ASSUME NEW t \in Tokens, Add(t) PROVE FightOK' /\ ~Changed
    <3>1. active /\ AddInto(t) /\ UNCHANGED <<active, round>>
      BY <2>6 DEF Add, MayAdd
    <3> QED
      BY <3>1, AddIntoKeeps
  <2>7. ASSUME NEW t \in Tokens, RemoveToken(t)
        PROVE  FightOK' /\ (Changed => Handed)
    BY <2>7, RemoveTokenKeeps
  <2>8. ASSUME NEW t \in Tokens, NEW v \in Vitals, Fare(t, v)
        PROVE  FightOK' /\ ~Changed
    BY <2>8, <1>5 DEF Fare
  <2>9. ASSUME NEW t \in Tokens, Afflict(t) PROVE FightOK' /\ ~Changed
    BY <2>9, <1>5 DEF Afflict
  <2>10. ASSUME NEW u \in Players \cup {DM}, EndTurn(u)
         PROVE  FightOK' /\ (Changed => Handed)
    BY <2>10, <1>4 DEF EndTurn
  <2>11. ASSUME NEW q \in Reqs, NEW u \in Players \cup {DM}, EndTurnAsk(q, u)
         PROVE  FightOK' /\ ~Changed
    BY <2>11, <1>5 DEF EndTurnAsk
  <2>12. ASSUME NEW q \in Reqs, EndTurnAnswer(q)
         PROVE  FightOK' /\ (Changed => Handed)
    BY <2>12, <1>4 DEF EndTurnAnswer
  <2>13. ASSUME NEW q \in Reqs, NEW t \in Tokens, AddAsk(q, t)
         PROVE  FightOK' /\ ~Changed
    BY <2>13, <1>5 DEF AddAsk
  <2>14. ASSUME NEW q \in Reqs, AddAnswer(q) PROVE FightOK' /\ ~Changed
    <3>1. req[q].tok \in Tokens
      BY <2>14 DEF AddAnswer, RestOK, AddsToken
    <3>2. CASE active
      <4>1. AddInto(req[q].tok) /\ UNCHANGED <<active, round>>
        BY <2>14, <3>2 DEF AddAnswer
      <4> QED
        BY <3>1, <3>2, <4>1, AddIntoKeeps
    <3>3. CASE ~active
      BY <2>14, <3>3, <1>5 DEF AddAnswer, fight
    <3> QED
      BY <3>2, <3>3
  <2>15. ASSUME NEW q \in Reqs, SceneAsk(q) \/ SceneAnswer(q)
         PROVE  FightOK' /\ ~Changed
    BY <2>15, <1>5 DEF SceneAsk, SceneAnswer
  <2>16. CASE UNCHANGED vars
    BY <2>16, <1>5 DEF vars, fight
  <2> HIDE DEF Changed, Handed
  <2> QED
    BY <2>1, <2>2, <2>3, <2>4, <2>5, <2>6, <2>7, <2>8, <2>9, <2>10, <2>11,
       <2>12, <2>13, <2>14, <2>15, <2>16 DEF Next, Changed, Handed
<1> QED
  BY <1>1, <1>3, <1>6

LEMMA StepKeepsRest ==
  ASSUME IInv, [Next]_vars
  PROVE  RestOK'
<1> USE TwoParts
<1>1. ASSUME UNCHANGED req PROVE req' \in [Reqs -> Requests] /\ AddsToken'
  BY <1>1 DEF RestOK, AddsToken
<1>2. ASSUME UNCHANGED <<world, held, req>> PROVE RestOK'
  BY <1>1, <1>2 DEF world, RestOK
<1>3. ASSUME NEW S \in SUBSET Tokens, Start(S) PROVE RestOK'
  BY <1>2, <1>3 DEF Start
<1>4. CASE End
  BY <1>1, <1>4 DEF End, world, RestOK
<1>5. CASE Lock
  BY <1>2, <1>5 DEF Lock
<1>6. ASSUME NEW t \in Tokens, NEW x \in Totals, SetInitiative(t, x) PROVE RestOK'
  BY <1>2, <1>6 DEF SetInitiative
<1>7. ASSUME NEW t \in Tokens, NEW b \in BOOLEAN, SetSurprise(t, b) PROVE RestOK'
  BY <1>2, <1>7 DEF SetSurprise
<1>8. ASSUME NEW t \in Tokens, Add(t) PROVE RestOK'
  BY <1>2, <1>8 DEF Add
<1>9. ASSUME NEW t \in Tokens, RemoveToken(t) PROVE RestOK'
  BY <1>1, <1>9 DEF RemoveToken, RestOK
<1>10. ASSUME NEW t \in Tokens, NEW v \in Vitals, Fare(t, v) PROVE RestOK'
  BY <1>1, <1>10 DEF Fare, RestOK
<1>11. ASSUME NEW t \in Tokens, Afflict(t) PROVE RestOK'
  BY <1>1, <1>11 DEF Afflict, world, RestOK
<1>12. ASSUME NEW u \in Players \cup {DM}, EndTurn(u) PROVE RestOK'
  BY <1>2, <1>12 DEF EndTurn
<1>13. ASSUME NEW q \in Reqs, NEW u \in Players \cup {DM}, EndTurnAsk(q, u)
       PROVE  RestOK'
  <2>1. Ask(q, "next", u, Current) /\ UNCHANGED <<world, held>>
    BY <1>13 DEF EndTurnAsk
  <2>2. req' \in [Reqs -> Requests] /\ AddsToken'
    BY <2>1, AskOK, CurrentType
  <2> QED
    BY <2>1, <2>2 DEF world, RestOK
<1>14. ASSUME NEW q \in Reqs, EndTurnAnswer(q) PROVE RestOK'
  <2>1. /\ Answered(q) /\ UNCHANGED world
        /\ held' \subseteq held
    BY <1>14 DEF EndTurnAnswer
  <2>2. req' \in [Reqs -> Requests] /\ AddsToken'
    BY <2>1, AnsweredOK
  <2> QED
    BY <2>1, <2>2 DEF world, RestOK
<1>15. ASSUME NEW q \in Reqs, NEW t \in Tokens, AddAsk(q, t) PROVE RestOK'
  <2>1. Ask(q, "add", DM, t) /\ UNCHANGED <<world, held>>
    BY <1>15 DEF AddAsk
  <2>2. req' \in [Reqs -> Requests] /\ AddsToken'
    BY <2>1, AskOK
  <2> QED
    BY <2>1, <2>2 DEF world, RestOK
<1>16. ASSUME NEW q \in Reqs, AddAnswer(q) PROVE RestOK'
  <2>1. Answered(q) /\ UNCHANGED <<world, held>>
    BY <1>16 DEF AddAnswer
  <2>2. req' \in [Reqs -> Requests] /\ AddsToken'
    BY <2>1, AnsweredOK
  <2> QED
    BY <2>1, <2>2 DEF world, RestOK
<1>17. ASSUME NEW q \in Reqs, SceneAsk(q) PROVE RestOK'
  <2>1. Ask(q, "scene", DM, NoToken) /\ UNCHANGED <<world, held>>
    BY <1>17 DEF SceneAsk
  <2>2. req' \in [Reqs -> Requests] /\ AddsToken'
    BY <2>1, AskOK
  <2> QED
    BY <2>1, <2>2 DEF world, RestOK
<1>18. ASSUME NEW q \in Reqs, SceneAnswer(q) PROVE RestOK'
  <2>1. /\ Answered(q) /\ UNCHANGED <<gone, vital, held>>
        /\ scene' = ~scene
    BY <1>18 DEF SceneAnswer
  <2>2. req' \in [Reqs -> Requests] /\ AddsToken'
    BY <2>1, AnsweredOK
  <2> QED
    BY <2>1, <2>2 DEF RestOK
<1>19. CASE UNCHANGED vars
  BY <1>2, <1>19 DEF vars, world
<1> QED
  BY <1>3, <1>4, <1>5, <1>6, <1>7, <1>8, <1>9, <1>10, <1>11, <1>12, <1>13,
     <1>14, <1>15, <1>16, <1>17, <1>18, <1>19 DEF Next

(* The invariant holds of every fight.                                     *)
THEOREM Invariance == Spec => []IInv
<1>1. Init => IInv
  BY InitOK
<1>2. IInv /\ [Next]_vars => IInv'
  <2> SUFFICES ASSUME IInv, [Next]_vars PROVE IInv'
    OBVIOUS
  <2>1. FightOK'
    BY StepKeepsFight
  <2>2. RestOK'
    BY StepKeepsRest
  <2> QED
    BY <2>1, <2>2 DEF IInv, TypeOK, FightOK, RestOK
<1> QED
  BY <1>1, <1>2, PTL DEF Spec

(* Every variable keeps its type; the initiative array stays an array of   *)
(* combatants through sorts, splices and appends.                          *)
THEOREM TypeCorrect == Spec => []TypeOK
<1>1. IInv => TypeOK
  BY DEF IInv
<1> QED
  BY <1>1, Invariance, PTL

(* The turn pointer is on a combatant while a fight runs, however many     *)
(* combatants there are.                                                   *)
THEOREM PointerTracked == Spec => []PointerInRange
<1>1. IInv => PointerInRange
  BY DEF IInv
<1> QED
  BY <1>1, Invariance, PTL

(* Corrections of the order never hand the turn to somebody else: it       *)
(* changes hands when it is ended, when the order is locked or when the    *)
(* token whose turn it is is deleted.                                      *)
THEOREM CorrectionsKeepTurn == Spec => TurnSurvivesCorrections
<1>1. IInv /\ [Next]_vars =>
        [(active /\ active' /\ order # <<>> /\ Current' # Current) =>
           Current \in gone' \ gone \/ TurnPasses \/ Lock]_vars
  BY StepKeepsFight
<1> QED
  BY <1>1, Invariance, PTL DEF Spec, TurnSurvivesCorrections

(* Nobody who is surprised is given a turn in round one.                   *)
THEOREM SurpriseCostsTurn == Spec => SurprisedLoseFirstTurn
<1>1. IInv /\ [Next]_vars =>
        [(order' # <<>> /\ round' = 1 /\ order'[turn'].surprised) =>
           ~TurnPasses /\ ~Lock]_vars
  BY StepKeepsFight
<1> QED
  BY <1>1, Invariance, PTL DEF Spec, SurprisedLoseFirstTurn
----------------------------------------------------------------------------
(* The order.                                                              *)

(* Who is ahead gets the lower rank.                                       *)
LEMMA RankRises ==
  ASSUME NEW s \in Seq(Combatants), NEW i \in DOMAIN s, NEW j \in DOMAIN s, Ahead(s, i, j)
  PROVE  Rank(s, i) < Rank(s, j)
<1> DEFINE A(k) == {h \in DOMAIN s : Ahead(s, h, k)}
<1>1. DOMAIN s = 1 .. Len(s) /\ Len(s) \in Nat
  BY LenProperties
<1>2. IsFiniteSet(DOMAIN s)
  <2>1. 1 \in Int /\ Len(s) \in Int
    BY <1>1
  <2> QED
    BY <1>1, <2>1, FS_Interval
<1>3. A(i) \in SUBSET A(j) /\ i \in A(j) /\ i \notin A(i)
  BY AheadIsTotalOrder
<1>4. IsFiniteSet(A(i)) /\ IsFiniteSet(A(j))
  BY <1>2, FS_Subset
<1>5. Cardinality(A(i)) <= Cardinality(A(j)) /\ Cardinality(A(i)) # Cardinality(A(j))
  BY <1>3, <1>4, FS_Subset
<1>6. Cardinality(A(i)) \in Nat /\ Cardinality(A(j)) \in Nat
  BY <1>4, FS_CardinalityType
<1>7. Rank(s, i) = Cardinality(A(i)) + 1 /\ Rank(s, j) = Cardinality(A(j)) + 1
  BY DEF Rank
<1> HIDE DEF A
<1> QED
  BY <1>5, <1>6, <1>7

LEMMA SortedIsInOrder ==
  ASSUME NEW s \in Seq(Combatants)
  PROVE  InOrder(Sorted(s))
<1> SUFFICES ASSUME NEW i \in DOMAIN s, NEW j \in DOMAIN s, i < j,
                    Before(Sorted(s)[j], Sorted(s)[i])
             PROVE  FALSE
  BY SortedIsPermuted DEF InOrder
<1>1. \A k \in DOMAIN s : \E h \in DOMAIN s : Sorted(s)[k] = s[h] /\ Rank(s, h) = k
  BY RankBijective DEF Sorted
<1>2. PICK a \in DOMAIN s, b \in DOMAIN s :
        /\ Sorted(s)[i] = s[a] /\ Rank(s, a) = i
        /\ Sorted(s)[j] = s[b] /\ Rank(s, b) = j
  BY <1>1
<1>3. Ahead(s, b, a)
  BY <1>2 DEF Ahead
<1>4. j < i /\ i \in Nat /\ j \in Nat
  BY <1>2, <1>3, RankRises, LenProperties
<1> QED
  BY <1>4

(* Order is a matter of tokens and initiatives, entry by entry.            *)
LEMMA SameOrder ==
  ASSUME NEW s \in Seq(Combatants), NEW t, DOMAIN t = DOMAIN s, InOrder(s),
         \A i \in DOMAIN s : t[i].tok = s[i].tok /\ t[i].init = s[i].init
  PROVE  InOrder(t)
BY DEF InOrder, Before

LEMMA AwakeInOrder ==
  ASSUME NEW s \in Seq(Combatants), InOrder(s)
  PROVE  InOrder(Awake(s))
<1>1. \A c \in Combatants :
        [c EXCEPT !.surprised = FALSE].tok = c.tok /\ [c EXCEPT !.surprised = FALSE].init = c.init
  BY DEF Combatants
<1>2. \A i \in DOMAIN s : s[i] \in Combatants
  BY ElementOfSeq, LenProperties
<1>3. /\ DOMAIN Awake(s) = DOMAIN s
      /\ \A i \in DOMAIN s : Awake(s)[i].tok = s[i].tok /\ Awake(s)[i].init = s[i].init
  BY <1>1, <1>2 DEF Awake
<1> QED
  BY <1>3, SameOrder

LEMMA AdvanceInOrder ==
  ASSUME NEW s \in Seq(Combatants), InOrder(s), NEW at, Advance(s, at)
  PROVE  InOrder(order)'
<1>1. order' = Awake(s) \/ order' = s
  BY DEF Advance
<1>2. InOrder(Awake(s))
  BY AwakeInOrder
<1> QED
  BY <1>1, <1>2 DEF InOrder

LEMMA SplicedInOrder ==
  ASSUME NEW s \in Seq(Combatants), InOrder(s), NEW i \in DOMAIN s
  PROVE  InOrder(RemoveAt(s, i))
<1> DEFINE t == RemoveAt(s, i)
           From(k) == IF k < i THEN k ELSE k + 1
<1>1. /\ DOMAIN t = 1 .. Len(s) - 1
      /\ \A k \in 1 .. Len(s) - 1 : t[k] = s[From(k)]
  BY Spliced
<1>2. DOMAIN s = 1 .. Len(s) /\ Len(s) \in Nat /\ i \in 1 .. Len(s)
  BY LenProperties
<1> HIDE DEF t
<1>3. \A k \in DOMAIN t : From(k) \in DOMAIN s
  BY <1>1, <1>2
<1>4. \A j, k \in DOMAIN t : j < k => From(j) < From(k)
  BY <1>1, <1>2
<1> HIDE DEF From
<1>5. InOrder(t)
  BY <1>1, <1>3, <1>4 DEF InOrder
<1> QED
  BY <1>5 DEF t

LEMMA SortIntoOrders ==
  ASSUME NEW s \in Seq(Combatants), SortInto(s)
  PROVE  InOrder(order)'
<1>1. order' = Sorted(s)
  BY DEF SortInto
<1> QED
  BY <1>1, SortedIsInOrder DEF InOrder

LEMMA AddIntoOrders ==
  ASSUME order \in Seq(Combatants), NEW t \in Tokens, AddInto(t)
  PROVE  InOrder(order)'
<1>1. PICK x \in Totals : SortInto(Append(order, Enlisted(t, x, FALSE)))
  BY DEF AddInto
<1> DEFINE c == Enlisted(t, x, FALSE)
           s == Append(order, c)
<1>2. c \in Combatants
  BY TurnsAssumption DEF Enlisted, Combatants
<1> HIDE DEF c
<1>3. s \in Seq(Combatants)
  BY <1>2, AppendProperties
<1>4. SortInto(s)
  BY <1>1 DEF c
<1> HIDE DEF s
<1> QED
  BY <1>3, <1>4, SortIntoOrders

LEMMA EditKeepsOrder ==
  ASSUME FightOK, InOrder(order), NEW t \in Tokens,
         \/ \E x \in Totals : SetInitiative(t, x)
         \/ \E b \in BOOLEAN : SetSurprise(t, b)
  PROVE  InOrder(order)' \/ ~Rolled(order)'
<1> DEFINE i == Min(Places(order, t))
<1>1. i \in DOMAIN order /\ order \in Seq(Combatants)
  BY FirstPlace DEF FightOK, SetInitiative, SetSurprise
<1>2. order[i] \in Combatants
  BY <1>1, ElementOfSeq, LenProperties
<1>3. ASSUME NEW x \in Totals, SetInitiative(t, x)
      PROVE  InOrder(order)' \/ ~Rolled(order)'
  <2> DEFINE c == [order[i] EXCEPT !.init = x]
             s == [order EXCEPT ![i] = c]
  <2>1. IF Rolled(s) THEN SortInto(s) ELSE order' = s
    BY <1>3 DEF SetInitiative
  <2> HIDE DEF i
  <2>2. c \in Combatants
    BY <1>2, TurnsAssumption DEF Combatants
  <2> HIDE DEF c
  <2>3. s \in Seq(Combatants)
    BY <1>1, <2>2, Rewritten
  <2> HIDE DEF s
  <2>4. CASE Rolled(s)
    BY <2>1, <2>3, <2>4, SortIntoOrders
  <2>5. CASE ~Rolled(s)
    BY <2>1, <2>5 DEF Rolled
  <2> QED
    BY <2>4, <2>5
<1>4. ASSUME NEW b \in BOOLEAN, SetSurprise(t, b)
      PROVE  InOrder(order)'
  <2> DEFINE c == [order[i] EXCEPT !.surprised = b]
             s == [order EXCEPT ![i] = c]
  <2>1. order' = s
    BY <1>4 DEF SetSurprise
  <2> HIDE DEF i
  <2>2. c \in Combatants /\ c.tok = order[i].tok /\ c.init = order[i].init
    BY <1>2 DEF Combatants
  <2> HIDE DEF c
  <2>3. /\ DOMAIN s = DOMAIN order
        /\ \A j \in DOMAIN order : s[j] = IF j = i THEN c ELSE order[j]
    BY <1>1, <2>2, Rewritten
  <2> HIDE DEF s
  <2>4. InOrder(s)
    BY <1>1, <2>2, <2>3, SameOrder
  <2> QED
    BY <2>1, <2>4 DEF InOrder
<1> QED
  BY <1>3, <1>4

LEMMA StepKeepsOrder ==
  ASSUME IInv, [Next]_vars, InOrder(order)
  PROVE  InOrder(order)' \/ ~Rolled(order)'
<1>0. FightOK /\ RestOK /\ order \in Seq(Combatants)
  BY TwoParts DEF FightOK
<1>1. ASSUME order' = order PROVE InOrder(order)'
  BY <1>1 DEF InOrder
<1>2. ASSUME order' = <<>> PROVE InOrder(order)'
  <2>1. DOMAIN <<>> = {}
    OBVIOUS
  <2> QED
    BY <1>2, <2>1 DEF InOrder
<1>3. ASSUME NextTurn PROVE InOrder(order)'
  BY <1>0, <1>1, <1>3, AdvanceInOrder DEF NextTurn
<1>4. ASSUME NEW S \in SUBSET Tokens, Start(S) PROVE InOrder(order)'
  BY <1>4 DEF Start, InOrder
<1>5. CASE Lock
  <2> DEFINE s == Sorted(order)
  <2>1. s \in Seq(Combatants) /\ InOrder(s)
    BY <1>0, SortedIsPermuted, SortedIsInOrder
  <2>2. Advance(s, 1) \/ order' = s
    BY <1>5 DEF Lock
  <2> HIDE DEF s
  <2>3. CASE order' = s
    BY <2>1, <2>3 DEF InOrder
  <2> QED
    BY <2>1, <2>2, <2>3, AdvanceInOrder
<1>6. ASSUME NEW t \in Tokens, RemoveToken(t) PROVE InOrder(order)'
  <2>1. CASE active /\ Places(order, t) # {}
    <3> DEFINE i == Min(Places(order, t))
               s == RemoveAt(order, i)
    <3>1. order' = s
      BY <1>6, <2>1 DEF RemoveToken
    <3>2. InOrder(s)
      BY <1>0, <2>1, FirstPlace, SplicedInOrder
    <3> HIDE DEF s
    <3> QED
      BY <3>1, <3>2 DEF InOrder
  <2>2. CASE ~(active /\ Places(order, t) # {})
    BY <1>1, <1>6, <2>2 DEF RemoveToken
  <2> QED
    BY <2>1, <2>2
<1>7. ASSUME NEW q \in Reqs, AddAnswer(q) PROVE InOrder(order)'
  <2>1. req[q].tok \in Tokens
    BY <1>0, <1>7 DEF AddAnswer, RestOK, AddsToken
  <2> QED
    BY <1>0, <1>1, <1>7, <2>1, AddIntoOrders DEF AddAnswer
<1>8. CASE \E t \in Tokens : \/ \E x \in Totals : SetInitiative(t, x)
                             \/ \E b \in BOOLEAN : SetSurprise(t, b)
  BY <1>0, <1>8, EditKeepsOrder
<1>9. CASE \E t \in Tokens : Add(t)
  BY <1>0, <1>9, AddIntoOrders DEF Add
<1>10. CASE \/ \E u \in Players \cup {DM} : EndTurn(u)
            \/ \E q \in Reqs : EndTurnAnswer(q)
  BY <1>3, <1>10 DEF EndTurn, EndTurnAnswer
<1>11. CASE End
  BY <1>2, <1>11 DEF End
<1>12. CASE \/ \E t \in Tokens : Afflict(t) \/ \E v \in Vitals : Fare(t, v)
            \/ \E q \in Reqs : \/ SceneAsk(q) \/ SceneAnswer(q)
                               \/ \E u \in Players \cup {DM} : EndTurnAsk(q, u)
                               \/ \E t \in Tokens : AddAsk(q, t)
            \/ UNCHANGED vars
  BY <1>1, <1>12 DEF Fare, Afflict, SceneAsk, SceneAnswer, EndTurnAsk, AddAsk, fight, vars
<1> QED
  BY <1>4, <1>5, <1>6, <1>7, <1>8, <1>9, <1>10, <1>11, <1>12 DEF Next

(* An array in initiative order stays in order through edits, late         *)
(* joiners, deletions and turns, unless somebody has no initiative yet:    *)
(* the rank of an entry orders the sorted array, and a splice keeps it.    *)
THEOREM OrderKept == Spec => OrderIsKept
<1>1. IInv /\ [Next]_vars => [InOrder(order) => InOrder(order)' \/ ~Rolled(order)']_vars
  BY StepKeepsOrder
<1> QED
  BY <1>1, Invariance, PTL DEF Spec, OrderIsKept
----------------------------------------------------------------------------
(* Whom nextTurn finds.                                                    *)

\* Once around n places, and at most once more.
LEMMA Wraps ==
  ASSUME NEW n \in Nat \ {0}, NEW x \in Nat
  PROVE  /\ x < n => x % n = x /\ x \div n = 0
         /\ n <= x /\ x < 2 * n => x % n = x - n /\ x \div n = 1
         /\ x = 2 * n => x % n = 0 /\ x \div n = 2
OBVIOUS

\* Where k increments lead from `at`, for the k the loop may take.
LEMMA WhereTo ==
  ASSUME NEW s \in Seq(Combatants), NEW at \in DOMAIN s, NEW r \in Nat \ {0},
         NEW k \in 1 .. Len(s) + 1
  PROVE  /\ Len(s) \in Nat /\ at \in 1 .. Len(s)
         /\ k <= Len(s) - at => Slot(s, at, k) = at + k /\ RoundAt(s, at, r, k) = r
         /\ k > Len(s) - at /\ at + k # 2 * Len(s) + 1 =>
              Slot(s, at, k) = at + k - Len(s) /\ RoundAt(s, at, r, k) = r + 1
         /\ at + k = 2 * Len(s) + 1 => RoundAt(s, at, r, k) = r + 2
<1> DEFINE n == Len(s)
           x == at + k - 1
<1>1. DOMAIN s = 1 .. n /\ n \in Nat \ {0} /\ at \in 1 .. n
  BY LenProperties
<1>2. x \in Nat /\ x <= 2 * n
  BY <1>1
<1>3. /\ x < n => x % n = x /\ x \div n = 0
      /\ n <= x /\ x < 2 * n => x % n = x - n /\ x \div n = 1
      /\ x = 2 * n => x % n = 0 /\ x \div n = 2
  BY <1>1, <1>2, Wraps
<1>4. Slot(s, at, k) = (x % n) + 1 /\ RoundAt(s, at, r, k) = r + (x \div n)
  BY DEF Slot, RoundAt
<1>5. CASE k <= n - at
  <2>1. x < n /\ x + 1 = at + k /\ ~(at + k = 2 * n + 1)
    BY <1>1, <1>5
  <2> QED
    BY <1>1, <1>3, <1>4, <1>5, <2>1
<1>6. CASE k > n - at /\ at + k # 2 * n + 1
  <2>1. n <= x /\ (x - n) + 1 = at + k - n
    BY <1>1, <1>6
  <2>2. x # 2 * n
    BY <1>1, <1>6
  <2>3. x < 2 * n
    BY <1>1, <1>2, <2>2
  <2> QED
    BY <1>1, <1>3, <1>4, <1>6, <2>1, <2>3
<1>7. CASE k > n - at /\ at + k = 2 * n + 1
  <2>1. x = 2 * n
    BY <1>1, <1>7
  <2> QED
    BY <1>1, <1>3, <1>4, <1>7, <2>1, SMTT(20)
<1>8. k <= n - at \/ k > n - at
  BY <1>1
<1> QED
  BY <1>5, <1>6, <1>7, <1>8

\* Who takes a turn in the rest of the round, and in the next one.
Soon(s, at, r) == {i \in DOMAIN s : i > at /\ TakesTurn(s[i], r)}
Anew(s, at, r) == {i \in DOMAIN s : i <= at + 1 /\ TakesTurn(s[i], r + 1)}

(* From `at` in round r: the first who takes a turn in the rest of the     *)
(* round, or else in the next round up to the place after `at`, or else    *)
(* the round has changed.                                                  *)
LEMMA AdvanceFinds ==
  ASSUME NEW s \in Seq(Combatants), NEW at \in DOMAIN s, NEW r \in Nat \ {0}
  PROVE  LET k == Increments(s, at, r)
             later == Soon(s, at, r)
             again == Anew(s, at, r)
         IN  /\ later # {} => Slot(s, at, k) = Min(later) /\ RoundAt(s, at, r, k) = r
             /\ later = {} /\ again # {} =>
                  Slot(s, at, k) = Min(again) /\ RoundAt(s, at, r, k) = r + 1
             /\ later = {} /\ again = {} => RoundAt(s, at, r, k) > r
<1> DEFINE n == Len(s)
           stops == Stops(s, at, r)
           k == Increments(s, at, r)
           later == Soon(s, at, r)
           again == Anew(s, at, r)
<1>0. /\ later = {i \in DOMAIN s : i > at /\ TakesTurn(s[i], r)}
      /\ again = {i \in DOMAIN s : i <= at + 1 /\ TakesTurn(s[i], r + 1)}
  BY DEF Soon, Anew
<1>1. DOMAIN s = 1 .. n /\ n \in Nat \ {0} /\ at \in 1 .. n
  BY LenProperties
<1>2. \A j : j \in stops <=>
        j \in 1 .. n + 1 /\ TakesTurn(s[Slot(s, at, j)], RoundAt(s, at, r, j))
  BY DEF Stops
<1>3. stops \in SUBSET Nat
  BY <1>1, <1>2
<1>4. stops # {} => k \in stops /\ \A j \in stops : k <= j
  BY <1>3, MinIsLeast DEF Increments
<1>5. stops = {} => k = n + 1
  BY DEF Increments
<1>6. k \in 1 .. n + 1
  <2>1. n + 1 \in 1 .. n + 1
    BY <1>1
  <2> QED
    BY <1>2, <1>4, <1>5, <2>1
<1> HIDE DEF n, stops, k, later, again
<1>7. ASSUME NEW j \in 1 .. n + 1
      PROVE  /\ j <= n - at => Slot(s, at, j) = at + j /\ RoundAt(s, at, r, j) = r
             /\ j > n - at /\ at + j # 2 * n + 1 =>
                  Slot(s, at, j) = at + j - n /\ RoundAt(s, at, r, j) = r + 1
             /\ at + j = 2 * n + 1 => RoundAt(s, at, r, j) = r + 2
  BY WhereTo, SMTT(20) DEF n
<1>8. later \in SUBSET Nat /\ again \in SUBSET Nat
  BY <1>0, <1>1
<1>9. ASSUME later # {}
      PROVE  Slot(s, at, k) = Min(later) /\ RoundAt(s, at, r, k) = r
  <2>1. PICK m \in later : m = Min(later) /\ \A i \in later : m <= i
    BY <1>8, <1>9, MinIsLeast
  <2>2. m \in 1 .. n /\ m > at /\ TakesTurn(s[m], r)
    BY <1>0, <1>1
  <2>3. PICK j \in 1 .. n + 1 : j = m - at /\ j <= n - at /\ at + j = m
    BY <1>1, <2>2
  <2>4. j \in stops
    BY <1>2, <1>7, <2>2, <2>3
  <2>5. k \in stops /\ k <= j
    BY <1>4, <2>4
  <2>6. k <= n - at /\ at + k \in 1 .. n /\ at + k > at
    BY <1>1, <1>6, <2>3, <2>5
  <2>7. Slot(s, at, k) = at + k /\ RoundAt(s, at, r, k) = r
    BY <1>6, <1>7, <2>6
  <2>8. at + k \in later
    BY <1>0, <1>1, <1>2, <2>5, <2>6, <2>7
  <2>9. at + k = m
    BY <1>1, <1>6, <2>1, <2>2, <2>3, <2>5, <2>8
  <2> QED
    BY <2>1, <2>7, <2>9
<1>10. ASSUME later = {}, NEW j \in stops
       PROVE  j > n - at
  <2>1. j \in 1 .. n + 1 /\ TakesTurn(s[Slot(s, at, j)], RoundAt(s, at, r, j))
    BY <1>2
  <2> SUFFICES ASSUME j <= n - at PROVE FALSE
    BY <1>1, <2>1
  <2>2. at + j \in 1 .. n /\ at + j > at
    BY <1>1, <2>1
  <2>3. TakesTurn(s[at + j], r)
    BY <1>7, <2>1
  <2> QED
    BY <1>0, <1>1, <1>10, <2>2, <2>3
<1>11. ASSUME later = {}, again # {}
       PROVE  Slot(s, at, k) = Min(again) /\ RoundAt(s, at, r, k) = r + 1
  <2>1. PICK m \in again : m = Min(again) /\ \A i \in again : m <= i
    BY <1>8, <1>11, MinIsLeast
  <2>2. m \in 1 .. n /\ m <= at + 1 /\ TakesTurn(s[m], r + 1)
    BY <1>0, <1>1
  <2>3. PICK j \in 1 .. n + 1 :
          j = (m + n) - at /\ j > n - at /\ at + j # 2 * n + 1 /\ at + j - n = m
    BY <1>1, <2>2
  <2>4. j \in stops
    BY <1>2, <1>7, <2>2, <2>3
  <2>5. k \in stops /\ k <= j /\ k > n - at
    BY <1>4, <1>10, <1>11, <2>4
  <2>6. at + k # 2 * n + 1 /\ at + k - n \in 1 .. n /\ at + k - n <= at + 1
    <3>1. at + k <= m + n /\ k \in Nat /\ m \in Nat /\ m <= n
      BY <1>1, <1>6, <2>2, <2>3, <2>5, SMTT(20)
    <3>2. at + k <= 2 * n
      BY <1>1, <3>1
    <3>3. at + k - n >= 1 /\ at + k - n <= n /\ at + k - n \in Int
      BY <1>1, <2>5, <3>1, <3>2
    <3>4. at + k - n <= at + 1
      BY <1>1, <1>6
    <3> QED
      BY <1>1, <3>1, <3>2, <3>3, <3>4
  <2>7. Slot(s, at, k) = at + k - n /\ RoundAt(s, at, r, k) = r + 1
    BY <1>6, <1>7, <2>5, <2>6
  <2>8. at + k - n \in again
    BY <1>0, <1>1, <1>2, <2>5, <2>6, <2>7
  <2>9. at + k - n = m
    <3>1. m <= at + k - n
      BY <2>1, <2>8
    <3>2. at + k - n <= m
      BY <1>1, <1>6, <2>2, <2>3, <2>5, SMTT(20)
    <3> QED
      BY <2>2, <2>6, <3>1, <3>2
  <2> QED
    BY <2>1, <2>7, <2>9
<1>12. ASSUME later = {}, again = {}
       PROVE  RoundAt(s, at, r, k) > r
  <2>1. k > n - at
    <3>1. CASE stops = {}
      BY <1>1, <1>5, <3>1
    <3>2. CASE stops # {}
      BY <1>4, <1>10, <1>12, <3>2
    <3> QED
      BY <3>1, <3>2
  <2>2. RoundAt(s, at, r, k) = r + 1 \/ RoundAt(s, at, r, k) = r + 2
    BY <1>6, <1>7, <2>1
  <2> QED
    BY <2>2
<1> QED
  BY <1>9, <1>11, <1>12 DEF k, later, again

LEMMA StepFindsNext ==
  ASSUME IInv, TurnPasses
  PROVE  LET later == {i \in DOMAIN order : i > turn /\ FitNow(i)}
             again == {i \in DOMAIN order : i <= turn + 1 /\ FitAhead(i)}
         IN  IF later # {}      THEN turn' = Min(later) /\ round' = round
             ELSE IF again # {} THEN turn' = Min(again) /\ round' = round + 1
             ELSE round' > round
<1> DEFINE later == {i \in DOMAIN order : i > turn /\ FitNow(i)}
           again == {i \in DOMAIN order : i <= turn + 1 /\ FitAhead(i)}
           k == Increments(order, turn, round)
<1>1. active /\ order # <<>> /\ NextTurn
  BY DEF TurnPasses, EndTurn, EndTurnAnswer
<1>2. order \in Seq(Combatants) /\ turn \in DOMAIN order /\ round \in Nat \ {0}
  BY <1>1 DEF IInv, TypeOK, PointerInRange
<1>3. turn' = Slot(order, turn, k) /\ round' = RoundAt(order, turn, round, k)
  BY <1>1 DEF NextTurn, Advance
<1>4. \A i \in DOMAIN order : order[i] \in Combatants /\ order[i].tok \in Tokens
  <2>1. \A c \in Combatants : c.tok \in Tokens
    BY DEF Combatants
  <2> QED
    BY <1>2, <2>1, ElementOfSeq, LenProperties
<1>5. \A t \in Tokens :
        ~Out(t) <=> vital[t] = "up" \/ (vital[t] = "down" /\ t \notin NPCs)
  <2>1. \A t \in Tokens : vital[t] \in Vitals
    BY DEF IInv, TypeOK
  <2> QED
    BY <2>1 DEF Vitals, Out
<1>6. ASSUME NEW i \in DOMAIN order
      PROVE  /\ FitNow(i) <=> TakesTurn(order[i], round)
             /\ FitAhead(i) <=> TakesTurn(order[i], round + 1)
  <2>1. ~(round + 1 = 1)
    BY <1>2
  <2>2. FitAhead(i) <=> OnMap(order[i].tok) /\ ~Out(order[i].tok)
    BY <1>4, <1>5 DEF FitAhead
  <2> QED
    BY <2>1, <2>2 DEF FitNow, TakesTurn
<1>7. later = Soon(order, turn, round) /\ again = Anew(order, turn, round)
  BY <1>6 DEF Soon, Anew
<1> HIDE DEF later, again
<1>8. /\ later # {} => turn' = Min(later) /\ round' = round
      /\ later = {} /\ again # {} => turn' = Min(again) /\ round' = round + 1
      /\ later = {} /\ again = {} => round' > round
  BY <1>2, <1>3, <1>7, AdvanceFinds
<1> QED
  BY <1>8 DEF later, again

(* Ending a turn passes over nobody who could act: nextTurn stops at the   *)
(* first increment that meets somebody fit, and its n + 1 increments go    *)
(* through the rest of this round and then the next one, down to the slot  *)
(* after the one that was left.                                            *)
THEOREM NobodyIsPassedOver == Spec => TurnGoesToNextFit
<1>1. IInv /\ [Next]_vars =>
        [TurnPasses =>
           LET later == {i \in DOMAIN order : i > turn /\ FitNow(i)}
               again == {i \in DOMAIN order : i <= turn + 1 /\ FitAhead(i)}
           IN  IF later # {}      THEN turn' = Min(later) /\ round' = round
               ELSE IF again # {} THEN turn' = Min(again) /\ round' = round + 1
               ELSE round' > round]_vars
  BY StepFindsNext
<1> QED
  BY <1>1, Invariance, PTL DEF Spec, TurnGoesToNextFit
=============================================================================
