------------------------------ MODULE LootProofs ------------------------------
(***************************************************************************)
(* Proofs about Loot for any characters, items, inventories at first,      *)
(* requests in flight, entries and edits.                                  *)
(***************************************************************************)
EXTENDS Loot, TLAPS, SequenceTheorems, FiniteSetTheorems, WellFoundedInduction

----------------------------------------------------------------------------
(* Locks.                                                                  *)

(* No circle of requests waits for each other's rows.  Whoever holds a     *)
(* character waits for nobody; whoever waits for a character waits for     *)
(* such a request; and whoever waits for an entry waits for one that no    *)
(* longer does.                                                            *)
THEOREM NoDeadlock == Spec => []NobodyWaitsInACircle
<1>1. NobodyWaitsInACircle
  <2> SUFFICES ASSUME NEW circle \in SUBSET Requests, circle # {}
               PROVE  \E r \in circle : \A s \in circle : ~WaitsFor(r, s)
    BY DEF NobodyWaitsInACircle
  <2> DEFINE ForEntry(r) == req[r].does \in {"take entry", "transfer entry"}
             ForRow(r) == req[r].does \in {"take target", "transfer", "drop row", "enrich", "rewrite"}
             HasRow(r) == req[r].does \in {"take", "drop"}
  <2>1. \A r, s \in circle : WaitsFor(r, s) =>
          \/ ForEntry(r) /\ (ForRow(s) \/ HasRow(s))
          \/ ForRow(r) /\ HasRow(s)
    BY DEF WaitsFor, HoldsEntry, HoldsRow
  <2>2. CASE \E r \in circle : ~ForEntry(r) /\ ~ForRow(r)
    BY <2>1, <2>2
  <2>3. CASE \A r \in circle : ForEntry(r) \/ ForRow(r)
    <3>1. \A s \in circle : ~HasRow(s)
      BY <2>3
    <3>2. CASE \E r \in circle : ForRow(r)
      BY <2>1, <3>1, <3>2
    <3>3. CASE \A r \in circle : ~ForRow(r)
      BY <2>1, <3>1, <3>3
    <3> QED
      BY <3>2, <3>3
  <2> QED
    BY <2>2, <2>3
<1> QED
  BY <1>1, PTL

(* A request that has locked an entry finds it as it has read it.          *)
HasEntry(r) == req[r].does \in {"take target", "take", "transfer"}
EntryLocks ==
  \A r \in Requests : HasEntry(r) =>
    /\ entry[req[r].e].at = req[r].from
    /\ req[r].does = "take" =>
         entry[req[r].e].qty = req[r].qty /\ entry[req[r].e].item = req[r].item
    /\ \A s \in Requests : HasEntry(s) /\ req[s].e = req[r].e => s = r

(* ... and so does one that has locked a character.                        *)
HasRow(r) == req[r].does \in {"take", "drop"}
RowLocks ==
  \A r \in Requests : HasRow(r) =>
    /\ inventory[req[r].to] = req[r].list
    /\ req[r].does = "drop" => req[r].i \in DOMAIN req[r].list
    /\ \A s \in Requests : HasRow(s) /\ req[s].to = req[r].to => s = r

(* What is read without a lock is what the row has, as long as it is fresh. *)
Rewriting(r) == req[r].does \in {"enrich", "rewrite"}
Reads ==
  \A r \in Requests : Rewriting(r) =>
    /\ OneStack(Start[req[r].to]) => OneStack(req[r].list)
    /\ req[r].fresh => inventory[req[r].to] = req[r].list

(* Every drop has a number for its bag.                                    *)
Budget == made + Cardinality(Dropping) <= MaxIds

LootInv == TypeOK /\ EntryLocks /\ RowLocks /\ Reads /\ Budget

----------------------------------------------------------------------------
(* Sums over finite sets.                                                  *)

\* What is true of no smaller set: induction on finite sets.
LEMMA SmallestSet ==
  ASSUME NEW S, IsFiniteSet(S), NEW B \in SUBSET SUBSET S, B # {}
  PROVE  \E T \in B : \A U \in SUBSET T : U # T => U \notin B
<1>1. IsWellFoundedOn(StrictSubsetOrdering(S), SUBSET S)
  BY FS_FiniteSubsetsOfFinite, FS_StrictSubsetOrderingWellFounded
<1>2. PICK T \in B : \A U \in B : <<U, T>> \notin StrictSubsetOrdering(S)
  BY <1>1, WFMin
<1>3. ASSUME NEW U \in SUBSET T, U # T, U \in B
      PROVE  FALSE
  BY <1>2, <1>3 DEF StrictSubsetOrdering
<1> QED
  BY <1>2, <1>3

First(s) == CHOOSE x \in s : TRUE

LEMMA FirstIsIn ==
  ASSUME NEW s, s # {}
  PROVE  First(s) \in s
BY DEF First

\* What the sum of fun over T is taken from.
SumsOf(fun, g, T) ==
  g = [s \in SUBSET T |-> IF s = {} THEN 0 ELSE fun[First(s)] + g[s \ {First(s)}]]

LEMMA SumIsTaken ==
  ASSUME NEW fun, NEW T
  PROVE  SumFunctionOnSet(fun, T) = (CHOOSE g : SumsOf(fun, g, T))[T]
BY DEF SumFunctionOnSet, FoldFunctionOnSet, MapThenFoldSet, SumsOf, First

LEMMA SumsFollow ==
  ASSUME NEW fun, NEW T, NEW g, SumsOf(fun, g, T), NEW s \in SUBSET T
  PROVE  /\ s = {} => g[s] = 0
         /\ s # {} => g[s] = fun[First(s)] + g[s \ {First(s)}]
BY DEF SumsOf

LEMMA SumsAgree ==
  ASSUME NEW fun, NEW S, IsFiniteSet(S), NEW T \in SUBSET S,
         NEW g, SumsOf(fun, g, S), NEW h, SumsOf(fun, h, T)
  PROVE  \A s \in SUBSET T : g[s] = h[s]
<1> DEFINE B == {s \in SUBSET T : g[s] # h[s]}
<1>1. SUFFICES ASSUME B # {} PROVE FALSE
  OBVIOUS
<1>2. IsFiniteSet(T)
  BY FS_Subset
<1>3. PICK s \in B : \A U \in SUBSET s : U # s => U \notin B
  <2>1. B \in SUBSET SUBSET T
    OBVIOUS
  <2> HIDE DEF B
  <2> QED
    BY <1>1, <1>2, <2>1, SmallestSet
<1>4. s \in SUBSET T /\ s \in SUBSET S /\ g[s] # h[s]
  OBVIOUS
<1>5. s # {}
  BY <1>4, SumsFollow
<1>6. PICK x : x = First(s)
  OBVIOUS
<1>7. x \in s
  BY <1>5, <1>6, FirstIsIn
<1>8. g[s \ {x}] = h[s \ {x}]
  BY <1>3, <1>4, <1>7
<1>9. g[s] = fun[x] + g[s \ {x}] /\ h[s] = fun[x] + h[s \ {x}]
  BY <1>4, <1>5, <1>6, SumsFollow
<1> QED
  BY <1>4, <1>8, <1>9

LEMMA SumsExist ==
  ASSUME NEW fun, NEW S, IsFiniteSet(S)
  PROVE  \E g : SumsOf(fun, g, S)
<1> DEFINE Made(T) == \E g : SumsOf(fun, g, T)
           B == {T \in SUBSET S : ~Made(T)}
<1>1. SUFFICES ASSUME B # {} PROVE FALSE
  OBVIOUS
<1>2. PICK T \in B : \A U \in SUBSET T : U # T => U \notin B
  <2>1. B \in SUBSET SUBSET S
    OBVIOUS
  <2> HIDE DEF B
  <2> QED
    BY <1>1, <2>1, SmallestSet
<1>3. T \in SUBSET S /\ ~Made(T)
  OBVIOUS
<1>4. \A U \in SUBSET T : U # T => Made(U)
  BY <1>2, <1>3
<1> DEFINE h(U) == CHOOSE g : SumsOf(fun, g, U)
           sum == [U \in SUBSET T |->
                     IF U = {} THEN 0 ELSE fun[First(U)] + h(U \ {First(U)})[U \ {First(U)}]]
<1>5. \A U \in SUBSET T : U # T => SumsOf(fun, h(U), U)
  BY <1>4
<1> HIDE DEF h
<1>6. ASSUME NEW U \in SUBSET T, U # T
      PROVE  sum[U] = h(U)[U]
  <2>1. CASE U = {}
    <3>1. SumsOf(fun, h(U), U)
      BY <1>5, <1>6
    <3>2. h(U)[U] = 0
      BY <2>1, <3>1 DEF SumsOf
    <3> QED
      BY <2>1, <3>2
  <2>2. CASE U # {}
    <3>1. PICK x, V : x = First(U) /\ V = U \ {x}
      OBVIOUS
    <3>2. x \in U /\ V \in SUBSET U /\ V # T /\ V \in SUBSET T
      BY <2>2, <3>1, FirstIsIn
    <3>3. h(U)[U] = fun[x] + h(U)[V]
      BY <1>5, <1>6, <2>2, <3>1, SumsFollow
    <3>4. h(U)[V] = h(V)[V]
      <4>1. IsFiniteSet(U)
        BY <1>3, FS_Subset
      <4>2. SumsOf(fun, h(U), U) /\ SumsOf(fun, h(V), V)
        BY <1>5, <1>6, <3>2
      <4> QED
        BY <3>2, <4>1, <4>2, SumsAgree
    <3> QED
      BY <2>2, <3>1, <3>3, <3>4
  <2> QED
    BY <2>1, <2>2
<1>7. SumsOf(fun, sum, T)
  <2>1. ASSUME NEW U \in SUBSET T
        PROVE  sum[U] = IF U = {} THEN 0 ELSE fun[First(U)] + sum[U \ {First(U)}]
    <3>1. CASE U = {}
      BY <3>1
    <3>2. CASE U # {}
      <4>1. PICK x, V : x = First(U) /\ V = U \ {x}
        OBVIOUS
      <4>2. V \in SUBSET T /\ V # T
        BY <3>2, <4>1, FirstIsIn
      <4>3. sum[V] = h(V)[V]
        BY <1>6, <4>2
      <4> QED
        BY <3>2, <4>1, <4>3
    <3> QED
      BY <3>1, <3>2
  <2> QED
    BY <2>1 DEF SumsOf
<1> QED
  BY <1>3, <1>7

\* The sum of the empty set, and of one that is not.
LEMMA SumOfNone ==
  ASSUME NEW fun
  PROVE  SumFunctionOnSet(fun, {}) = 0
<1> DEFINE g == CHOOSE h : SumsOf(fun, h, {})
<1>1. SumsOf(fun, g, {})
  BY SumsExist, FS_EmptySet
<1> HIDE DEF g
<1>2. g[{}] = 0
  BY <1>1, SumsFollow
<1> QED
  BY <1>2, SumIsTaken DEF g

LEMMA SumOfMore ==
  ASSUME NEW fun, NEW S, IsFiniteSet(S), S # {}
  PROVE  SumFunctionOnSet(fun, S) =
           fun[First(S)] + SumFunctionOnSet(fun, S \ {First(S)})
<1>1. PICK T : T = S \ {First(S)}
  OBVIOUS
<1>2. T \in SUBSET S /\ IsFiniteSet(T)
  BY <1>1, FS_Subset
<1> DEFINE g == CHOOSE h : SumsOf(fun, h, S)
           k == CHOOSE h : SumsOf(fun, h, T)
<1>3. SumsOf(fun, g, S) /\ SumsOf(fun, k, T)
  BY <1>2, SumsExist
<1>4. SumFunctionOnSet(fun, S) = g[S] /\ SumFunctionOnSet(fun, T) = k[T]
  BY SumIsTaken
<1> HIDE DEF g, k
<1>5. g[T] = k[T]
  BY <1>2, <1>3, SumsAgree
<1>6. g[S] = fun[First(S)] + g[T]
  BY <1>1, <1>3, SumsFollow
<1> QED
  BY <1>1, <1>4, <1>5, <1>6

Ints(fun, S) == \A x \in S : fun[x] \in Int

LEMMA SumIsInt ==
  ASSUME NEW fun, NEW S, IsFiniteSet(S), Ints(fun, S)
  PROVE  SumFunctionOnSet(fun, S) \in Int
<1> DEFINE B == {T \in SUBSET S : SumFunctionOnSet(fun, T) \notin Int}
<1>1. SUFFICES ASSUME B # {} PROVE FALSE
  OBVIOUS
<1>2. PICK T \in B : \A U \in SUBSET T : U # T => U \notin B
  <2>1. B \in SUBSET SUBSET S
    OBVIOUS
  <2> HIDE DEF B
  <2> QED
    BY <1>1, <2>1, SmallestSet
<1>3. T \in SUBSET S /\ SumFunctionOnSet(fun, T) \notin Int
  OBVIOUS
<1>4. T # {}
  BY <1>3, SumOfNone
<1>5. PICK x, U : x = First(T) /\ U = T \ {x}
  OBVIOUS
<1>6. x \in T /\ U \in SUBSET T /\ U # T /\ IsFiniteSet(T)
  BY <1>3, <1>4, <1>5, FirstIsIn, FS_Subset
<1>7. SumFunctionOnSet(fun, T) = fun[x] + SumFunctionOnSet(fun, U)
  BY <1>4, <1>5, <1>6, SumOfMore
<1>8. SumFunctionOnSet(fun, U) \in Int
  BY <1>2, <1>3, <1>6
<1>9. fun[x] \in Int
  BY <1>3, <1>6 DEF Ints
<1> QED
  BY <1>3, <1>7, <1>8, <1>9

\* Elements can be taken out in any order.
LEMMA SumWithout ==
  ASSUME NEW fun, NEW S, IsFiniteSet(S), Ints(fun, S)
  PROVE  \A y \in S : SumFunctionOnSet(fun, S) = fun[y] + SumFunctionOnSet(fun, S \ {y})
<1> DEFINE Holds(T) == \A y \in T : SumFunctionOnSet(fun, T) = fun[y] + SumFunctionOnSet(fun, T \ {y})
           B == {T \in SUBSET S : ~Holds(T)}
<1>1. SUFFICES ASSUME B # {} PROVE FALSE
  OBVIOUS
<1>2. PICK T \in B : \A U \in SUBSET T : U # T => U \notin B
  <2>1. B \in SUBSET SUBSET S
    OBVIOUS
  <2> HIDE DEF B
  <2> QED
    BY <1>1, <2>1, SmallestSet
<1>3. T \in SUBSET S /\ ~Holds(T) /\ IsFiniteSet(T)
  BY FS_Subset
<1>4. PICK x : x = First(T)
  OBVIOUS
<1>5. ASSUME NEW y \in T
      PROVE  SumFunctionOnSet(fun, T) = fun[y] + SumFunctionOnSet(fun, T \ {y})
  <2>1. x \in T /\ SumFunctionOnSet(fun, T) = fun[x] + SumFunctionOnSet(fun, T \ {x})
    BY <1>3, <1>4, FirstIsIn, SumOfMore
  <2>2. CASE x = y
    BY <2>1, <2>2
  <2>3. CASE x # y
    <3>1. PICK U, V, W : U = T \ {x} /\ V = T \ {y} /\ W = U \ {y}
      OBVIOUS
    <3>2. /\ U \in SUBSET T /\ V \in SUBSET T /\ W \in SUBSET S /\ U # T /\ V # T
          /\ y \in U /\ x \in V /\ W = V \ {x} /\ IsFiniteSet(W)
      BY <1>3, <2>1, <2>3, <3>1, FS_Subset
    <3>3. Holds(U) /\ Holds(V)
      BY <1>2, <1>3, <3>2
    <3>4. /\ SumFunctionOnSet(fun, U) = fun[y] + SumFunctionOnSet(fun, W)
          /\ SumFunctionOnSet(fun, V) = fun[x] + SumFunctionOnSet(fun, W)
      BY <3>1, <3>2, <3>3
    <3>5. SumFunctionOnSet(fun, W) \in Int /\ fun[x] \in Int /\ fun[y] \in Int
      BY <1>3, <2>1, <3>2, SumIsInt DEF Ints
    <3>6. SumFunctionOnSet(fun, T) = fun[x] + SumFunctionOnSet(fun, U)
      BY <2>1, <3>1
    <3> QED
      BY <3>1, <3>4, <3>5, <3>6
  <2> QED
    BY <2>2, <2>3
<1> QED
  BY <1>3, <1>5

\* Elements that count nothing can be left out.
LEMMA SumOfEnough ==
  ASSUME NEW fun, NEW S, IsFiniteSet(S), Ints(fun, S), NEW R \in SUBSET S,
         \A x \in S \ R : fun[x] = 0
  PROVE  SumFunctionOnSet(fun, S) = SumFunctionOnSet(fun, R)
<1> DEFINE Holds(T) == SumFunctionOnSet(fun, T) = SumFunctionOnSet(fun, T \cap R)
           B == {T \in SUBSET S : ~Holds(T)}
<1>1. ASSUME B # {} PROVE FALSE
  <2>1. PICK T \in B : \A U \in SUBSET T : U # T => U \notin B
    <3>1. B \in SUBSET SUBSET S
      OBVIOUS
    <3> HIDE DEF B
    <3> QED
      BY <1>1, <3>1, SmallestSet
  <2>2. T \in SUBSET S /\ ~Holds(T) /\ IsFiniteSet(T)
    BY FS_Subset
  <2>3. T # {}
    <3>1. T = {} => T \cap R = T
      OBVIOUS
    <3> QED
      BY <2>2, <3>1
  <2>4. PICK x, U : x = First(T) /\ U = T \ {x}
    OBVIOUS
  <2>5. /\ x \in T /\ U \in SUBSET T /\ U # T /\ IsFiniteSet(T \cap R) /\ IsFiniteSet(U \cap R)
        /\ SumFunctionOnSet(fun, T) = fun[x] + SumFunctionOnSet(fun, U)
    BY <2>2, <2>3, <2>4, FirstIsIn, SumOfMore, FS_Subset
  <2>6. Holds(U)
    BY <2>1, <2>2, <2>5
  <2>7. CASE x \in R
    <3>1. x \in T \cap R /\ (T \cap R) \ {x} = U \cap R
      BY <2>4, <2>5, <2>7
    <3>2. Ints(fun, T \cap R)
      BY <2>2 DEF Ints
    <3>3. SumFunctionOnSet(fun, T \cap R) = fun[x] + SumFunctionOnSet(fun, U \cap R)
      BY <2>5, <3>1, <3>2, SumWithout
    <3> QED
      BY <2>2, <2>5, <2>6, <3>3
  <2>8. CASE x \notin R
    <3>1. T \cap R = U \cap R /\ fun[x] = 0
      BY <2>2, <2>4, <2>5, <2>8
    <3>2. Ints(fun, U \cap R)
      BY <2>2, <2>5 DEF Ints
    <3>3. SumFunctionOnSet(fun, U \cap R) \in Int
      BY <2>5, <3>2, SumIsInt
    <3> QED
      BY <2>2, <2>5, <2>6, <3>1, <3>3
  <2> QED
    BY <2>7, <2>8
<1>2. Holds(S) /\ S \cap R = R
  BY <1>1
<1> QED
  BY <1>2

\* Sums over sets whose elements correspond to each other.
LEMMA SumOfOthers ==
  ASSUME NEW f, NEW g, NEW S, NEW pi, IsFiniteSet(S), Ints(f, S),
         \A x \in S : g[pi[x]] = f[x],
         \A x, y \in S : pi[x] = pi[y] => x = y
  PROVE  SumFunctionOnSet(f, S) = SumFunctionOnSet(g, {pi[x] : x \in S})
<1> DEFINE Of(U) == {pi[x] : x \in U}
           Holds(U) == SumFunctionOnSet(f, U) = SumFunctionOnSet(g, Of(U))
           B == {U \in SUBSET S : ~Holds(U)}
<1>1. ASSUME B # {} PROVE FALSE
  <2>1. PICK T \in B : \A U \in SUBSET T : U # T => U \notin B
    <3>1. B \in SUBSET SUBSET S
      OBVIOUS
    <3> HIDE DEF B
    <3> QED
      BY <1>1, <3>1, SmallestSet
  <2>2. T \in SUBSET S /\ ~Holds(T) /\ IsFiniteSet(T)
    BY FS_Subset
  <2>3. T # {}
    <3>1. T = {} => Of(T) = {}
      OBVIOUS
    <3>2. SumFunctionOnSet(f, {}) = 0 /\ SumFunctionOnSet(g, {}) = 0
      BY SumOfNone
    <3> HIDE DEF Of
    <3> QED
      BY <2>2, <3>1, <3>2
  <2>4. PICK x, U : x = First(T) /\ U = T \ {x}
    OBVIOUS
  <2>5. /\ x \in T /\ U \in SUBSET T /\ U # T
        /\ SumFunctionOnSet(f, T) = f[x] + SumFunctionOnSet(f, U)
    BY <2>2, <2>3, <2>4, FirstIsIn, SumOfMore
  <2>6. Holds(U)
    BY <2>1, <2>2, <2>5
  <2>7. IsFiniteSet(Of(T))
    <3>1. PICK onto : onto = [u \in T |-> pi[u]]
      OBVIOUS
    <3>2. onto \in Surjection(T, Of(T))
      BY <3>1 DEF Surjection
    <3> HIDE DEF Of
    <3> QED
      BY <2>2, <3>2, FS_Surjection
  <2>8. Ints(g, Of(T))
    BY <2>2 DEF Ints
  <2>9. pi[x] \in Of(T) /\ Of(T) \ {pi[x]} = Of(U)
    BY <2>2, <2>4, <2>5
  <2>10. g[pi[x]] = f[x]
    BY <2>2, <2>5
  <2> HIDE DEF Of
  <2>11. SumFunctionOnSet(g, Of(T)) = f[x] + SumFunctionOnSet(g, Of(U))
    BY <2>7, <2>8, <2>9, <2>10, SumWithout
  <2> QED
    BY <2>2, <2>5, <2>6, <2>11
<1>2. Holds(S)
  BY <1>1
<1> QED
  BY <1>2

LEMMA SumOfSame ==
  ASSUME NEW f, NEW g, NEW S, IsFiniteSet(S), Ints(f, S), \A x \in S : g[x] = f[x]
  PROVE  SumFunctionOnSet(f, S) = SumFunctionOnSet(g, S)
<1>1. PICK pi : pi = [x \in S |-> x]
  OBVIOUS
<1>2. /\ \A x \in S : g[pi[x]] = f[x]
      /\ \A x, y \in S : pi[x] = pi[y] => x = y
      /\ {pi[x] : x \in S} = S
  BY <1>1
<1> QED
  BY <1>2, SumOfOthers

\* One value that changes.
LEMMA SumOfChanged ==
  ASSUME NEW f, NEW g, NEW S, IsFiniteSet(S), Ints(f, S), Ints(g, S),
         NEW e \in S, \A x \in S \ {e} : g[x] = f[x]
  PROVE  SumFunctionOnSet(g, S) = (SumFunctionOnSet(f, S) + g[e]) - f[e]
<1>1. PICK T : T = S \ {e}
  OBVIOUS
<1>2. IsFiniteSet(T) /\ Ints(f, T) /\ Ints(g, T) /\ \A x \in T : g[x] = f[x]
  BY <1>1, FS_Subset DEF Ints
<1>3. SumFunctionOnSet(f, T) = SumFunctionOnSet(g, T) /\ SumFunctionOnSet(f, T) \in Int
  BY <1>2, SumOfSame, SumIsInt
<1>4. /\ SumFunctionOnSet(f, S) = f[e] + SumFunctionOnSet(f, T)
      /\ SumFunctionOnSet(g, S) = g[e] + SumFunctionOnSet(g, T)
  BY <1>1, SumWithout
<1>5. f[e] \in Int /\ g[e] \in Int
  BY DEF Ints
<1> QED
  BY <1>3, <1>4, <1>5

----------------------------------------------------------------------------
(* Lists.                                                                  *)

LEMMA MinIsLeast ==
  ASSUME NEW S \in SUBSET Nat, S # {}
  PROVE  Min(S) \in S /\ \A y \in S : Min(S) <= y
<1>1. IsWellFoundedOn({ss \in Nat \X Nat : ss[1] < ss[2]}, Nat)
  BY NatLessThanWellFounded DEF OpToRel
<1>2. PICK x \in S : \A y \in S :
        ~(<<y, x>> \in {ss \in Nat \X Nat : ss[1] < ss[2]})
  BY <1>1, WFMin
<1>3. ASSUME NEW y \in S PROVE x <= y
  <2>1. ~(y < x)
    BY <1>2
  <2>2. x \in Nat /\ y \in Nat
    OBVIOUS
  <2> QED
    BY <2>1, <2>2
<1> QED
  BY <1>3 DEF Min

Stacks == [item : Items, qty : Nat \ {0}]

LEMMA ListFields ==
  ASSUME NEW list \in Lists
  PROVE  /\ list \in Seq(Stacks) /\ Lists = Seq(Stacks)
         /\ DOMAIN list = 1 .. Len(list) /\ Len(list) \in Nat
         /\ \A i \in DOMAIN list : list[i] \in Stacks
         /\ \A i \in DOMAIN list : list[i].item \in Items /\ list[i].qty \in Nat \ {0} /\ i \in Nat \ {0}
         /\ IsFiniteSet(DOMAIN list)
<1>1. Lists = Seq(Stacks)
  BY DEF Lists, Stacks
<1>2. list \in Seq(Stacks)
  BY <1>1
<1>3. /\ DOMAIN list = 1 .. Len(list) /\ Len(list) \in Nat
      /\ \A i \in DOMAIN list : list[i] \in Stacks
  BY <1>2, LenProperties, ElementOfSeq
<1>4. \A i \in DOMAIN list : list[i].item \in Items /\ list[i].qty \in Nat \ {0} /\ i \in Nat \ {0}
  BY <1>3 DEF Stacks
<1> QED
  BY <1>1, <1>2, <1>3, <1>4, FS_Interval

\* What the four ways to change a list make of it.
OneMore(list, new, item, n) ==
  /\ DOMAIN new = 1 .. n /\ n \in 1 .. n /\ n \notin DOMAIN list /\ DOMAIN list = (1 .. n) \ {n}
  /\ new[n].item = item /\ new[n].qty = 1

LEMMA ListLonger ==
  ASSUME NEW list \in Lists, NEW item \in Items, Slot(list, item) = {}
  PROVE  /\ Added(list, item) \in Lists
         /\ \E n \in Nat : OneMore(list, Added(list, item), item, n)
         /\ \A i \in DOMAIN list : Added(list, item)[i] = list[i]
         /\ \A i \in DOMAIN list : list[i].item # item
<1>1. /\ list \in Seq(Stacks) /\ Lists = Seq(Stacks)
      /\ DOMAIN list = 1 .. Len(list) /\ Len(list) \in Nat
  BY ListFields
<1> DEFINE new == [item |-> item, qty |-> 1]
<1>2. new \in Stacks /\ new.item = item /\ new.qty = 1
  BY DEF Stacks
<1>3. Added(list, item) = Append(list, new)
  BY DEF Added
<1> HIDE DEF new
<1>4. /\ Append(list, new) \in Seq(Stacks) /\ DOMAIN Append(list, new) = 1 .. Len(list) + 1
      /\ Append(list, new)[Len(list) + 1] = new
      /\ \A i \in 1 .. Len(list) : Append(list, new)[i] = list[i]
  BY <1>1, <1>2
<1>5. \A i \in 1 .. Len(list) : list[i].item # item
  BY <1>1 DEF Slot
<1>6. PICK n \in Nat : n = Len(list) + 1
  BY <1>1
<1>7. n \notin DOMAIN list /\ DOMAIN list = (1 .. n) \ {n} /\ n \in 1 .. n
  BY <1>1, <1>6
<1>8. /\ DOMAIN Added(list, item) = 1 .. n /\ Added(list, item)[n].item = item
      /\ Added(list, item)[n].qty = 1
  BY <1>2, <1>3, <1>4, <1>6
<1> QED
  BY <1>1, <1>3, <1>4, <1>5, <1>6, <1>7, <1>8 DEF OneMore

LEMMA ListRaised ==
  ASSUME NEW list \in Lists, NEW item \in Items, Slot(list, item) # {}
  PROVE  /\ Added(list, item) \in Lists /\ DOMAIN Added(list, item) = DOMAIN list
         /\ \E m \in Slot(list, item) :
              /\ Added(list, item)[m].item = item
              /\ Added(list, item)[m].qty = list[m].qty + 1
              /\ \A i \in DOMAIN list \ {m} : Added(list, item)[i] = list[i]
<1>1. /\ list \in Seq(Stacks) /\ Lists = Seq(Stacks)
      /\ DOMAIN list = 1 .. Len(list) /\ Len(list) \in Nat
      /\ \A i \in DOMAIN list : list[i] \in Stacks
      /\ \A i \in DOMAIN list : list[i].item \in Items /\ list[i].qty \in Nat \ {0}
  BY ListFields
<1>2. PICK m \in Slot(list, item) : m = Min(Slot(list, item))
  <2>1. Slot(list, item) \in SUBSET Nat
    BY <1>1 DEF Slot
  <2> QED
    BY <2>1, MinIsLeast
<1>3. m \in DOMAIN list /\ list[m].item = item
  BY DEF Slot
<1> DEFINE new == [list[m] EXCEPT !.qty = list[m].qty + 1]
<1>4. list[m] \in Stacks /\ new \in Stacks /\ new.item = list[m].item /\ new.qty = list[m].qty + 1
  BY <1>1, <1>3 DEF Stacks
<1>5. Added(list, item) = [list EXCEPT ![m] = new]
  BY <1>2 DEF Added
<1> HIDE DEF new
<1>6. /\ Added(list, item) \in Seq(Stacks) /\ DOMAIN Added(list, item) = DOMAIN list
      /\ Added(list, item)[m] = new
      /\ \A i \in DOMAIN list \ {m} : Added(list, item)[i] = list[i]
  BY <1>1, <1>3, <1>4, <1>5
<1> QED
  BY <1>1, <1>3, <1>4, <1>6

LEMMA ListLowered ==
  ASSUME NEW list \in Lists, NEW i \in DOMAIN list, list[i].qty > 1
  PROVE  /\ Dropped(list, i) \in Lists /\ DOMAIN Dropped(list, i) = DOMAIN list
         /\ Dropped(list, i)[i].item = list[i].item
         /\ Dropped(list, i)[i].qty = list[i].qty - 1
         /\ \A k \in DOMAIN list \ {i} : Dropped(list, i)[k] = list[k]
<1>1. /\ list \in Seq(Stacks) /\ Lists = Seq(Stacks)
      /\ DOMAIN list = 1 .. Len(list) /\ Len(list) \in Nat
      /\ list[i] \in Stacks /\ list[i].item \in Items /\ list[i].qty \in Nat \ {0}
  BY ListFields
<1> DEFINE new == [list[i] EXCEPT !.qty = list[i].qty - 1]
<1>2. new \in Stacks /\ new.item = list[i].item /\ new.qty = list[i].qty - 1
  BY <1>1 DEF Stacks
<1>3. Dropped(list, i) = [list EXCEPT ![i] = new]
  BY DEF Dropped
<1> HIDE DEF new
<1>4. /\ Dropped(list, i) \in Seq(Stacks) /\ DOMAIN Dropped(list, i) = DOMAIN list
      /\ Dropped(list, i)[i] = new
      /\ \A k \in DOMAIN list \ {i} : Dropped(list, i)[k] = list[k]
  BY <1>1, <1>2, <1>3
<1> QED
  BY <1>1, <1>2, <1>4

LEMMA ListShorter ==
  ASSUME NEW list \in Lists, NEW i \in DOMAIN list, ~(list[i].qty > 1)
  PROVE  /\ Dropped(list, i) \in Lists /\ DOMAIN Dropped(list, i) = 1 .. Len(list) - 1
         /\ \A k \in 1 .. Len(list) - 1 :
              Dropped(list, i)[k] = IF k < i THEN list[k] ELSE list[k + 1]
<1>1. /\ list \in Seq(Stacks) /\ Lists = Seq(Stacks)
      /\ DOMAIN list = 1 .. Len(list) /\ Len(list) \in Nat /\ i \in Nat
  BY ListFields
<1> DEFINE left == SubSeq(list, 1, i - 1)
           right == SubSeq(list, i + 1, Len(list))
           all == left \o right
<1>2. /\ left \in Seq(Stacks) /\ Len(left) = i - 1
      /\ \A k \in 1 .. i - 1 : left[k] = list[k]
  BY <1>1
<1>3. /\ right \in Seq(Stacks) /\ Len(right) = Len(list) - i
      /\ \A k \in 1 .. Len(list) - i : right[k] = list[k + i]
  BY <1>1, SMTT(20)
<1>4. Dropped(list, i) = all
  BY DEF Dropped
<1> HIDE DEF left, right
<1>5. /\ all \in Seq(Stacks) /\ DOMAIN all = 1 .. Len(list) - 1
      /\ \A k \in 1 .. Len(list) - 1 : all[k] = IF k <= i - 1 THEN left[k] ELSE right[k - (i - 1)]
  <2>1. /\ left \o right \in Seq(Stacks) /\ Len(left \o right) = Len(left) + Len(right)
        /\ \A k \in 1 .. Len(left) + Len(right) :
             (left \o right)[k] = IF k <= Len(left) THEN left[k] ELSE right[k - Len(left)]
    BY <1>2, <1>3, ConcatProperties
  <2>2. Len(left) + Len(right) = Len(list) - 1 /\ Len(left) = i - 1
    BY <1>1, <1>2, <1>3
  <2>3. DOMAIN all = 1 .. Len(all)
    BY <2>1, LenProperties
  <2> QED
    BY <2>1, <2>2, <2>3
<1>6. ASSUME NEW k \in 1 .. Len(list) - 1
      PROVE  all[k] = IF k < i THEN list[k] ELSE list[k + 1]
  <2>1. CASE k < i
    <3>1. k <= i - 1 /\ k \in 1 .. i - 1
      BY <1>1, <2>1
    <3> QED
      BY <1>2, <1>5, <2>1, <3>1
  <2>2. CASE ~(k < i)
    <3>1. ~(k <= i - 1)
      BY <1>1, <2>2
    <3>2. k - (i - 1) \in 1 .. Len(list) - i /\ k - (i - 1) + i = k + 1
      BY <1>1, <2>2
    <3>3. right[k - (i - 1)] = list[k + 1]
      BY <1>3, <3>2
    <3> QED
      BY <1>5, <2>2, <3>1, <3>3
  <2> QED
    BY <2>1, <2>2
<1> HIDE DEF all
<1> QED
  BY <1>1, <1>4, <1>5, <1>6

LEMMA AddedList ==
  ASSUME NEW list \in Lists, NEW item \in Items
  PROVE  Added(list, item) \in Lists /\ (OneStack(list) => OneStack(Added(list, item)))
<1>1. CASE Slot(list, item) = {}
  <2>1. PICK n \in Nat : OneMore(list, Added(list, item), item, n)
    BY <1>1, ListLonger
  <2>2. /\ Added(list, item) \in Lists
        /\ \A i \in DOMAIN list : Added(list, item)[i] = list[i]
        /\ \A i \in DOMAIN list : list[i].item # item
    BY <1>1, ListLonger
  <2> QED
    BY <2>1, <2>2 DEF OneStack, OneMore
<1>2. CASE Slot(list, item) # {}
  <2>1. /\ Added(list, item) \in Lists /\ DOMAIN Added(list, item) = DOMAIN list
        /\ \A i \in DOMAIN list : Added(list, item)[i].item = list[i].item
    BY <1>2, ListRaised DEF Slot
  <2> QED
    BY <2>1 DEF OneStack
<1> QED
  BY <1>1, <1>2

LEMMA DroppedList ==
  ASSUME NEW list \in Lists, NEW i \in DOMAIN list
  PROVE  Dropped(list, i) \in Lists /\ (OneStack(list) => OneStack(Dropped(list, i)))
<1>1. CASE list[i].qty > 1
  <2>1. /\ Dropped(list, i) \in Lists /\ DOMAIN Dropped(list, i) = DOMAIN list
        /\ \A k \in DOMAIN list : Dropped(list, i)[k].item = list[k].item
    BY <1>1, ListLowered
  <2> QED
    BY <2>1 DEF OneStack
<1>2. CASE ~(list[i].qty > 1)
  <2>1. PICK new : new = Dropped(list, i)
    OBVIOUS
  <2>2. /\ DOMAIN list = 1 .. Len(list) /\ Len(list) \in Nat /\ i \in Nat
        /\ new \in Lists /\ DOMAIN new = 1 .. Len(list) - 1
        /\ \A k \in 1 .. Len(list) - 1 : new[k] = IF k < i THEN list[k] ELSE list[k + 1]
    BY <1>2, <2>1, ListFields, ListShorter
  <2>3. ASSUME OneStack(list), NEW k \in DOMAIN new, NEW l \in DOMAIN new, new[k].item = new[l].item
        PROVE  k = l
    <3> DEFINE at(x) == IF x < i THEN x ELSE x + 1
    <3>1. at(k) \in DOMAIN list /\ at(l) \in DOMAIN list
      BY <2>2
    <3>2. new[k] = list[at(k)] /\ new[l] = list[at(l)]
      BY <2>2
    <3>3. at(k) = at(l)
      BY <2>3, <3>1, <3>2 DEF OneStack
    <3> QED
      BY <2>2, <3>3
  <2> QED
    BY <2>1, <2>2, <2>3 DEF OneStack
<1> QED
  BY <1>1, <1>2

\* How many of an item a list has, and what a change makes of that.
Quantities(list) == [i \in DOMAIN list |-> list[i].qty]

LEMMA InListCounts ==
  ASSUME NEW list \in Lists, NEW item
  PROVE  /\ InList(list, item) = SumFunctionOnSet(Quantities(list), Slot(list, item))
         /\ IsFiniteSet(Slot(list, item)) /\ Ints(Quantities(list), Slot(list, item))
         /\ Ints(Quantities(list), DOMAIN list)
         /\ InList(list, item) \in Int
<1>1. InList(list, item) = SumFunctionOnSet(Quantities(list), Slot(list, item))
  BY DEF InList, Quantities
<1>2. /\ IsFiniteSet(DOMAIN list) /\ Slot(list, item) \in SUBSET DOMAIN list
      /\ \A i \in DOMAIN list : list[i].qty \in Nat
  BY ListFields DEF Slot
<1>3. IsFiniteSet(Slot(list, item))
  BY <1>2, FS_Subset
<1>4. \A i \in DOMAIN list : Quantities(list)[i] \in Int
  BY <1>2 DEF Quantities
<1>5. Ints(Quantities(list), Slot(list, item)) /\ Ints(Quantities(list), DOMAIN list)
  BY <1>2, <1>4 DEF Ints
<1> QED
  BY <1>1, <1>3, <1>5, SumIsInt

One(yes) == IF yes THEN 1 ELSE 0

LEMMA AddedCounts ==
  ASSUME NEW list \in Lists, NEW item \in Items, NEW any
  PROVE  InList(Added(list, item), any) = InList(list, any) + One(any = item)
<1>1. PICK new \in Lists : new = Added(list, item)
  BY AddedList
<1>2. PICK S, T : S = Slot(list, any) /\ T = Slot(new, any)
  OBVIOUS
<1>3. PICK f, g : f = Quantities(list) /\ g = Quantities(new)
  OBVIOUS
<1>4. /\ InList(list, any) = SumFunctionOnSet(f, S) /\ InList(new, any) = SumFunctionOnSet(g, T)
      /\ IsFiniteSet(S) /\ IsFiniteSet(T) /\ Ints(f, S) /\ Ints(g, T)
      /\ SumFunctionOnSet(f, S) \in Int
  BY <1>2, <1>3, InListCounts
<1>5. CASE Slot(list, item) = {}
  <2>0. PICK n \in Nat : OneMore(list, Added(list, item), item, n)
    BY <1>5, ListLonger
  <2>1. /\ DOMAIN new = 1 .. n /\ n \in 1 .. n /\ n \notin DOMAIN list /\ DOMAIN list = (1 .. n) \ {n}
        /\ new[n].item = item /\ new[n].qty = 1
    BY <1>1, <2>0 DEF OneMore
  <2>2. /\ \A i \in DOMAIN list : new[i] = list[i]
        /\ \A i \in DOMAIN list : list[i].item # item
    BY <1>1, <1>5, ListLonger
  <2>3. CASE any = item
    <3>1. S = {} /\ T = {n} /\ T \ {n} = {}
      BY <1>2, <2>1, <2>2, <2>3 DEF Slot
    <3>2. g[n] = 1
      BY <1>3, <2>1 DEF Quantities
    <3>3. SumFunctionOnSet(g, T) = g[n] + SumFunctionOnSet(g, T \ {n})
      BY <1>4, <3>1, SumWithout
    <3>4. SumFunctionOnSet(g, {}) = 0 /\ SumFunctionOnSet(f, {}) = 0
      BY SumOfNone
    <3>5. SumFunctionOnSet(g, T) = 1 /\ SumFunctionOnSet(f, S) = 0
      BY <3>1, <3>2, <3>3, <3>4
    <3> QED
      BY <1>1, <1>4, <2>3, <3>5 DEF One
  <2>4. CASE any # item
    <3>1. S = T /\ \A i \in S : g[i] = f[i]
      BY <1>2, <1>3, <2>1, <2>2, <2>4 DEF Slot, Quantities
    <3>2. SumFunctionOnSet(f, S) = SumFunctionOnSet(g, S)
      BY <1>4, <3>1, SumOfSame
    <3> QED
      BY <1>1, <1>4, <2>4, <3>1, <3>2 DEF One
  <2> QED
    BY <2>3, <2>4
<1>6. CASE Slot(list, item) # {}
  <2>1. PICK m \in Slot(list, item) :
          /\ new[m].item = item /\ new[m].qty = list[m].qty + 1
          /\ \A i \in DOMAIN list \ {m} : new[i] = list[i]
    BY <1>1, <1>6, ListRaised
  <2>2. m \in DOMAIN list /\ list[m].item = item /\ DOMAIN new = DOMAIN list
    BY <1>1, <1>6, ListRaised DEF Slot
  <2>3. S = T
    BY <1>2, <2>1, <2>2 DEF Slot
  <2>4. \A i \in S \ {m} : g[i] = f[i]
    BY <1>2, <1>3, <2>1, <2>2 DEF Slot, Quantities
  <2>5. CASE any = item
    <3>1. m \in S /\ g[m] = f[m] + 1 /\ f[m] \in Int
      BY <1>2, <1>3, <1>4, <2>1, <2>2, <2>5 DEF Quantities, Ints
    <3>2. SumFunctionOnSet(g, S) = (SumFunctionOnSet(f, S) + g[m]) - f[m]
      BY <1>4, <2>3, <2>4, <3>1, SumOfChanged
    <3>3. SumFunctionOnSet(g, S) = SumFunctionOnSet(f, S) + 1
      BY <1>4, <3>1, <3>2
    <3> QED
      BY <1>1, <1>4, <2>3, <2>5, <3>3 DEF One
  <2>6. CASE any # item
    <3>1. \A i \in S : g[i] = f[i]
      BY <1>2, <2>2, <2>4, <2>6 DEF Slot
    <3>2. SumFunctionOnSet(f, S) = SumFunctionOnSet(g, S)
      BY <1>4, <3>1, SumOfSame
    <3> QED
      BY <1>1, <1>4, <2>3, <2>6, <3>2 DEF One
  <2> QED
    BY <2>5, <2>6
<1> QED
  BY <1>5, <1>6

LEMMA DroppedCounts ==
  ASSUME NEW list \in Lists, NEW i \in DOMAIN list, NEW any
  PROVE  InList(Dropped(list, i), any) = InList(list, any) - One(any = list[i].item)
<1>1. PICK new \in Lists : new = Dropped(list, i)
  BY DroppedList
<1>2. PICK S, T : S = Slot(list, any) /\ T = Slot(new, any)
  OBVIOUS
<1>3. PICK f, g : f = Quantities(list) /\ g = Quantities(new)
  OBVIOUS
<1>4. /\ InList(list, any) = SumFunctionOnSet(f, S) /\ InList(new, any) = SumFunctionOnSet(g, T)
      /\ IsFiniteSet(S) /\ IsFiniteSet(T) /\ Ints(f, S) /\ Ints(g, T)
      /\ SumFunctionOnSet(f, S) \in Int
  BY <1>2, <1>3, InListCounts
<1>5. CASE list[i].qty > 1
  <2>1. /\ DOMAIN new = DOMAIN list /\ new[i].item = list[i].item
        /\ new[i].qty = list[i].qty - 1
        /\ \A k \in DOMAIN list \ {i} : new[k] = list[k]
    BY <1>1, <1>5, ListLowered
  <2>2. S = T
    BY <1>2, <2>1 DEF Slot
  <2>3. \A k \in S \ {i} : g[k] = f[k]
    BY <1>2, <1>3, <2>1 DEF Slot, Quantities
  <2>4. CASE any = list[i].item
    <3>1. i \in S /\ g[i] = f[i] - 1 /\ f[i] \in Int
      BY <1>2, <1>3, <1>4, <2>1, <2>4 DEF Quantities, Ints, Slot
    <3>2. SumFunctionOnSet(g, S) = (SumFunctionOnSet(f, S) + g[i]) - f[i]
      BY <1>4, <2>2, <2>3, <3>1, SumOfChanged
    <3>3. SumFunctionOnSet(g, S) = SumFunctionOnSet(f, S) - 1
      BY <1>4, <3>1, <3>2
    <3> QED
      BY <1>1, <1>4, <2>2, <2>4, <3>3 DEF One
  <2>5. CASE any # list[i].item
    <3>1. \A k \in S : g[k] = f[k]
      BY <1>2, <2>3, <2>5 DEF Slot
    <3>2. SumFunctionOnSet(f, S) = SumFunctionOnSet(g, S)
      BY <1>4, <3>1, SumOfSame
    <3> QED
      BY <1>1, <1>4, <2>2, <2>5, <3>2 DEF One
  <2> QED
    BY <2>4, <2>5
<1>6. CASE ~(list[i].qty > 1)
  <2>1. /\ DOMAIN list = 1 .. Len(list) /\ Len(list) \in Nat /\ i \in Nat \ {0}
        /\ list[i].qty = 1 /\ DOMAIN new = 1 .. Len(list) - 1
        /\ \A k \in 1 .. Len(list) - 1 : new[k] = IF k < i THEN list[k] ELSE list[k + 1]
    <3>1. /\ DOMAIN list = 1 .. Len(list) /\ Len(list) \in Nat /\ i \in Nat \ {0}
          /\ list[i].qty \in Nat \ {0}
      BY ListFields
    <3>2. list[i].qty = 1
      BY <1>6, <3>1
    <3> QED
      BY <1>1, <1>6, <3>1, <3>2, ListShorter
  <2>2. PICK pi : pi = [k \in T |-> IF k < i THEN k ELSE k + 1]
    OBVIOUS
  <2>3. ASSUME NEW k \in T
        PROVE  pi[k] \in S \ {i} /\ f[pi[k]] = g[k]
    <3>1. k \in 1 .. Len(list) - 1 /\ new[k].item = any
      BY <1>2, <2>1 DEF Slot
    <3>2. pi[k] \in DOMAIN list \ {i} /\ new[k] = list[pi[k]]
      BY <2>1, <2>2, <3>1
    <3> QED
      BY <1>2, <1>3, <2>1, <3>1, <3>2 DEF Slot, Quantities
  <2>4. ASSUME NEW j \in S \ {i}
        PROVE  \E k \in T : pi[k] = j
    <3>1. j \in 1 .. Len(list) /\ list[j].item = any /\ j # i
      BY <1>2, <2>1 DEF Slot
    <3>2. PICK k : k = IF j < i THEN j ELSE j - 1
      OBVIOUS
    <3>3. k \in 1 .. Len(list) - 1 /\ (IF k < i THEN k ELSE k + 1) = j
      BY <2>1, <3>1, <3>2
    <3>4. k \in T
      BY <1>2, <2>1, <3>1, <3>3 DEF Slot
    <3> QED
      BY <2>2, <3>3, <3>4
  <2>5. {pi[k] : k \in T} = S \ {i}
    BY <2>3, <2>4
  <2>6. \A k, l \in T : pi[k] = pi[l] => k = l
    <3>1. T \subseteq 1 .. Len(list) - 1
      BY <1>2, <2>1 DEF Slot
    <3> QED
      BY <2>1, <2>2, <3>1
  <2>7. SumFunctionOnSet(g, T) = SumFunctionOnSet(f, S \ {i})
    BY <1>4, <2>3, <2>5, <2>6, SumOfOthers
  <2>8. CASE any = list[i].item
    <3>1. i \in S /\ f[i] = 1
      BY <1>2, <1>3, <2>1, <2>8 DEF Slot, Quantities
    <3>2. SumFunctionOnSet(f, S) = f[i] + SumFunctionOnSet(f, S \ {i})
      BY <1>4, <3>1, SumWithout
    <3>3. SumFunctionOnSet(f, S \ {i}) \in Int
      <4>1. IsFiniteSet(S \ {i}) /\ Ints(f, S \ {i})
        BY <1>4, FS_Subset DEF Ints
      <4> QED
        BY <4>1, SumIsInt
    <3>4. SumFunctionOnSet(g, T) = SumFunctionOnSet(f, S) - 1
      BY <2>7, <3>1, <3>2, <3>3
    <3> QED
      BY <1>1, <1>4, <2>8, <3>4 DEF One
  <2>9. CASE any # list[i].item
    <3>1. S \ {i} = S
      BY <1>2, <2>9 DEF Slot
    <3> QED
      BY <1>1, <1>4, <2>7, <2>9, <3>1 DEF One
  <2> QED
    BY <2>8, <2>9
<1> QED
  BY <1>5, <1>6

----------------------------------------------------------------------------
(* States of requests.                                                     *)

LEMMA StateFields ==
  ASSUME NEW x \in States
  PROVE  /\ x.does \in {"take entry", "take target", "take"} =>
              x.e \in 1 .. made /\ x.from \in Places /\ x.to \in Pcs
         /\ x.does \in {"transfer entry", "transfer"} =>
              x.e \in 1 .. made /\ x.from \in Places /\ x.to \in Places
         /\ x.does = "take" => x.qty \in Nat \ {0} /\ x.item \in Items /\ x.list \in Lists
         /\ x.does \in {"remains", "despawn"} => x.from \in bags
         /\ x.does \in {"drop row", "drop"} => x.to \in Pcs /\ x.i \in Nat \ {0}
         /\ x.does = "drop" => x.list \in Lists
         /\ x.does \in {"enrich", "rewrite"} =>
              x.to \in Pcs /\ x.list \in Lists /\ x.fresh \in BOOLEAN
         /\ x.does \in {"enrich", "rewrite"} =>
              x \in [does : {"enrich", "rewrite"}, to : Pcs, list : Lists, fresh : BOOLEAN]
         /\ x.does \in {"take entry", "take target"} =>
              x \in [does : {"take entry", "take target"}, e : 1 .. made, from : Places, to : Pcs]
         /\ x.does \in {"transfer entry", "transfer"} =>
              x \in [does : {"transfer entry", "transfer"}, e : 1 .. made, from : Places, to : Places]
         /\ x.does \in {"remains", "despawn"} => x \in [does : {"remains", "despawn"}, from : bags]
         /\ x.does = "idle" => x = Idle
         /\ x.does \in {"idle", "take entry", "take target", "take", "transfer entry", "transfer",
                        "remains", "despawn", "drop row", "drop", "enrich", "rewrite"}
<1>1. CASE x = Idle
  BY <1>1 DEF Idle
<1>2. CASE x \in [does : {"take entry", "take target"}, e : 1 .. made, from : Places, to : Pcs]
  BY <1>2
<1>3. CASE x \in [does : {"take"}, e : 1 .. made, from : Places, to : Pcs,
                  qty : Nat \ {0}, item : Items, list : Lists]
  BY <1>3
<1>4. CASE x \in [does : {"transfer entry", "transfer"}, e : 1 .. made, from : Places, to : Places]
  BY <1>4
<1>5. CASE x \in [does : {"remains", "despawn"}, from : bags]
  BY <1>5
<1>6. CASE x \in [does : {"drop row"}, to : Pcs, i : Nat \ {0}]
  BY <1>6
<1>7. CASE x \in [does : {"drop"}, to : Pcs, i : Nat \ {0}, list : Lists]
  BY <1>7
<1>8. CASE x \in [does : {"enrich", "rewrite"}, to : Pcs, list : Lists, fresh : BOOLEAN]
  BY <1>8
<1> QED
  BY <1>1, <1>2, <1>3, <1>4, <1>5, <1>6, <1>7, <1>8 DEF States

LEMMA MadeType ==
  ASSUME TypeOK
  PROVE  made \in Nat /\ MaxIds \in Nat /\ made <= MaxIds
BY LootAssumption DEF TypeOK

LEMMA MadeStays ==
  ASSUME TypeOK, made' = made, bags' = bags
  PROVE  made' \in Nat /\ made <= made' /\ bags \subseteq bags'
BY MadeType

LEMMA MadeIds ==
  ASSUME TypeOK
  PROVE  1 .. made \subseteq Ids
BY MadeType DEF Ids

LEMMA StatesGrow ==
  ASSUME TypeOK, made' \in Nat, made <= made', bags \subseteq bags'
  PROVE  States \subseteq States'
<1>1. made \in Nat
  BY LootAssumption DEF TypeOK
<1>2. 1 .. made \subseteq 1 .. made'
  BY <1>1
<1>3. Places \subseteq Places'
  BY DEF Places
<1> QED
  BY <1>2, <1>3, ZenonT(40) DEF States

(* What the requests of S still do and know after a step of another.       *)
Kept(S) ==
  \A q \in S :
    /\ req'[q].does = req[q].does
    /\ ~Rewriting(q) => req'[q] = req[q]
    /\ Rewriting(q) =>
         /\ req'[q] \in States' /\ req'[q].to = req[q].to /\ req'[q].list = req[q].list
         /\ req'[q].fresh => req[q].fresh /\ inventory'[req[q].to] = inventory[req[q].to]

LEMMA GoesEffect ==
  ASSUME TypeOK, made' \in Nat, made <= made', bags \subseteq bags', inventory' = inventory,
         NEW r \in Requests, NEW next \in States', Goes(r, next)
  PROVE  req' \in [Requests -> States'] /\ req'[r] = next /\ Kept(Requests \ {r})
<1>1. req \in [Requests -> States] /\ States \subseteq States'
  BY StatesGrow DEF TypeOK
<1>2. req' = [req EXCEPT ![r] = next]
  BY DEF Goes
<1>3. req'[r] = next /\ \A q \in Requests \ {r} : req'[q] = req[q]
  BY <1>1, <1>2
<1>4. req' \in [Requests -> States']
  BY <1>1, <1>2
<1> QED
  BY <1>1, <1>3, <1>4 DEF Kept

LEMMA WriteRowEffect ==
  ASSUME TypeOK, made' \in Nat, made <= made', bags \subseteq bags',
         NEW r \in Requests, NEW next \in States', NEW c \in Pcs, NEW list \in Lists,
         WriteRow(r, c, list, next)
  PROVE  /\ req' \in [Requests -> States'] /\ req'[r] = next /\ Kept(Requests \ {r})
         /\ inventory' = [inventory EXCEPT ![c] = list]
         /\ inventory'[c] = list /\ \A d \in Pcs \ {c} : inventory'[d] = inventory[d]
<1>1. req \in [Requests -> States] /\ States \subseteq States' /\ inventory \in [Pcs -> Lists]
  BY StatesGrow DEF TypeOK
<1>2. inventory' = [inventory EXCEPT ![c] = list] /\ req' = [Written(c) EXCEPT ![r] = next]
  BY DEF WriteRow
<1>3. inventory'[c] = list /\ \A d \in Pcs \ {c} : inventory'[d] = inventory[d]
  BY <1>1, <1>2
<1> DEFINE W == Written(c)
<1>4. /\ W = [q \in Requests |-> W[q]]
      /\ \A q \in Requests :
           W[q] = IF req[q].does \in {"enrich", "rewrite"} /\ req[q].to = c
                    THEN [req[q] EXCEPT !.fresh = FALSE] ELSE req[q]
  BY DEF Written
<1>5. ASSUME NEW q \in Requests, Rewriting(q)
      PROVE  /\ [req[q] EXCEPT !.fresh = FALSE] \in States
             /\ [req[q] EXCEPT !.fresh = FALSE].does = req[q].does
             /\ [req[q] EXCEPT !.fresh = FALSE].to = req[q].to
             /\ [req[q] EXCEPT !.fresh = FALSE].list = req[q].list
             /\ ~[req[q] EXCEPT !.fresh = FALSE].fresh
             /\ req[q].to \in Pcs
  <2>1. req[q] \in [does : {"enrich", "rewrite"}, to : Pcs, list : Lists, fresh : BOOLEAN]
    BY <1>1, <1>5, StateFields DEF Rewriting
  <2>2. [req[q] EXCEPT !.fresh = FALSE] \in
          [does : {"enrich", "rewrite"}, to : Pcs, list : Lists, fresh : BOOLEAN]
    BY <2>1
  <2> QED
    BY <2>1, <2>2 DEF States
<1> HIDE DEF W
<1>6. req'[r] = next /\ \A q \in Requests \ {r} : req'[q] = W[q]
  BY <1>2, <1>4 DEF W
<1>7. \A q \in Requests : W[q] \in States
  BY <1>1, <1>4, <1>5 DEF Rewriting
<1>8. req' \in [Requests -> States']
  <2>1. req' = [q \in Requests |-> IF q = r THEN next ELSE W[q]]
    BY <1>2, <1>4 DEF W
  <2> QED
    BY <1>1, <1>7, <2>1
<1>9. ASSUME NEW q \in Requests \ {r}
      PROVE  /\ req'[q].does = req[q].does
             /\ ~Rewriting(q) => req'[q] = req[q]
             /\ Rewriting(q) =>
                  /\ req'[q] \in States' /\ req'[q].to = req[q].to /\ req'[q].list = req[q].list
                  /\ req'[q].fresh => req[q].fresh /\ inventory'[req[q].to] = inventory[req[q].to]
  <2>1. CASE ~Rewriting(q)
    BY <1>4, <1>6, <2>1 DEF Rewriting
  <2>2. CASE Rewriting(q) /\ req[q].to = c
    <3>1. req'[q] = [req[q] EXCEPT !.fresh = FALSE]
      BY <1>4, <1>6, <2>2 DEF Rewriting
    <3>2. /\ [req[q] EXCEPT !.fresh = FALSE] \in States'
          /\ [req[q] EXCEPT !.fresh = FALSE].does = req[q].does
          /\ [req[q] EXCEPT !.fresh = FALSE].to = req[q].to
          /\ [req[q] EXCEPT !.fresh = FALSE].list = req[q].list
          /\ ~[req[q] EXCEPT !.fresh = FALSE].fresh
      BY <1>1, <1>5, <2>2
    <3> QED
      BY <2>2, <3>1, <3>2
  <2>3. CASE Rewriting(q) /\ req[q].to # c
    BY <1>3, <1>4, <1>5, <1>6, <1>8, <2>3 DEF Rewriting
  <2> QED
    BY <2>1, <2>2, <2>3
<1> QED
  BY <1>2, <1>3, <1>6, <1>8, <1>9 DEF Kept

----------------------------------------------------------------------------
(* What the others have locked stays as they have read it.                 *)

\* At most one request is not in S.
Rest(S) == \A q, r \in Requests \ S : q = r

LEMMA EntryLocksKept ==
  ASSUME EntryLocks, NEW S \in SUBSET Requests, Rest(S), Kept(S),
         \A q \in S : HasEntry(q) => entry'[req[q].e] = entry[req[q].e],
         \A r \in Requests \ S : HasEntry(r)' =>
           /\ entry'[req'[r].e].at = req'[r].from
           /\ req'[r].does = "take" =>
                entry'[req'[r].e].qty = req'[r].qty /\ entry'[req'[r].e].item = req'[r].item
           /\ \A q \in S : HasEntry(q) => req[q].e # req'[r].e
  PROVE  EntryLocks'
<1>1. \A q \in S : /\ HasEntry(q)' <=> HasEntry(q)
                   /\ HasEntry(q) => req'[q] = req[q]
  BY DEF Kept, HasEntry, Rewriting
<1>2. ASSUME NEW q \in S, HasEntry(q)'
      PROVE  /\ entry'[req'[q].e].at = req'[q].from
             /\ req'[q].does = "take" =>
                  entry'[req'[q].e].qty = req'[q].qty /\ entry'[req'[q].e].item = req'[q].item
  <2>1. q \in Requests /\ HasEntry(q) /\ req'[q] = req[q]
    BY <1>1, <1>2
  <2> QED
    BY <2>1 DEF EntryLocks
<1>3. ASSUME NEW q \in S, HasEntry(q)', NEW s \in S, HasEntry(s)', req'[s].e = req'[q].e
      PROVE  s = q
  BY <1>1, <1>3 DEF EntryLocks
<1>4. ASSUME NEW q \in Requests, HasEntry(q)', NEW s \in Requests, HasEntry(s)', req'[s].e = req'[q].e
      PROVE  s = q
  <2>1. CASE q \in S /\ s \in S
    BY <1>3, <1>4, <2>1
  <2>2. CASE q \notin S /\ s \notin S
    BY <2>2 DEF Rest
  <2>3. CASE q \in S /\ s \notin S
    BY <1>1, <1>4, <2>3
  <2>4. CASE q \notin S /\ s \in S
    BY <1>1, <1>4, <2>4
  <2> QED
    BY <2>1, <2>2, <2>3, <2>4
<1>5. ASSUME NEW q \in Requests, HasEntry(q)'
      PROVE  /\ entry'[req'[q].e].at = req'[q].from
             /\ req'[q].does = "take" =>
                  entry'[req'[q].e].qty = req'[q].qty /\ entry'[req'[q].e].item = req'[q].item
  BY <1>2, <1>5
<1> QED
  BY <1>4, <1>5 DEF EntryLocks

LEMMA RowLocksKept ==
  ASSUME RowLocks, NEW S \in SUBSET Requests, Rest(S), Kept(S),
         \A q \in S : HasRow(q) => inventory'[req[q].to] = inventory[req[q].to],
         \A r \in Requests \ S : HasRow(r)' =>
           /\ inventory'[req'[r].to] = req'[r].list
           /\ req'[r].does = "drop" => req'[r].i \in DOMAIN req'[r].list
           /\ \A q \in S : HasRow(q) => req[q].to # req'[r].to
  PROVE  RowLocks'
<1>1. \A q \in S : /\ HasRow(q)' <=> HasRow(q)
                   /\ HasRow(q) => req'[q] = req[q]
  BY DEF Kept, HasRow, Rewriting
<1>2. ASSUME NEW q \in S, HasRow(q)'
      PROVE  /\ inventory'[req'[q].to] = req'[q].list
             /\ req'[q].does = "drop" => req'[q].i \in DOMAIN req'[q].list
  <2>1. q \in Requests /\ HasRow(q) /\ req'[q] = req[q]
    BY <1>1, <1>2
  <2> QED
    BY <2>1 DEF RowLocks
<1>3. ASSUME NEW q \in S, HasRow(q)', NEW s \in S, HasRow(s)', req'[s].to = req'[q].to
      PROVE  s = q
  BY <1>1, <1>3 DEF RowLocks
<1>4. ASSUME NEW q \in Requests, HasRow(q)', NEW s \in Requests, HasRow(s)', req'[s].to = req'[q].to
      PROVE  s = q
  <2>1. CASE q \in S /\ s \in S
    BY <1>3, <1>4, <2>1
  <2>2. CASE q \notin S /\ s \notin S
    BY <2>2 DEF Rest
  <2>3. CASE q \in S /\ s \notin S
    BY <1>1, <1>4, <2>3
  <2>4. CASE q \notin S /\ s \in S
    BY <1>1, <1>4, <2>4
  <2> QED
    BY <2>1, <2>2, <2>3, <2>4
<1>5. ASSUME NEW q \in Requests, HasRow(q)'
      PROVE  /\ inventory'[req'[q].to] = req'[q].list
             /\ req'[q].does = "drop" => req'[q].i \in DOMAIN req'[q].list
  BY <1>2, <1>5
<1> QED
  BY <1>4, <1>5 DEF RowLocks

LEMMA ReadsKept ==
  ASSUME Reads, NEW S \in SUBSET Requests, Kept(S),
         \A r \in Requests \ S : Rewriting(r)' =>
           /\ OneStack(Start[req'[r].to]) => OneStack(req'[r].list)
           /\ req'[r].fresh => inventory'[req'[r].to] = req'[r].list
  PROVE  Reads'
<1>1. ASSUME NEW q \in S, Rewriting(q)'
      PROVE  /\ OneStack(Start[req'[q].to]) => OneStack(req'[q].list)
             /\ req'[q].fresh => inventory'[req'[q].to] = req'[q].list
  <2>1. q \in Requests /\ Rewriting(q)
    BY <1>1 DEF Kept, Rewriting
  <2>2. /\ req'[q].to = req[q].to /\ req'[q].list = req[q].list
        /\ req'[q].fresh => req[q].fresh /\ inventory'[req[q].to] = inventory[req[q].to]
    BY <2>1 DEF Kept
  <2>3. /\ OneStack(Start[req[q].to]) => OneStack(req[q].list)
        /\ req[q].fresh => inventory[req[q].to] = req[q].list
    BY <2>1 DEF Reads
  <2> QED
    BY <2>2, <2>3
<1>2. \A q \in Requests : Rewriting(q)' =>
        /\ OneStack(Start[req'[q].to]) => OneStack(req'[q].list)
        /\ req'[q].fresh => inventory'[req'[q].to] = req'[q].list
  BY <1>1
<1> QED
  BY <1>2 DEF Reads

----------------------------------------------------------------------------
(* Numbers for bags.                                                       *)

LEMMA BudgetKept ==
  ASSUME TypeOK, Budget, made' = made, NEW S \in SUBSET Requests, Kept(S),
         \A r \in Requests \ S : r \in Dropping' => r \in Dropping
  PROVE  Budget'
<1>1. Dropping' \in SUBSET Dropping
  BY DEF Kept, Dropping
<1>2. IsFiniteSet(Dropping)
  BY LootAssumption, FS_Subset DEF Dropping
<1>3. /\ Cardinality(Dropping') <= Cardinality(Dropping)
      /\ Cardinality(Dropping') \in Nat /\ Cardinality(Dropping) \in Nat
  BY <1>1, <1>2, FS_Subset, FS_CardinalityType
<1>4. made \in Nat /\ MaxIds \in Nat
  BY LootAssumption DEF TypeOK
<1> QED
  BY <1>3, <1>4 DEF Budget

LEMMA BudgetTaken ==
  ASSUME TypeOK, made' = made, made + Cardinality(Dropping) < MaxIds,
         NEW r \in Requests, Kept(Requests \ {r})
  PROVE  Budget'
<1>1. Dropping' \in SUBSET (Dropping \cup {r})
  BY DEF Kept, Dropping
<1>2. IsFiniteSet(Dropping) /\ Cardinality(Dropping) \in Nat
  BY LootAssumption, FS_Subset, FS_CardinalityType DEF Dropping
<1>3. /\ IsFiniteSet(Dropping \cup {r})
      /\ Cardinality(Dropping \cup {r}) <= Cardinality(Dropping) + 1
      /\ Cardinality(Dropping \cup {r}) \in Nat
  <2>1. CASE r \in Dropping
    <3>1. Dropping \cup {r} = Dropping
      BY <2>1
    <3>2. Cardinality(Dropping \cup {r}) = Cardinality(Dropping)
      BY <3>1
    <3>3. IsFiniteSet(Dropping \cup {r})
      BY <1>2, <3>1
    <3>4. Cardinality(Dropping \cup {r}) \in Nat
      BY <1>2, <3>2
    <3> QED
      BY <1>2, <3>2, <3>3, <3>4
  <2>2. CASE r \notin Dropping
    <3>1. IsFiniteSet(Dropping \cup {r}) /\ Cardinality(Dropping \cup {r}) = Cardinality(Dropping) + 1
      BY <1>2, <2>2, FS_AddElement
    <3> QED
      BY <1>2, <3>1
  <2> QED
    BY <2>1, <2>2
<1>4. Cardinality(Dropping') <= Cardinality(Dropping \cup {r}) /\ Cardinality(Dropping') \in Nat
  BY <1>1, <1>3, FS_Subset, FS_CardinalityType
<1>5. made \in Nat /\ MaxIds \in Nat
  BY LootAssumption DEF TypeOK
<1> QED
  BY <1>2, <1>3, <1>4, <1>5 DEF Budget

LEMMA BudgetSpent ==
  ASSUME TypeOK, Budget, made' = made + 1,
         NEW r \in Dropping, r \notin Dropping', Kept(Requests \ {r})
  PROVE  Budget' /\ made + 1 <= MaxIds
<1>1. Dropping' \in SUBSET (Dropping \ {r})
  BY DEF Kept, Dropping
<1>2. IsFiniteSet(Dropping) /\ Cardinality(Dropping) \in Nat
  BY LootAssumption, FS_Subset, FS_CardinalityType DEF Dropping
<1>3. /\ IsFiniteSet(Dropping \ {r})
      /\ Cardinality(Dropping \ {r}) = Cardinality(Dropping) - 1
      /\ Cardinality(Dropping \ {r}) \in Nat
  BY <1>2, FS_RemoveElement, FS_CardinalityType
<1>4. Cardinality(Dropping') <= Cardinality(Dropping \ {r}) /\ Cardinality(Dropping') \in Nat
  BY <1>1, <1>3, FS_Subset, FS_CardinalityType
<1>5. made \in Nat /\ MaxIds \in Nat
  BY LootAssumption DEF TypeOK
<1> QED
  BY <1>2, <1>3, <1>4, <1>5 DEF Budget

----------------------------------------------------------------------------
(* Every step keeps the invariant.                                         *)

LEMMA DropsAreTyped ==
  ASSUME RowLocks, NEW r \in Requests, Does(r, "drop")
  PROVE  req[r].i \in DOMAIN inventory[req[r].to]
BY DEF RowLocks, HasRow, Does

\* Steps that move a request on and neither a row nor an entry; a token may go,
\* and a bag may be left behind.
LEMMA StillStep ==
  ASSUME LootInv, NEW r \in Requests, NEW next \in States, Goes(r, next),
         UNCHANGED <<inventory, entry, made, bags, edits, ledger, blind, late>>,
         spilled' \subseteq bags, token' \subseteq token,
         next.does \in {"take target", "take", "transfer"} =>
           /\ entry[next.e].at = next.from
           /\ next.does = "take" =>
                entry[next.e].qty = next.qty /\ entry[next.e].item = next.item
           /\ \A q \in Requests \ {r} : HasEntry(q) => req[q].e # next.e,
         next.does \in {"take", "drop"} =>
           /\ inventory[next.to] = next.list
           /\ next.does = "drop" => next.i \in DOMAIN next.list
           /\ \A q \in Requests \ {r} : HasRow(q) => req[q].to # next.to,
         next.does \in {"enrich", "rewrite"} =>
           /\ OneStack(Start[next.to]) => OneStack(next.list)
           /\ inventory[next.to] = next.list,
         next.does \in {"drop row", "drop"} => r \in Dropping \/ made + Cardinality(Dropping) < MaxIds
  PROVE  LootInv'
<1> DEFINE S == Requests \ {r}
<1>1. TypeOK /\ EntryLocks /\ RowLocks /\ Reads /\ Budget
  BY DEF LootInv
<1>2. /\ inventory' = inventory /\ entry' = entry /\ made' = made /\ bags' = bags /\ edits' = edits
      /\ ledger' = ledger /\ blind' = blind /\ late' = late
  OBVIOUS
<1>3. States' = States
  BY <1>2 DEF States, Places
<1>4. made' \in Nat /\ made <= made' /\ bags \subseteq bags'
  BY <1>1, <1>2, MadeStays
<1>5. req' \in [Requests -> States'] /\ req'[r] = next /\ Kept(S)
  BY <1>1, <1>2, <1>3, <1>4, GoesEffect
<1>6. Requests \ S = {r} /\ Rest(S)
  BY DEF Rest
<1>7. EntryLocks'
  <2>1. HasEntry(r)' => next.does \in {"take target", "take", "transfer"}
    BY <1>5 DEF HasEntry
  <2> QED
    BY <1>1, <1>2, <1>5, <1>6, <2>1, EntryLocksKept
<1>8. RowLocks'
  <2>1. HasRow(r)' => next.does \in {"take", "drop"}
    BY <1>5 DEF HasRow
  <2> QED
    BY <1>1, <1>2, <1>5, <1>6, <2>1, RowLocksKept
<1>9. Reads'
  <2>1. Rewriting(r)' => next.does \in {"enrich", "rewrite"}
    BY <1>5 DEF Rewriting
  <2> QED
    BY <1>1, <1>2, <1>5, <1>6, <2>1, ReadsKept
<1>10. Budget'
  <2>1. CASE r \in Dropping' => r \in Dropping
    BY <1>1, <1>2, <1>5, <1>6, <2>1, BudgetKept
  <2>2. CASE ~(r \in Dropping' => r \in Dropping)
    <3>1. next.does \in {"drop row", "drop"}
      BY <1>5, <2>2 DEF Dropping
    <3> QED
      BY <1>1, <1>2, <1>5, <2>2, <3>1, BudgetTaken
  <2> QED
    BY <2>1, <2>2
<1>11. TypeOK'
  BY <1>1, <1>2, <1>5, <1>8 DEF TypeOK, Lists, Places, Does, RowLocks, HasRow
<1> QED
  BY <1>7, <1>8, <1>9, <1>10, <1>11 DEF LootInv

\* Steps that ask, read, lock, give up or take a token away.
LEMMA QuietStep ==
  ASSUME LootInv, NEW r \in Requests, NEW next \in States, Goes(r, next),
         UNCHANGED <<inventory, entry, made, bags, edits, history>>, token' \subseteq token,
         next.does \in {"take target", "take", "transfer"} =>
           /\ entry[next.e].at = next.from
           /\ next.does = "take" =>
                entry[next.e].qty = next.qty /\ entry[next.e].item = next.item
           /\ \A q \in Requests \ {r} : HasEntry(q) => req[q].e # next.e,
         next.does \in {"take", "drop"} =>
           /\ inventory[next.to] = next.list
           /\ next.does = "drop" => next.i \in DOMAIN next.list
           /\ \A q \in Requests \ {r} : HasRow(q) => req[q].to # next.to,
         next.does \in {"enrich", "rewrite"} =>
           /\ OneStack(Start[next.to]) => OneStack(next.list)
           /\ inventory[next.to] = next.list,
         next.does \in {"drop row", "drop"} => r \in Dropping \/ made + Cardinality(Dropping) < MaxIds
  PROVE  LootInv'
<1>1. UNCHANGED <<inventory, entry, made, bags, edits, ledger, blind, late>> /\ spilled' \subseteq bags
  BY DEF LootInv, TypeOK, history
<1> QED
  BY <1>1, StillStep

LEMMA IdleStep ==
  ASSUME LootInv, NEW r \in Requests, Goes(r, Idle),
         UNCHANGED <<inventory, entry, made, bags, edits, history>>, token' \subseteq token
  PROVE  LootInv'
<1>1. Idle \in States
  BY DEF States
<1>2. Idle.does = "idle"
  BY DEF Idle
<1> QED
  BY <1>1, <1>2, QuietStep

LEMMA EntryFields ==
  ASSUME TypeOK, NEW e \in Ids, entry[e] # NoEntry
  PROVE  /\ e \in 1 .. made /\ entry[e] \in [at : Places, item : Items, qty : Nat \ {0}]
         /\ entry[e].at \in Places /\ entry[e].item \in Items /\ entry[e].qty \in Nat \ {0}
<1>1. entry[e] \in [at : Places, item : Items, qty : Nat \ {0}]
  BY DEF TypeOK
<1>2. e \in Nat /\ e >= 1 /\ made \in Nat
  BY MadeType, LootAssumption DEF Ids
<1>3. e <= made
  BY DEF TypeOK
<1> QED
  BY <1>1, <1>2, <1>3

LEMMA PlacesAreNotZero ==
  ASSUME TypeOK
  PROVE  0 \notin Places /\ \A e \in Ids : entry[e].at # 0 => entry[e] # NoEntry
<1>1. 0 \notin Pcs
  BY LootAssumption
<1>2. 0 \notin bags
  BY MadeType DEF TypeOK
<1> QED
  BY <1>1, <1>2 DEF Places, NoEntry

LEMMA AskTakeKeeps ==
  ASSUME LootInv, NEW r \in Requests, NEW e \in Ids, NEW to \in Pcs, AskTake(r, e, to)
  PROVE  LootInv'
<1> DEFINE next == [does |-> "take entry", e |-> e, from |-> entry[e].at, to |-> to]
<1>1. entry[e] # NoEntry /\ Goes(r, next) /\ token' \subseteq token
      /\ UNCHANGED <<inventory, entry, made, bags, edits, history>>
  BY DEF AskTake
<1>2. e \in 1 .. made /\ entry[e].at \in Places
  BY <1>1, EntryFields DEF LootInv
<1>3. next \in States /\ next.does = "take entry"
  BY <1>2 DEF States
<1> HIDE DEF next
<1> QED
  BY <1>1, <1>3, QuietStep

LEMMA TakeEntryKeeps ==
  ASSUME LootInv, NEW r \in Requests, TakeEntry(r)
  PROVE  LootInv'
<1>1. /\ Does(r, "take entry") /\ EntryFree(req[r].e) /\ token' \subseteq token
      /\ UNCHANGED <<inventory, entry, made, bags, edits, history>>
      /\ IF entry[req[r].e].at = req[r].from
           THEN Goes(r, [req[r] EXCEPT !.does = "take target"]) ELSE Goes(r, Idle)
  BY DEF TakeEntry, Ends
<1>2. req[r] \in States
  BY DEF LootInv, TypeOK
<1>3. CASE entry[req[r].e].at = req[r].from
  <2> DEFINE next == [req[r] EXCEPT !.does = "take target"]
  <2>1. req[r] \in [does : {"take entry", "take target"}, e : 1 .. made, from : Places, to : Pcs]
    BY <1>1, <1>2, StateFields DEF Does
  <2>2. /\ next \in [does : {"take entry", "take target"}, e : 1 .. made, from : Places, to : Pcs]
        /\ next.does = "take target" /\ next.e = req[r].e /\ next.from = req[r].from
    BY <2>1
  <2>3. next \in States
    BY <2>2 DEF States
  <2>4. \A q \in Requests : HasEntry(q) => req[q].e # req[r].e
    BY <1>1 DEF EntryFree, HoldsEntry, HasEntry
  <2> HIDE DEF next
  <2> QED
    BY <1>1, <1>3, <2>2, <2>3, <2>4, QuietStep DEF next
<1>4. CASE entry[req[r].e].at # req[r].from
  BY <1>1, <1>4, IdleStep
<1> QED
  BY <1>3, <1>4

LEMMA TakeTargetKeeps ==
  ASSUME LootInv, NEW r \in Requests, TakeTarget(r)
  PROVE  LootInv'
<1> DEFINE q == req[r]
           next == [does |-> "take", e |-> q.e, from |-> q.from, to |-> q.to,
                    qty |-> entry[q.e].qty, item |-> entry[q.e].item, list |-> inventory[q.to]]
<1>1. /\ Does(r, "take target") /\ RowFree(q.to) /\ token' \subseteq token
      /\ UNCHANGED <<inventory, entry, made, bags, edits, history>> /\ Goes(r, next)
  BY DEF TakeTarget
<1>2. q.does = "take target" /\ q.e \in 1 .. made /\ q.from \in Places /\ q.to \in Pcs
  BY <1>1, StateFields DEF LootInv, TypeOK, Does
<1>3. entry[q.e].at = q.from /\ \A s \in Requests \ {r} : HasEntry(s) => req[s].e # q.e
  BY <1>2 DEF LootInv, EntryLocks, HasEntry
<1>4. q.e \in Ids /\ entry[q.e] # NoEntry
  <2>1. q.e \in Ids
    BY <1>2, MadeIds DEF LootInv
  <2> QED
    BY <1>2, <1>3, <2>1, PlacesAreNotZero DEF LootInv
<1>5. entry[q.e].item \in Items /\ entry[q.e].qty \in Nat \ {0} /\ inventory[q.to] \in Lists
  BY <1>2, <1>4, EntryFields DEF LootInv, TypeOK
<1>6. next \in States
  BY <1>2, <1>5 DEF States
<1>7. /\ next.does = "take" /\ next.e = q.e /\ next.from = q.from /\ next.to = q.to
      /\ next.qty = entry[q.e].qty /\ next.item = entry[q.e].item /\ next.list = inventory[q.to]
  OBVIOUS
<1>8. \A s \in Requests : HasRow(s) => req[s].to # q.to
  BY <1>1 DEF RowFree, HoldsRow, HasRow
<1> HIDE DEF next
<1> QED
  BY <1>1, <1>3, <1>6, <1>7, <1>8, QuietStep

LEMMA RemainsKeeps ==
  ASSUME LootInv, NEW r \in Requests, Remains(r)
  PROVE  LootInv'
<1>1. /\ Does(r, "remains") /\ token' \subseteq token
      /\ UNCHANGED <<inventory, entry, made, bags, edits, history>>
      /\ IF Within(req[r].from) = {}
           THEN Goes(r, [req[r] EXCEPT !.does = "despawn"]) ELSE Goes(r, Idle)
  BY DEF Remains, Ends
<1>2. CASE Within(req[r].from) = {}
  <2> DEFINE next == [req[r] EXCEPT !.does = "despawn"]
  <2>1. req[r] \in [does : {"remains", "despawn"}, from : bags]
    BY <1>1, StateFields DEF LootInv, TypeOK, Does
  <2>2. next \in [does : {"remains", "despawn"}, from : bags] /\ next.does = "despawn"
    BY <2>1
  <2>3. next \in States
    BY <2>2 DEF States
  <2> HIDE DEF next
  <2> QED
    BY <1>1, <1>2, <2>2, <2>3, QuietStep DEF next
<1>3. CASE Within(req[r].from) # {}
  BY <1>1, <1>3, IdleStep
<1> QED
  BY <1>2, <1>3

LEMMA DespawnKeeps ==
  ASSUME LootInv, NEW r \in Requests, Despawn(r)
  PROVE  LootInv'
<1>1. /\ UNCHANGED <<inventory, entry, made, bags, edits, history>>
      /\ Goes(r, Idle) /\ token' \subseteq token
  BY DEF Despawn, Ends
<1> QED
  BY <1>1, IdleStep

LEMMA FailKeeps ==
  ASSUME LootInv, NEW r \in Requests, Fail(r)
  PROVE  LootInv'
<1>1. /\ UNCHANGED <<inventory, entry, made, bags, edits, ledger, blind, late>>
      /\ Goes(r, Idle) /\ token' \subseteq token /\ spilled' \subseteq spilled \cup token'
  BY DEF Fail, Ends
<1>2. spilled' \subseteq bags
  BY <1>1 DEF LootInv, TypeOK
<1>3. Idle \in States /\ Idle.does = "idle"
  BY DEF States, Idle
<1> QED
  BY <1>1, <1>2, <1>3, StillStep

LEMMA AskTransferKeeps ==
  ASSUME LootInv, NEW r \in Requests, NEW e \in Ids, NEW to \in Places, AskTransfer(r, e, to)
  PROVE  LootInv'
<1> DEFINE next == [does |-> "transfer entry", e |-> e, from |-> entry[e].at, to |-> to]
<1>1. entry[e] # NoEntry /\ Goes(r, next) /\ token' \subseteq token
      /\ UNCHANGED <<inventory, entry, made, bags, edits, history>>
  BY DEF AskTransfer
<1>2. e \in 1 .. made /\ entry[e].at \in Places
  BY <1>1, EntryFields DEF LootInv
<1>3. next \in States /\ next.does = "transfer entry"
  BY <1>2 DEF States
<1> HIDE DEF next
<1> QED
  BY <1>1, <1>3, QuietStep

LEMMA TransferEntryKeeps ==
  ASSUME LootInv, NEW r \in Requests, TransferEntry(r)
  PROVE  LootInv'
<1>1. /\ Does(r, "transfer entry") /\ EntryFree(req[r].e) /\ token' \subseteq token
      /\ UNCHANGED <<inventory, entry, made, bags, edits, history>>
      /\ IF entry[req[r].e].at = req[r].from
           THEN Goes(r, [req[r] EXCEPT !.does = "transfer"]) ELSE Goes(r, Idle)
  BY DEF TransferEntry, Ends
<1>2. req[r] \in States
  BY DEF LootInv, TypeOK
<1>3. CASE entry[req[r].e].at = req[r].from
  <2> DEFINE next == [req[r] EXCEPT !.does = "transfer"]
  <2>1. req[r] \in [does : {"transfer entry", "transfer"}, e : 1 .. made, from : Places, to : Places]
    BY <1>1, <1>2, StateFields DEF Does
  <2>2. /\ next \in [does : {"transfer entry", "transfer"}, e : 1 .. made, from : Places, to : Places]
        /\ next.does = "transfer" /\ next.e = req[r].e /\ next.from = req[r].from
    BY <2>1
  <2>3. next \in States
    BY <2>2 DEF States
  <2>4. \A q \in Requests : HasEntry(q) => req[q].e # req[r].e
    BY <1>1 DEF EntryFree, HoldsEntry, HasEntry
  <2> HIDE DEF next
  <2> QED
    BY <1>1, <1>3, <2>2, <2>3, <2>4, QuietStep DEF next
<1>4. CASE entry[req[r].e].at # req[r].from
  BY <1>1, <1>4, IdleStep
<1> QED
  BY <1>3, <1>4

LEMMA AskDropKeeps ==
  ASSUME LootInv, NEW r \in Requests, NEW c \in Pcs, NEW i \in DOMAIN inventory[c], AskDrop(r, c, i)
  PROVE  LootInv'
<1> DEFINE next == [does |-> "drop row", to |-> c, i |-> i]
<1>1. Goes(r, next) /\ token' \subseteq token /\ made + Cardinality(Dropping) < MaxIds
      /\ UNCHANGED <<inventory, entry, made, bags, edits, history>>
  BY DEF AskDrop
<1>2. i \in Nat \ {0}
  <2>1. inventory[c] \in Seq(Stacks)
    BY DEF LootInv, TypeOK, Lists, Stacks
  <2>2. DOMAIN inventory[c] = 1 .. Len(inventory[c]) /\ Len(inventory[c]) \in Nat
    BY <2>1, LenProperties
  <2> QED
    BY <2>2
<1>3. next \in States /\ next.does = "drop row"
  BY <1>2 DEF States
<1> HIDE DEF next
<1> QED
  BY <1>1, <1>3, QuietStep

LEMMA DropRowKeeps ==
  ASSUME LootInv, NEW r \in Requests, DropRow(r)
  PROVE  LootInv'
<1> DEFINE q == req[r]
           next == [does |-> "drop", to |-> q.to, i |-> q.i, list |-> inventory[q.to]]
<1>1. /\ Does(r, "drop row") /\ RowFree(q.to) /\ token' \subseteq token
      /\ UNCHANGED <<inventory, entry, made, bags, edits, history>>
      /\ IF q.i \in DOMAIN inventory[q.to] THEN Goes(r, next) ELSE Goes(r, Idle)
  BY DEF DropRow, Ends
<1>2. CASE q.i \in DOMAIN inventory[q.to]
  <2>1. q.does = "drop row" /\ q.to \in Pcs /\ q.i \in Nat \ {0} /\ inventory[q.to] \in Lists
    BY <1>1, StateFields DEF LootInv, TypeOK, Does
  <2>2. next \in States
    BY <2>1 DEF States
  <2>3. next.does = "drop" /\ next.to = q.to /\ next.i = q.i /\ next.list = inventory[q.to]
    OBVIOUS
  <2>4. \A s \in Requests : HasRow(s) => req[s].to # q.to
    BY <1>1 DEF RowFree, HoldsRow, HasRow
  <2>5. r \in Dropping
    BY <2>1 DEF Dropping
  <2> HIDE DEF next
  <2> QED
    BY <1>1, <1>2, <2>2, <2>3, <2>4, <2>5, QuietStep
<1>3. CASE q.i \notin DOMAIN inventory[q.to]
  BY <1>1, <1>3, IdleStep
<1> QED
  BY <1>2, <1>3

LEMMA ReadKeeps ==
  ASSUME LootInv, NEW r \in Requests, NEW c \in Pcs, NEW what \in {"enrich", "rewrite"}, Read(r, c, what)
  PROVE  LootInv'
<1> DEFINE next == [does |-> what, to |-> c, list |-> inventory[c], fresh |-> TRUE]
<1>1. Goes(r, next) /\ token' \subseteq token
      /\ UNCHANGED <<inventory, entry, made, bags, edits, history>>
  BY DEF Read
<1>2. inventory[c] \in Lists /\ (OneStack(Start[c]) => OneStack(inventory[c]))
  BY DEF LootInv, TypeOK
<1>3. next \in States
  BY <1>2 DEF States
<1>4. next.does \in {"enrich", "rewrite"} /\ next.to = c /\ next.list = inventory[c]
  OBVIOUS
<1> HIDE DEF next
<1> QED
  BY <1>1, <1>2, <1>3, <1>4, QuietStep

\* What a request has locked exists.
LEMMA HeldEntry ==
  ASSUME TypeOK, EntryLocks, NEW r \in Requests, HasEntry(r)
  PROVE  /\ req[r].e \in Ids /\ req[r].e <= made /\ req[r].from \in Places
         /\ entry[req[r].e].at = req[r].from /\ entry[req[r].e] # NoEntry
<1>1. req[r] \in States /\ made \in Nat /\ 1 .. made \subseteq Ids
  BY MadeType, MadeIds DEF TypeOK
<1>2. req[r].e \in 1 .. made /\ req[r].from \in Places
  BY <1>1, StateFields DEF HasEntry
<1>3. req[r].e \in Ids /\ req[r].e <= made
  BY <1>1, <1>2
<1>4. entry[req[r].e].at = req[r].from
  BY DEF EntryLocks
<1> QED
  BY <1>2, <1>3, <1>4, PlacesAreNotZero

LEMMA HeldRow ==
  ASSUME TypeOK, NEW r \in Requests, HasRow(r)
  PROVE  req[r].to \in Pcs /\ req[r].list \in Lists
<1>1. req[r] \in States
  BY DEF TypeOK
<1> QED
  BY <1>1, StateFields DEF HasRow

\* The last write of a request.
LEMMA LastStep ==
  ASSUME LootInv, NEW r \in Requests, Kept(Requests \ {r}), req'[r].does \in {"idle", "remains"},
         \A q \in Requests \ {r} : HasEntry(q) => entry'[req[q].e] = entry[req[q].e],
         \A q \in Requests \ {r} : HasRow(q) => inventory'[req[q].to] = inventory[req[q].to]
  PROVE  /\ EntryLocks' /\ RowLocks' /\ Reads'
         /\ made' = made => Budget'
<1> DEFINE S == Requests \ {r}
<1>1. TypeOK /\ EntryLocks /\ RowLocks /\ Reads /\ Budget
  BY DEF LootInv
<1>2. Requests \ S = {r} /\ Rest(S)
  BY DEF Rest
<1>3. ~HasEntry(r)' /\ ~HasRow(r)' /\ ~Rewriting(r)' /\ r \notin Dropping'
  BY DEF HasEntry, HasRow, Rewriting, Dropping
<1>4. EntryLocks'
  BY <1>1, <1>2, <1>3, EntryLocksKept
<1>5. RowLocks'
  BY <1>1, <1>2, <1>3, RowLocksKept
<1>6. Reads'
  BY <1>1, <1>2, <1>3, ReadsKept
<1>7. made' = made => Budget'
  BY <1>1, <1>2, <1>3, BudgetKept
<1> QED
  BY <1>4, <1>5, <1>6, <1>7

LEMMA TakeKeeps ==
  ASSUME LootInv, NEW r \in Requests, Take(r)
  PROVE  LootInv'
<1>0. PICK q, after :
        q = req[r] /\ after = IF q.from \in bags THEN [does |-> "remains", from |-> q.from] ELSE Idle
  OBVIOUS
<1>1. /\ Does(r, "take") /\ WriteRow(r, q.to, Added(q.list, q.item), after)
      /\ entry' = IF q.qty <= 1 THEN [entry EXCEPT ![q.e] = NoEntry]
                                ELSE [entry EXCEPT ![q.e].qty = @ - 1]
      /\ spilled' = spilled \ {q.from} /\ made' = made /\ bags' = bags /\ token' = token
      /\ edits' = edits /\ ledger' = ledger /\ blind' = blind /\ late' = late
  BY <1>0 DEF Take
<1>2. TypeOK /\ EntryLocks /\ RowLocks
  BY DEF LootInv
<1>3. /\ q.does = "take" /\ q.e \in Ids /\ q.from \in Places /\ q.to \in Pcs
      /\ q.qty \in Nat \ {0} /\ q.item \in Items /\ q.list \in Lists
  <2>1. q.does = "take" /\ q \in States
    BY <1>0, <1>1, <1>2 DEF TypeOK, Does
  <2> QED
    BY <1>2, <2>1, StateFields, MadeIds
<1>4. /\ inventory[q.to] = q.list
      /\ \A s \in Requests \ {r} : HasRow(s) => req[s].to # q.to
  BY <1>0, <1>2, <1>3 DEF RowLocks, HasRow
<1>5. /\ entry[q.e].at = q.from /\ entry[q.e].qty = q.qty
      /\ \A s \in Requests \ {r} : HasEntry(s) => req[s].e # q.e
  BY <1>0, <1>2, <1>3 DEF EntryLocks, HasEntry
<1>6. States' = States /\ after \in States /\ after.does \in {"idle", "remains"}
  BY <1>0, <1>1, <1>3 DEF States, Places, Idle
<1>7. /\ req' \in [Requests -> States'] /\ req'[r] = after /\ Kept(Requests \ {r})
      /\ inventory' = [inventory EXCEPT ![q.to] = Added(q.list, q.item)]
      /\ inventory'[q.to] = Added(q.list, q.item)
      /\ \A d \in Pcs \ {q.to} : inventory'[d] = inventory[d]
  <2>1. made' \in Nat /\ made <= made' /\ bags \subseteq bags'
    BY <1>1, <1>2, MadeStays
  <2>2. after \in States' /\ q.to \in Pcs /\ WriteRow(r, q.to, Added(q.list, q.item), after)
    BY <1>1, <1>3, <1>6
  <2>3. PICK list \in Lists : list = Added(q.list, q.item)
    BY <1>3, AddedList
  <2>4. PICK c \in Pcs : c = q.to
    BY <1>3
  <2>5. WriteRow(r, c, list, after) /\ after \in States'
    BY <2>2, <2>3, <2>4
  <2>6. /\ req' \in [Requests -> States'] /\ req'[r] = after /\ Kept(Requests \ {r})
        /\ inventory' = [inventory EXCEPT ![c] = list]
        /\ inventory'[c] = list /\ \A d \in Pcs \ {c} : inventory'[d] = inventory[d]
    BY <1>2, <2>1, <2>5, WriteRowEffect, ZenonT(40)
  <2> QED
    BY <2>3, <2>4, <2>6
<1>8. \A e \in Ids \ {q.e} : entry'[e] = entry[e]
  BY <1>1, <1>2, <1>3 DEF TypeOK
<1>9. EntryLocks' /\ RowLocks' /\ Reads' /\ Budget'
  <2>1. \A s \in Requests \ {r} : HasEntry(s) => entry'[req[s].e] = entry[req[s].e]
    BY <1>2, <1>5, <1>8, HeldEntry
  <2>2. \A s \in Requests \ {r} : HasRow(s) => inventory'[req[s].to] = inventory[req[s].to]
    BY <1>2, <1>4, <1>7, HeldRow
  <2>3. Kept(Requests \ {r})
    BY <1>7
  <2>4. req'[r].does \in {"idle", "remains"}
    BY <1>6, <1>7
  <2>5. EntryLocks' /\ RowLocks' /\ Reads' /\ (made' = made => Budget')
    BY <2>1, <2>2, <2>3, <2>4, LastStep
  <2> QED
    BY <1>1, <2>5
<1>10. TypeOK'
  <2>1. inventory' \in [Pcs -> Lists] /\ \A c \in Pcs : OneStack(Start[c]) => OneStack(inventory'[c])
    BY <1>2, <1>3, <1>4, <1>7, AddedList DEF TypeOK
  <2>2. entry[q.e] \in [at : Places, item : Items, qty : Nat \ {0}]
    BY <1>2, <1>3, <1>5, PlacesAreNotZero, EntryFields
  <2>3. entry' \in [Ids -> [at : Places, item : Items, qty : Nat \ {0}] \cup {NoEntry}]
    <3>1. CASE q.qty <= 1
      BY <1>1, <1>2, <3>1 DEF TypeOK
    <3>2. CASE ~(q.qty <= 1)
      <4> DEFINE less == [entry[q.e] EXCEPT !.qty = @ - 1]
      <4>1. entry[q.e].qty - 1 \in Nat \ {0}
        BY <1>3, <1>5, <3>2
      <4>2. less \in [at : Places, item : Items, qty : Nat \ {0}]
        BY <2>2, <4>1
      <4>3. entry' = [entry EXCEPT ![q.e] = less]
        BY <1>1, <3>2
      <4> HIDE DEF less
      <4> QED
        BY <1>2, <4>2, <4>3 DEF TypeOK
    <3> QED
      BY <3>1, <3>2
  <2>4. \A e \in Ids : entry'[e] # NoEntry => e <= made
    <3>1. q.e <= made
      BY <1>0, <1>2, <1>3, HeldEntry DEF HasEntry
    <3> QED
      BY <1>2, <1>8, <3>1 DEF TypeOK
  <2> QED
    BY <1>1, <1>2, <1>7, <1>9, <2>1, <2>3, <2>4 DEF TypeOK, Lists, Places, Does, RowLocks, HasRow
<1> QED
  BY <1>9, <1>10 DEF LootInv

LEMMA TransferKeeps ==
  ASSUME LootInv, NEW r \in Requests, Transfer(r)
  PROVE  LootInv'
<1>0. PICK q : q = req[r]
  OBVIOUS
<1>1. /\ Does(r, "transfer") /\ Goes(r, Idle)
      /\ entry' = [entry EXCEPT ![q.e].at = q.to]
      /\ PutInto(q.to) /\ OutOf(q.from, q.e)
      /\ inventory' = inventory /\ made' = made /\ bags' = bags /\ token' = token
      /\ edits' = edits /\ ledger' = ledger /\ blind' = blind
  BY <1>0 DEF Transfer, Ends
<1>2. TypeOK /\ EntryLocks /\ RowLocks
  BY DEF LootInv
<1>3. q.does = "transfer" /\ q.e \in Ids /\ q.from \in Places /\ q.to \in Places
  <2>1. q.does = "transfer" /\ q \in States
    BY <1>0, <1>1, <1>2 DEF TypeOK, Does
  <2> QED
    BY <1>2, <2>1, StateFields, MadeIds
<1>4. /\ q.e <= made /\ entry[q.e] # NoEntry
      /\ \A s \in Requests \ {r} : HasEntry(s) => req[s].e # q.e
  BY <1>0, <1>2, <1>3, HeldEntry DEF EntryLocks, HasEntry
<1>5. States' = States /\ Idle \in States /\ Idle.does = "idle"
  BY <1>1 DEF States, Places, Idle
<1>6. req' \in [Requests -> States'] /\ req'[r] = Idle /\ Kept(Requests \ {r})
  <2>1. made' \in Nat /\ made <= made' /\ bags \subseteq bags'
    BY <1>1, <1>2, MadeStays
  <2> QED
    BY <1>1, <1>2, <1>5, <2>1, GoesEffect
<1>7. \A e \in Ids \ {q.e} : entry'[e] = entry[e]
  BY <1>1, <1>2, <1>3 DEF TypeOK
<1>8. EntryLocks' /\ RowLocks' /\ Reads' /\ Budget'
  <2>1. \A s \in Requests \ {r} : HasEntry(s) => entry'[req[s].e] = entry[req[s].e]
    BY <1>2, <1>4, <1>7, HeldEntry
  <2>2. \A s \in Requests \ {r} : HasRow(s) => inventory'[req[s].to] = inventory[req[s].to]
    BY <1>1
  <2>3. Kept(Requests \ {r})
    BY <1>6
  <2>4. req'[r].does \in {"idle", "remains"}
    BY <1>5, <1>6
  <2>5. EntryLocks' /\ RowLocks' /\ Reads' /\ (made' = made => Budget')
    BY <2>1, <2>2, <2>3, <2>4, LastStep
  <2> QED
    BY <1>1, <2>5
<1>9. TypeOK'
  <2>1. entry' \in [Ids -> [at : Places, item : Items, qty : Nat \ {0}] \cup {NoEntry}]
    <3> DEFINE moved == [entry[q.e] EXCEPT !.at = q.to]
    <3>1. moved \in [at : Places, item : Items, qty : Nat \ {0}]
      BY <1>2, <1>3, <1>4, EntryFields
    <3>2. entry' = [entry EXCEPT ![q.e] = moved]
      BY <1>1
    <3> HIDE DEF moved
    <3> QED
      BY <1>2, <3>1, <3>2 DEF TypeOK
  <2>2. \A e \in Ids : entry'[e] # NoEntry => e <= made
    BY <1>2, <1>4, <1>7 DEF TypeOK
  <2>3. late' \subseteq bags /\ spilled' \subseteq bags
    BY <1>1, <1>2 DEF PutInto, OutOf, TypeOK
  <2> QED
    BY <1>1, <1>2, <1>6, <1>8, <2>1, <2>2, <2>3 DEF TypeOK, Lists, Places, Does, RowLocks, HasRow
<1> QED
  BY <1>8, <1>9 DEF LootInv

LEMMA DropKeeps ==
  ASSUME LootInv, NEW r \in Requests, Drop(r)
  PROVE  LootInv'
<1>0. PICK q, b : q = req[r] /\ b = made + 1
  OBVIOUS
<1>1. /\ Does(r, "drop") /\ WriteRow(r, q.to, Dropped(q.list, q.i), Idle)
      /\ made' = b /\ bags' = bags \cup {b} /\ token' = token \cup {b}
      /\ entry' = [entry EXCEPT ![b] = [at |-> b, item |-> q.list[q.i].item, qty |-> 1]]
      /\ edits' = edits /\ ledger' = ledger /\ blind' = blind /\ spilled' = spilled /\ late' = late
  BY <1>0 DEF Drop, history
<1>2. TypeOK /\ EntryLocks /\ RowLocks /\ Budget
  BY DEF LootInv
<1>3. q.does = "drop" /\ q.to \in Pcs /\ q.i \in Nat \ {0} /\ q.list \in Lists
  BY <1>0, <1>1, <1>2, StateFields DEF TypeOK, Does
<1>4. /\ inventory[q.to] = q.list /\ q.i \in DOMAIN q.list
      /\ \A s \in Requests \ {r} : HasRow(s) => req[s].to # q.to
  BY <1>0, <1>2, <1>3 DEF RowLocks, HasRow
<1>5. made \in Nat /\ made' \in Nat /\ made <= made' /\ made' = made + 1 /\ bags \subseteq bags'
  <2>1. made \in Nat
    BY <1>2, MadeType
  <2>2. made' = made + 1
    BY <1>0, <1>1
  <2>3. made' \in Nat /\ made <= made'
    BY <2>1, <2>2
  <2> QED
    BY <1>1, <2>1, <2>2, <2>3
<1>6. /\ Idle \in States' /\ Idle.does = "idle"
      /\ Places \subseteq Places' /\ b \in Places'
  BY <1>1 DEF States, Places, Idle
<1>7. /\ req' \in [Requests -> States'] /\ req'[r] = Idle /\ Kept(Requests \ {r})
      /\ inventory' = [inventory EXCEPT ![q.to] = Dropped(q.list, q.i)]
      /\ inventory'[q.to] = Dropped(q.list, q.i)
      /\ \A d \in Pcs \ {q.to} : inventory'[d] = inventory[d]
  <2>1. PICK list \in Lists : list = Dropped(q.list, q.i)
    BY <1>3, <1>4, DroppedList
  <2>2. PICK c \in Pcs, next \in States' : c = q.to /\ next = Idle
    BY <1>3, <1>6
  <2>3. WriteRow(r, c, list, next)
    BY <1>1, <2>1, <2>2
  <2>4. /\ req' \in [Requests -> States'] /\ req'[r] = next /\ Kept(Requests \ {r})
        /\ inventory' = [inventory EXCEPT ![c] = list]
        /\ inventory'[c] = list /\ \A d \in Pcs \ {c} : inventory'[d] = inventory[d]
    BY <1>2, <1>5, <2>3, WriteRowEffect, ZenonT(40)
  <2> QED
    BY <2>1, <2>2, <2>4
<1>8. Budget' /\ b \in Ids /\ b <= made'
  <2>1. r \in Dropping /\ r \notin Dropping'
    BY <1>0, <1>3, <1>6, <1>7 DEF Dropping
  <2>2. Budget' /\ made + 1 <= MaxIds
    BY <1>2, <1>5, <1>7, <2>1, BudgetSpent
  <2>3. MaxIds \in Nat
    BY LootAssumption
  <2>4. b \in 1 .. MaxIds /\ b <= b
    BY <1>0, <1>5, <2>2, <2>3
  <2> QED
    BY <1>1, <2>2, <2>4 DEF Ids
<1>9. /\ \A e \in Ids \ {b} : entry'[e] = entry[e]
      /\ \A e \in 1 .. made : e # b
  <2>1. \A e \in Ids \ {b} : entry'[e] = entry[e]
    BY <1>1, <1>2 DEF TypeOK
  <2>2. \A e \in 1 .. made : e # b
    BY <1>0, <1>5
  <2> QED
    BY <2>1, <2>2
<1>10. EntryLocks' /\ RowLocks' /\ Reads'
  <2>1. \A s \in Requests \ {r} : HasEntry(s) => entry'[req[s].e] = entry[req[s].e]
    <3>1. \A s \in Requests : HasEntry(s) => req[s].e \in 1 .. made /\ req[s].e \in Ids
      BY <1>2, StateFields, HeldEntry DEF TypeOK, HasEntry
    <3> QED
      BY <1>9, <3>1
  <2>2. \A s \in Requests \ {r} : HasRow(s) => inventory'[req[s].to] = inventory[req[s].to]
    BY <1>2, <1>4, <1>7, HeldRow
  <2>3. Kept(Requests \ {r})
    BY <1>7
  <2>4. req'[r].does \in {"idle", "remains"}
    BY <1>6, <1>7
  <2> QED
    BY <2>1, <2>2, <2>3, <2>4, LastStep
<1>11. TypeOK'
  <2>1. inventory' \in [Pcs -> Lists] /\ \A c \in Pcs : OneStack(Start[c]) => OneStack(inventory'[c])
    BY <1>2, <1>3, <1>4, <1>7, DroppedList DEF TypeOK
  <2>2. q.list[q.i].item \in Items
    <3>1. q.list \in Seq(Stacks)
      BY <1>3 DEF Lists, Stacks
    <3>2. q.i \in 1 .. Len(q.list)
      BY <1>4, <3>1, LenProperties
    <3>3. q.list[q.i] \in Stacks
      BY <3>1, <3>2, ElementOfSeq
    <3> QED
      BY <3>3 DEF Stacks
  <2>3. entry' \in [Ids -> [at : Places', item : Items, qty : Nat \ {0}] \cup {NoEntry}]
    <3> DEFINE new == [at |-> b, item |-> q.list[q.i].item, qty |-> 1]
    <3>1. new \in [at : Places', item : Items, qty : Nat \ {0}]
      BY <1>6, <2>2
    <3>2. entry' = [entry EXCEPT ![b] = new]
      BY <1>1
    <3> HIDE DEF new
    <3>3. [at : Places, item : Items, qty : Nat \ {0}] \subseteq [at : Places', item : Items, qty : Nat \ {0}]
      BY <1>6
    <3>4. entry \in [Ids -> [at : Places', item : Items, qty : Nat \ {0}] \cup {NoEntry}]
      BY <1>2, <3>3 DEF TypeOK
    <3> QED
      BY <3>1, <3>2, <3>4
  <2>4. \A e \in Ids : entry'[e] # NoEntry => e <= made'
    <3>1. ASSUME NEW e \in Ids, entry'[e] # NoEntry
          PROVE  e <= made'
      <4>1. CASE e = b
        BY <1>8, <4>1
      <4>2. CASE e # b
        <5>1. e <= made /\ e \in Nat
          BY <1>2, <1>9, <3>1, <4>2 DEF TypeOK, Ids
        <5> QED
          BY <1>5, <5>1
      <4> QED
        BY <4>1, <4>2
    <3> QED
      BY <3>1
  <2>5. made' \in 0 .. MaxIds /\ bags' \subseteq 1 .. made'
    <3>1. made' \in 0 .. MaxIds /\ 1 .. made \subseteq 1 .. made' /\ made' \in 1 .. made'
      BY <1>1, <1>5, <1>8, LootAssumption DEF Ids
    <3>2. bags \subseteq 1 .. made
      BY <1>2 DEF TypeOK
    <3> QED
      BY <1>1, <3>1, <3>2
  <2>6. token' \subseteq bags' /\ spilled' \subseteq bags' /\ late' \subseteq bags'
    BY <1>1, <1>2 DEF TypeOK
  <2>7. edits' \in 0 .. MaxEdits /\ ledger' \in [Items -> Int] /\ blind' \in BOOLEAN
    BY <1>1, <1>2 DEF TypeOK
  <2>8. \A s \in Requests : Does(s, "drop")' => req'[s].i \in DOMAIN inventory'[req'[s].to]
    BY <1>10 DEF Does, RowLocks, HasRow
  <2> QED
    BY <1>7, <2>1, <2>3, <2>4, <2>5, <2>6, <2>7, <2>8 DEF TypeOK, Does
<1> QED
  BY <1>8, <1>10, <1>11 DEF LootInv

\* A write of an inventory by a request that holds no lock.
LEMMA WriteBackKeeps ==
  ASSUME LootInv, NEW r \in Requests, NEW c \in Pcs, NEW list \in Lists, NEW next \in States,
         OneStack(Start[c]) => OneStack(list), next.does = "idle",
         RowFree(c), WriteRow(r, c, list, next),
         UNCHANGED <<entry, made, bags, token, edits, ledger, spilled, late>>, blind' \in BOOLEAN
  PROVE  LootInv'
<1>1. TypeOK /\ EntryLocks /\ RowLocks /\ Reads
  BY DEF LootInv
<1>2. /\ entry' = entry /\ made' = made /\ bags' = bags /\ token' = token /\ edits' = edits
      /\ ledger' = ledger /\ spilled' = spilled /\ late' = late
  OBVIOUS
<1>3. States' = States
  BY <1>2 DEF States, Places
<1>4. /\ req' \in [Requests -> States'] /\ req'[r] = next /\ Kept(Requests \ {r})
      /\ inventory' = [inventory EXCEPT ![c] = list]
      /\ inventory'[c] = list /\ \A d \in Pcs \ {c} : inventory'[d] = inventory[d]
  <2>1. made' \in Nat /\ made <= made' /\ bags \subseteq bags'
    BY <1>1, <1>2, MadeStays
  <2>2. next \in States'
    BY <1>3
  <2> QED
    BY <1>1, <2>1, <2>2, WriteRowEffect, ZenonT(40)
<1>5. EntryLocks' /\ RowLocks' /\ Reads' /\ Budget'
  <2>1. \A s \in Requests \ {r} : HasEntry(s) => entry'[req[s].e] = entry[req[s].e]
    BY <1>2
  <2>2. \A s \in Requests \ {r} : HasRow(s) => inventory'[req[s].to] = inventory[req[s].to]
    BY <1>1, <1>4, HeldRow DEF RowFree, HoldsRow, HasRow
  <2>3. Kept(Requests \ {r})
    BY <1>4
  <2>4. req'[r].does \in {"idle", "remains"}
    BY <1>3, <1>4
  <2>5. EntryLocks' /\ RowLocks' /\ Reads' /\ (made' = made => Budget')
    BY <2>1, <2>2, <2>3, <2>4, LastStep
  <2> QED
    BY <1>2, <2>5
<1>6. TypeOK'
  <2>1. inventory' \in [Pcs -> Lists] /\ \A d \in Pcs : OneStack(Start[d]) => OneStack(inventory'[d])
    BY <1>1, <1>4 DEF TypeOK
  <2>2. \A s \in Requests : Does(s, "drop")' => req'[s].i \in DOMAIN inventory'[req'[s].to]
    BY <1>5 DEF Does, RowLocks, HasRow
  <2>3. Places' = Places
    BY <1>2 DEF Places
  <2> QED
    BY <1>1, <1>2, <1>4, <2>1, <2>2, <2>3 DEF TypeOK, Does
<1> QED
  BY <1>5, <1>6 DEF LootInv

LEMMA EnrichKeeps ==
  ASSUME LootInv, NEW r \in Requests, Enrich(r)
  PROVE  LootInv'
<1>1. /\ Does(r, "enrich") /\ RowFree(req[r].to) /\ WriteRow(r, req[r].to, req[r].list, Idle)
      /\ blind' = (blind \/ ~req[r].fresh)
      /\ UNCHANGED <<entry, made, bags, token, edits, ledger, spilled, late>>
  BY DEF Enrich
<1>2. req[r].to \in Pcs /\ req[r].list \in Lists
  BY <1>1, StateFields DEF LootInv, TypeOK, Does
<1>3. PICK c \in Pcs, list \in Lists, next \in States :
        c = req[r].to /\ list = req[r].list /\ next = Idle
  BY <1>2 DEF States
<1>4. WriteRow(r, c, list, next) /\ RowFree(c) /\ Rewriting(r)
  BY <1>1, <1>3 DEF Rewriting, Does
<1>5. (OneStack(Start[c]) => OneStack(list)) /\ next.does = "idle"
  BY <1>3, <1>4 DEF LootInv, Reads, Idle
<1>6. blind' \in BOOLEAN /\ UNCHANGED <<entry, made, bags, token, edits, ledger, spilled, late>>
  BY <1>1
<1> QED
  BY <1>4, <1>5, <1>6, WriteBackKeeps

LEMMA RewriteKeeps ==
  ASSUME LootInv, NEW r \in Requests, Rewrite(r)
  PROVE  LootInv'
<1>1. /\ Does(r, "rewrite") /\ RowFree(req[r].to)
      /\ UNCHANGED <<entry, made, bags, token, edits, history>>
      /\ IF req[r].fresh THEN WriteRow(r, req[r].to, req[r].list, Idle)
                         ELSE Goes(r, Idle) /\ UNCHANGED inventory
  BY DEF Rewrite, Ends
<1>2. CASE req[r].fresh
  <2>1. req[r].to \in Pcs /\ req[r].list \in Lists
    BY <1>1, StateFields DEF LootInv, TypeOK, Does
  <2>2. PICK c \in Pcs, list \in Lists, next \in States :
          c = req[r].to /\ list = req[r].list /\ next = Idle
    BY <2>1 DEF States
  <2>3. WriteRow(r, c, list, next) /\ RowFree(c) /\ Rewriting(r)
    BY <1>1, <1>2, <2>2 DEF Rewriting, Does
  <2>4. blind' \in BOOLEAN /\ UNCHANGED <<entry, made, bags, token, edits, ledger, spilled, late>>
    BY <1>1 DEF history, LootInv, TypeOK
  <2>5. (OneStack(Start[c]) => OneStack(list)) /\ next.does = "idle"
    BY <2>2, <2>3 DEF LootInv, Reads, Idle
  <2> QED
    BY <2>3, <2>4, <2>5, WriteBackKeeps
<1>3. CASE ~req[r].fresh
  <2>1. Goes(r, Idle) /\ token' \subseteq token
        /\ UNCHANGED <<inventory, entry, made, bags, edits, history>>
    BY <1>1, <1>3
  <2> QED
    BY <2>1, IdleStep
<1> QED
  BY <1>2, <1>3

\* What the DM does while requests are in flight.
LEMMA EditStep ==
  ASSUME LootInv, req' = req, inventory' = inventory, bags' = bags, token' = token, Edited,
         made' \in Nat, made <= made', made' <= MaxIds,
         made' + Cardinality(Dropping) <= MaxIds,
         \A e \in Ids : entry'[e] # NoEntry => e <= made',
         entry' \in [Ids -> [at : Places, item : Items, qty : Nat \ {0}] \cup {NoEntry}],
         \A q \in Requests : HasEntry(q) => entry'[req[q].e] = entry[req[q].e],
         ledger' \in [Items -> Int], blind' = blind, spilled' \subseteq bags, late' \subseteq bags
  PROVE  LootInv'
<1>1. TypeOK /\ EntryLocks /\ RowLocks /\ Reads
  BY DEF LootInv
<1>2. req \in [Requests -> States'] /\ States \subseteq States'
  BY <1>1, StatesGrow DEF TypeOK
<1>3. EntryLocks' /\ RowLocks' /\ Reads'
  BY <1>1, ZenonT(40) DEF EntryLocks, HasEntry, RowLocks, HasRow, Reads, Rewriting
<1>4. Budget'
  <2>1. Dropping' = Dropping
    BY DEF Dropping
  <2> QED
    BY <2>1 DEF Budget
<1>5. made' \in 0 .. MaxIds /\ bags' \subseteq 1 .. made'
  <2>1. made \in Nat /\ MaxIds \in Nat
    BY <1>1, MadeType
  <2>2. made' \in 0 .. MaxIds /\ 1 .. made \subseteq 1 .. made'
    BY <2>1
  <2> QED
    BY <1>1, <2>2 DEF TypeOK
<1>6. edits' \in 0 .. MaxEdits
  BY <1>1, LootAssumption DEF TypeOK, Edited
<1>7. TypeOK'
  BY <1>1, <1>2, <1>3, <1>5, <1>6 DEF TypeOK, Lists, Places, Does
<1> QED
  BY <1>3, <1>4, <1>7 DEF LootInv

LEMMA PostKeeps ==
  ASSUME LootInv, NEW place \in Places, NEW item \in Items, Post(place, item)
  PROVE  LootInv'
<1>0. PICK e : e = made + 1
  OBVIOUS
<1>1. /\ Edited /\ made + Cardinality(Dropping) < MaxIds /\ made' = made + 1
      /\ entry' = [entry EXCEPT ![e] = [at |-> place, item |-> item, qty |-> 1]]
      /\ ledger' = [ledger EXCEPT ![item] = @ + 1] /\ PutInto(place)
      /\ inventory' = inventory /\ bags' = bags /\ token' = token /\ req' = req
      /\ blind' = blind /\ spilled' = spilled
  BY <1>0 DEF Post
<1>2. TypeOK /\ EntryLocks
  BY DEF LootInv
<1>3. /\ made' \in Nat /\ made <= made' /\ made' <= MaxIds
      /\ made' + Cardinality(Dropping) <= MaxIds /\ e \in 1 .. MaxIds /\ e = made' /\ made \in Nat
  <2>1. made \in Nat /\ MaxIds \in Nat
    BY <1>2, MadeType
  <2>2. Cardinality(Dropping) \in Nat
    BY LootAssumption, FS_Subset, FS_CardinalityType DEF Dropping
  <2>3. made' = made + 1 /\ made + Cardinality(Dropping) < MaxIds
    BY <1>1
  <2>4. e = made + 1
    BY <1>0
  <2> QED
    BY <2>1, <2>2, <2>3, <2>4
<1>4. e \in Ids /\ \A d \in Ids \ {e} : entry'[d] = entry[d]
  BY <1>1, <1>2, <1>3 DEF TypeOK, Ids
<1>5. \A q \in Requests : HasEntry(q) => entry'[req[q].e] = entry[req[q].e]
  <2>1. \A q \in Requests : HasEntry(q) => req[q].e \in Ids /\ req[q].e <= made
    BY <1>2, HeldEntry
  <2>2. ~(e <= made)
    BY <1>0, <1>3
  <2> QED
    BY <1>4, <2>1, <2>2
<1>6. entry' \in [Ids -> [at : Places, item : Items, qty : Nat \ {0}] \cup {NoEntry}]
  <2> DEFINE new == [at |-> place, item |-> item, qty |-> 1]
  <2>1. new \in [at : Places, item : Items, qty : Nat \ {0}]
    OBVIOUS
  <2>2. entry' = [entry EXCEPT ![e] = new]
    BY <1>1
  <2> HIDE DEF new
  <2> QED
    BY <1>2, <2>1, <2>2 DEF TypeOK
<1>7. \A d \in Ids : entry'[d] # NoEntry => d <= made'
  <2>1. ASSUME NEW d \in Ids, entry'[d] # NoEntry
        PROVE  d <= made'
    <3>1. CASE d = e
      BY <1>3, <3>1
    <3>2. CASE d # e
      <4>1. d <= made /\ d \in Nat
        BY <1>2, <1>4, <2>1, <3>2 DEF TypeOK, Ids
      <4> QED
        BY <1>3, <4>1
    <3> QED
      BY <3>1, <3>2
  <2> QED
    BY <2>1
<1>8. ledger' \in [Items -> Int]
  <2>1. ledger \in [Items -> Int]
    BY <1>2 DEF TypeOK
  <2> QED
    BY <1>1, <2>1
<1>9. spilled' \subseteq bags /\ late' \subseteq bags
  BY <1>1, <1>2 DEF PutInto, TypeOK
<1> QED
  BY <1>1, <1>3, <1>5, <1>6, <1>7, <1>8, <1>9, EditStep

LEMMA PatchKeeps ==
  ASSUME LootInv, NEW e \in Ids, NEW n \in Counts, Patch(e, n)
  PROVE  LootInv'
<1>1. /\ Edited /\ entry[e] # NoEntry /\ EntryFree(e)
      /\ entry' = [entry EXCEPT ![e].qty = n]
      /\ ledger' = [ledger EXCEPT ![entry[e].item] = (@ + n) - entry[e].qty]
      /\ inventory' = inventory /\ made' = made /\ bags' = bags /\ token' = token /\ req' = req
      /\ blind' = blind /\ spilled' = spilled /\ late' = late
  BY DEF Patch
<1>2. TypeOK /\ Budget
  BY DEF LootInv
<1>3. /\ entry[e] \in [at : Places, item : Items, qty : Nat \ {0}] /\ e \in 1 .. made
      /\ entry[e].item \in Items /\ entry[e].qty \in Nat
  BY <1>1, <1>2, EntryFields
<1>4. /\ made' \in Nat /\ made <= made' /\ made' <= MaxIds
      /\ made' + Cardinality(Dropping) <= MaxIds
  <2>1. made \in Nat /\ made <= MaxIds
    BY <1>2, MadeType
  <2> QED
    BY <1>1, <1>2, <2>1 DEF Budget
<1>5. n \in Nat \ {0}
  BY DEF Counts
<1>6. /\ entry' \in [Ids -> [at : Places, item : Items, qty : Nat \ {0}] \cup {NoEntry}]
      /\ \A d \in Ids \ {e} : entry'[d] = entry[d]
  <2> DEFINE new == [entry[e] EXCEPT !.qty = n]
  <2>1. new \in [at : Places, item : Items, qty : Nat \ {0}]
    BY <1>3, <1>5
  <2>2. entry' = [entry EXCEPT ![e] = new]
    BY <1>1
  <2> HIDE DEF new
  <2> QED
    BY <1>2, <2>1, <2>2 DEF TypeOK
<1>7. \A q \in Requests : HasEntry(q) => entry'[req[q].e] = entry[req[q].e]
  BY <1>1, <1>2, <1>6, HeldEntry DEF LootInv, EntryFree, HoldsEntry, HasEntry
<1>8. \A d \in Ids : entry'[d] # NoEntry => d <= made'
  <2>1. e <= made
    BY <1>1, <1>2 DEF TypeOK
  <2> QED
    BY <1>1, <1>2, <1>6, <2>1 DEF TypeOK
<1>9. ledger' \in [Items -> Int]
  <2>1. ledger \in [Items -> Int]
    BY <1>2 DEF TypeOK
  <2>2. (ledger[entry[e].item] + n) - entry[e].qty \in Int
    BY <1>3, <1>5, <2>1
  <2> QED
    BY <1>1, <2>1, <2>2
<1>10. spilled' \subseteq bags /\ late' \subseteq bags
  BY <1>1, <1>2 DEF TypeOK
<1> QED
  BY <1>1, <1>4, <1>6, <1>7, <1>8, <1>9, <1>10, EditStep

LEMMA RemoveKeeps ==
  ASSUME LootInv, NEW e \in Ids, Remove(e)
  PROVE  LootInv'
<1>1. /\ Edited /\ entry[e] # NoEntry /\ EntryFree(e)
      /\ entry' = [entry EXCEPT ![e] = NoEntry]
      /\ ledger' = [ledger EXCEPT ![entry[e].item] = @ - entry[e].qty]
      /\ OutOf(entry[e].at, e)
      /\ inventory' = inventory /\ made' = made /\ bags' = bags /\ token' = token /\ req' = req
      /\ blind' = blind /\ late' = late
  BY DEF Remove
<1>2. TypeOK /\ Budget
  BY DEF LootInv
<1>3. entry[e].item \in Items /\ entry[e].qty \in Nat
  BY <1>1, <1>2, EntryFields
<1>4. /\ made' \in Nat /\ made <= made' /\ made' <= MaxIds
      /\ made' + Cardinality(Dropping) <= MaxIds
  <2>1. made \in Nat /\ made <= MaxIds
    BY <1>2, MadeType
  <2> QED
    BY <1>1, <1>2, <2>1 DEF Budget
<1>5. /\ entry' \in [Ids -> [at : Places, item : Items, qty : Nat \ {0}] \cup {NoEntry}]
      /\ \A d \in Ids \ {e} : entry'[d] = entry[d] /\ entry'[e] = NoEntry
  BY <1>1, <1>2 DEF TypeOK
<1>6. \A q \in Requests : HasEntry(q) => entry'[req[q].e] = entry[req[q].e]
  BY <1>1, <1>2, <1>5, HeldEntry DEF LootInv, EntryFree, HoldsEntry, HasEntry
<1>7. \A d \in Ids : entry'[d] # NoEntry => d <= made'
  BY <1>1, <1>2 DEF TypeOK
<1>8. ledger' \in [Items -> Int]
  <2>1. ledger \in [Items -> Int]
    BY <1>2 DEF TypeOK
  <2>2. ledger[entry[e].item] - entry[e].qty \in Int
    BY <1>3, <2>1
  <2> QED
    BY <1>1, <2>1, <2>2
<1>9. spilled' \subseteq bags /\ late' \subseteq bags
  BY <1>1, <1>2 DEF OutOf, TypeOK
<1> QED
  BY <1>1, <1>4, <1>5, <1>6, <1>7, <1>8, <1>9, EditStep

----------------------------------------------------------------------------
(* What there is of an item, in all inventories and in all entries.        *)

LEMMA InListsChanged ==
  ASSUME NEW old \in [Pcs -> Lists], NEW new \in [Pcs -> Lists], NEW c \in Pcs,
         \A d \in Pcs \ {c} : new[d] = old[d], NEW item
  PROVE  /\ InLists(new, item) = (InLists(old, item) + InList(new[c], item)) - InList(old[c], item)
         /\ InLists(old, item) \in Int /\ InList(new[c], item) \in Int /\ InList(old[c], item) \in Int
<1>1. PICK f, g : f = [d \in Pcs |-> InList(old[d], item)] /\ g = [d \in Pcs |-> InList(new[d], item)]
  OBVIOUS
<1>2. InLists(old, item) = SumFunctionOnSet(f, Pcs) /\ InLists(new, item) = SumFunctionOnSet(g, Pcs)
  BY <1>1 DEF InLists
<1>3. \A d \in Pcs : f[d] = InList(old[d], item) /\ g[d] = InList(new[d], item)
  BY <1>1
<1>4. \A d \in Pcs : InList(old[d], item) \in Int /\ InList(new[d], item) \in Int
  BY InListCounts
<1>5. Ints(f, Pcs) /\ Ints(g, Pcs) /\ \A d \in Pcs \ {c} : g[d] = f[d]
  BY <1>3, <1>4 DEF Ints
<1>6. IsFiniteSet(Pcs)
  BY LootAssumption
<1>7. /\ SumFunctionOnSet(g, Pcs) = (SumFunctionOnSet(f, Pcs) + g[c]) - f[c]
      /\ SumFunctionOnSet(f, Pcs) \in Int
  BY <1>5, <1>6, SumOfChanged, SumIsInt
<1> QED
  BY <1>2, <1>3, <1>4, <1>7

LEMMA InListsIsInt ==
  ASSUME NEW lists \in [Pcs -> Lists], NEW item
  PROVE  InLists(lists, item) \in Int
<1>1. PICK f : f = [d \in Pcs |-> InList(lists[d], item)]
  OBVIOUS
<1>2. InLists(lists, item) = SumFunctionOnSet(f, Pcs)
  BY <1>1 DEF InLists
<1>3. Ints(f, Pcs)
  BY <1>1, InListCounts DEF Ints
<1> QED
  BY <1>2, <1>3, LootAssumption, SumIsInt

Among(entries, item) ==
  SumFunctionOnSet([e \in Ids |-> entries[e].qty], {e \in Ids : entries[e].item = item})
Counted(x, item) == IF x.item = item THEN x.qty ELSE 0

LEMMA AmongCounts ==
  ASSUME NEW entries, \A e \in Ids : entries[e].qty \in Nat, NEW item
  PROVE  LET counts == [e \in Ids |-> Counted(entries[e], item)]
         IN  Among(entries, item) = SumFunctionOnSet(counts, Ids) /\ Ints(counts, Ids)
<1> DEFINE counts == [e \in Ids |-> Counted(entries[e], item)]
           R == {e \in Ids : entries[e].item = item}
<1>1. PICK f : f = [e \in Ids |-> entries[e].qty]
  OBVIOUS
<1>2. IsFiniteSet(Ids)
  BY LootAssumption, FS_Interval DEF Ids
<1>3. Ints(counts, Ids) /\ Ints(f, Ids)
  BY <1>1 DEF Ints, Counted
<1>4. R \in SUBSET Ids /\ \A e \in Ids \ R : counts[e] = 0
  BY DEF Counted
<1>5. \A e \in R : counts[e] = f[e]
  BY <1>1 DEF Counted
<1>6. IsFiniteSet(R) /\ Ints(f, R)
  BY <1>2, <1>3, <1>4, FS_Subset DEF Ints
<1>7. Among(entries, item) = SumFunctionOnSet(f, R)
  BY <1>1 DEF Among
<1> HIDE DEF counts, R
<1>8. SumFunctionOnSet(counts, Ids) = SumFunctionOnSet(counts, R)
  BY <1>2, <1>3, <1>4, SumOfEnough
<1>9. SumFunctionOnSet(f, R) = SumFunctionOnSet(counts, R)
  BY <1>5, <1>6, SumOfSame
<1> QED
  BY <1>3, <1>7, <1>8, <1>9 DEF counts

LEMMA AmongChanged ==
  ASSUME NEW old, \A e \in Ids : old[e].qty \in Nat, NEW new, \A e \in Ids : new[e].qty \in Nat,
         NEW b \in Ids, \A e \in Ids \ {b} : new[e] = old[e], NEW item
  PROVE  /\ Among(new, item) = (Among(old, item) + Counted(new[b], item)) - Counted(old[b], item)
         /\ Among(old, item) \in Int /\ Counted(new[b], item) \in Int /\ Counted(old[b], item) \in Int
<1>1. PICK f, g : /\ f = [e \in Ids |-> Counted(old[e], item)]
                  /\ g = [e \in Ids |-> Counted(new[e], item)]
  OBVIOUS
<1>2. /\ Among(old, item) = SumFunctionOnSet(f, Ids) /\ Ints(f, Ids)
      /\ Among(new, item) = SumFunctionOnSet(g, Ids) /\ Ints(g, Ids)
  BY <1>1, AmongCounts
<1>3. IsFiniteSet(Ids)
  BY LootAssumption, FS_Interval DEF Ids
<1>4. f[b] = Counted(old[b], item) /\ g[b] = Counted(new[b], item) /\ \A e \in Ids \ {b} : g[e] = f[e]
  BY <1>1
<1>5. /\ SumFunctionOnSet(g, Ids) = (SumFunctionOnSet(f, Ids) + g[b]) - f[b]
      /\ SumFunctionOnSet(f, Ids) \in Int /\ f[b] \in Int /\ g[b] \in Int
  BY <1>2, <1>3, <1>4, SumOfChanged, SumIsInt DEF Ints
<1> QED
  BY <1>2, <1>4, <1>5

LEMMA AmongNone ==
  ASSUME NEW entries, \A e \in Ids : entries[e].qty = 0, NEW item
  PROVE  Among(entries, item) = 0
<1>1. PICK f : f = [e \in Ids |-> Counted(entries[e], item)]
  OBVIOUS
<1>2. Among(entries, item) = SumFunctionOnSet(f, Ids) /\ Ints(f, Ids) /\ IsFiniteSet(Ids)
  <2>1. \A e \in Ids : entries[e].qty \in Nat
    OBVIOUS
  <2>2. Among(entries, item) = SumFunctionOnSet(f, Ids) /\ Ints(f, Ids)
    BY <1>1, <2>1, AmongCounts
  <2> QED
    BY <2>2, LootAssumption, FS_Interval DEF Ids
<1>3. {} \in SUBSET Ids /\ \A e \in Ids \ {} : f[e] = 0
  BY <1>1 DEF Counted
<1>4. SumFunctionOnSet(f, Ids) = SumFunctionOnSet(f, {})
  BY <1>2, <1>3, SumOfEnough
<1> QED
  BY <1>2, <1>4, SumOfNone

----------------------------------------------------------------------------
(* The theorems.                                                           *)

LEMMA InitKeeps ==
  ASSUME Init
  PROVE  LootInv
<1>1. /\ inventory = Start /\ entry = [e \in Ids |-> NoEntry] /\ made = 0 /\ bags = {} /\ token = {}
      /\ req = [r \in Requests |-> Idle] /\ edits = 0 /\ blind = FALSE /\ spilled = {} /\ late = {}
      /\ ledger = [item \in Items |-> InLists(Start, item)]
  BY DEF Init
<1>2. \A r \in Requests : req[r] = Idle /\ Idle.does = "idle"
  BY <1>1 DEF Idle
<1>3. EntryLocks /\ RowLocks /\ Reads
  BY <1>2 DEF EntryLocks, HasEntry, RowLocks, HasRow, Reads, Rewriting
<1>4. Budget
  <2>1. Dropping = {}
    BY <1>2 DEF Dropping
  <2>2. Cardinality(Dropping) = 0
    BY <2>1, FS_EmptySet
  <2> QED
    BY <1>1, <2>2, LootAssumption DEF Budget
<1>5. Start \in [Pcs -> Lists]
  BY LootAssumption DEF Lists
<1>6. ledger \in [Items -> Int]
  BY <1>1, <1>5, InListsIsInt
<1>7. req \in [Requests -> States]
  BY <1>1 DEF States
<1>8. made \in 0 .. MaxIds /\ edits \in 0 .. MaxEdits
  BY <1>1, LootAssumption
<1>9. /\ entry \in [Ids -> [at : Places, item : Items, qty : Nat \ {0}] \cup {NoEntry}]
      /\ \A e \in Ids : entry[e] # NoEntry => e <= made
  BY <1>1
<1>10. TypeOK
  BY <1>1, <1>2, <1>5, <1>6, <1>7, <1>8, <1>9 DEF TypeOK, Does
<1> QED
  BY <1>3, <1>4, <1>10 DEF LootInv

LEMMA NextKeeps ==
  ASSUME LootInv, [Next]_vars
  PROVE  LootInv'
<1>1. ASSUME NEW r \in Requests, Ask(r) PROVE LootInv'
  <2>1. ASSUME NEW e \in Ids, NEW c \in Pcs, AskTake(r, e, c) PROVE LootInv'
    BY <2>1, AskTakeKeeps
  <2>2. ASSUME NEW e \in Ids, NEW place \in Places, AskTransfer(r, e, place) PROVE LootInv'
    BY <2>2, AskTransferKeeps
  <2>3. ASSUME NEW c \in Pcs, NEW i \in DOMAIN inventory[c], AskDrop(r, c, i) PROVE LootInv'
    BY <2>3, AskDropKeeps
  <2>4. ASSUME NEW c \in Pcs, NEW what \in {"enrich", "rewrite"}, Read(r, c, what) PROVE LootInv'
    BY <2>4, ReadKeeps
  <2> QED
    BY <1>1, <2>1, <2>2, <2>3, <2>4 DEF Ask, Places
<1>2. ASSUME NEW r \in Requests, Lock(r) PROVE LootInv'
  BY <1>2, TakeEntryKeeps, TakeTargetKeeps, TransferEntryKeeps, DropRowKeeps DEF Lock
<1>3. ASSUME NEW r \in Requests, Finish(r) PROVE LootInv'
  BY <1>3, TakeKeeps, RemainsKeeps, DespawnKeeps, TransferKeeps, DropKeeps, EnrichKeeps,
     RewriteKeeps, FailKeeps DEF Finish
<1>4. ASSUME Edit PROVE LootInv'
  <2>1. ASSUME NEW place \in Places, NEW item \in Items, Post(place, item) PROVE LootInv'
    BY <2>1, PostKeeps
  <2> QED
    BY <1>4, <2>1, RemoveKeeps, PatchKeeps DEF Edit, Places
<1>5. ASSUME UNCHANGED vars PROVE LootInv'
  <2>1. TypeOK'
    BY <1>5 DEF vars, LootInv, TypeOK, States, Places, Lists, Does
  <2>2. EntryLocks'
    BY <1>5 DEF vars, LootInv, EntryLocks, HasEntry
  <2>3. RowLocks'
    BY <1>5 DEF vars, LootInv, RowLocks, HasRow
  <2>4. Reads' /\ Budget'
    BY <1>5 DEF vars, LootInv, Reads, Rewriting, Budget, Dropping
  <2> QED
    BY <2>1, <2>2, <2>3, <2>4 DEF LootInv
<1> QED
  BY <1>1, <1>2, <1>3, <1>4, <1>5 DEF Next

\* What the requests of loot.ts hold and remember stays right: a transaction
\* that has an entry or a character's row is the only one that has it, what was
\* read under a lock is still there, and there is room for every insertion
\* under way.
THEOREM LootInvHolds == Spec => []LootInv
<1>1. Init => LootInv
  BY InitKeeps
<1>2. LootInv /\ [Next]_vars => LootInv'
  BY NextKeeps
<1> QED
  BY <1>1, <1>2, PTL DEF Spec

(* Whatever the requests and the DM do, in any order: the row and the      *)
(* entries keep their types, no request makes a second stack of an item in *)
(* an inventory that had none, and the index a drop has read is still one  *)
(* of the list it changes (TypeOK).                                        *)
THEOREM TypeCorrect == Spec => []TypeOK
<1>1. LootInv => TypeOK
  BY DEF LootInv
<1> QED
  BY <1>1, LootInvHolds, PTL

----------------------------------------------------------------------------
(* Nothing is lost or doubled.                                             *)

LEMMA Quantified ==
  ASSUME TypeOK
  PROVE  \A e \in Ids : entry[e].qty \in Nat
BY DEF TypeOK, NoEntry

LEMMA OwnedAfter ==
  ASSUME TypeOK, TypeOK', NEW c \in Pcs, \A d \in Pcs \ {c} : inventory'[d] = inventory[d], NEW item
  PROVE  /\ Owned(item)' = (Owned(item) + InList(inventory'[c], item)) - InList(inventory[c], item)
         /\ Owned(item) \in Int /\ InList(inventory'[c], item) \in Int /\ InList(inventory[c], item) \in Int
<1>1. PICK old, new : old = inventory /\ new = inventory'
  OBVIOUS
<1>2. old \in [Pcs -> Lists] /\ new \in [Pcs -> Lists]
  BY <1>1 DEF TypeOK, Lists
<1>3. \A d \in Pcs \ {c} : new[d] = old[d]
  BY <1>1
<1>4. Owned(item) = InLists(old, item) /\ Owned(item)' = InLists(new, item)
  BY <1>1 DEF Owned
<1>5. /\ InLists(new, item) = (InLists(old, item) + InList(new[c], item)) - InList(old[c], item)
      /\ InLists(old, item) \in Int /\ InList(new[c], item) \in Int /\ InList(old[c], item) \in Int
  BY <1>2, <1>3, InListsChanged
<1> QED
  BY <1>1, <1>4, <1>5

LEMMA LyingAfter ==
  ASSUME TypeOK, TypeOK', NEW b \in Ids, \A e \in Ids \ {b} : entry'[e] = entry[e], NEW item
  PROVE  /\ Lying(item)' = (Lying(item) + Counted(entry'[b], item)) - Counted(entry[b], item)
         /\ Lying(item) \in Int /\ Counted(entry'[b], item) \in Int /\ Counted(entry[b], item) \in Int
<1>1. PICK old, new : old = entry /\ new = entry'
  OBVIOUS
<1>2. \A e \in Ids : old[e].qty \in Nat /\ new[e].qty \in Nat
  <2>1. \A e \in Ids : entry[e].qty \in Nat
    BY Quantified
  <2>2. \A e \in Ids : entry'[e].qty \in Nat
    BY DEF TypeOK, NoEntry
  <2> QED
    BY <1>1, <2>1, <2>2
<1>3. \A e \in Ids \ {b} : new[e] = old[e]
  BY <1>1
<1>4. Lying(item) = Among(old, item) /\ Lying(item)' = Among(new, item)
  BY <1>1 DEF Lying, Among
<1>5. /\ Among(new, item) = (Among(old, item) + Counted(new[b], item)) - Counted(old[b], item)
      /\ Among(old, item) \in Int /\ Counted(new[b], item) \in Int /\ Counted(old[b], item) \in Int
  BY <1>2, <1>3, AmongChanged
<1> QED
  BY <1>1, <1>4, <1>5

Balance(item) == Owned(item) + Lying(item) = ledger[item]

LEMMA SameBalance ==
  ASSUME NEW item, Balance(item), UNCHANGED <<inventory, entry, ledger>>
  PROVE  Balance(item)'
BY DEF Balance, Owned, Lying

LEMMA TakeBalances ==
  ASSUME LootInv, LootInv', NEW r \in Requests, Take(r), NEW item \in Items, Balance(item)
  PROVE  Balance(item)'
<1>0. TypeOK /\ TypeOK' /\ EntryLocks /\ RowLocks
  BY DEF LootInv
<1>1. PICK q : q = req[r]
  OBVIOUS
<1>2. /\ Does(r, "take") /\ ledger' = ledger
      /\ entry' = IF q.qty <= 1 THEN [entry EXCEPT ![q.e] = NoEntry]
                                ELSE [entry EXCEPT ![q.e].qty = @ - 1]
      /\ inventory' = [inventory EXCEPT ![q.to] = Added(q.list, q.item)]
  BY <1>1 DEF Take, WriteRow
<1>3. /\ q.does = "take" /\ q.e \in Ids /\ q.to \in Pcs
      /\ q.qty \in Nat \ {0} /\ q.item \in Items /\ q.list \in Lists
  <2>1. q.does = "take" /\ q \in States
    BY <1>0, <1>1, <1>2 DEF TypeOK, Does
  <2> QED
    BY <1>0, <2>1, StateFields, MadeIds
<1>4. inventory[q.to] = q.list /\ entry[q.e].qty = q.qty /\ entry[q.e].item = q.item
  BY <1>0, <1>1, <1>3 DEF RowLocks, HasRow, EntryLocks, HasEntry
<1>5. PICK c \in Pcs, b \in Ids : c = q.to /\ b = q.e
  BY <1>3
<1>6. /\ inventory'[c] = Added(q.list, q.item) /\ \A d \in Pcs \ {c} : inventory'[d] = inventory[d]
      /\ \A e \in Ids \ {b} : entry'[e] = entry[e]
      /\ q.qty <= 1 => entry'[b] = NoEntry
      /\ ~(q.qty <= 1) => entry'[b] = [entry[b] EXCEPT !.qty = @ - 1]
  BY <1>0, <1>2, <1>5 DEF TypeOK
<1>7. InList(inventory'[c], item) = InList(inventory[c], item) + One(item = q.item)
  BY <1>3, <1>4, <1>5, <1>6, AddedCounts
<1>8. Counted(entry'[b], item) = Counted(entry[b], item) - One(item = q.item)
  <2>1. entry[b] \in [at : Places, item : Items, qty : Nat \ {0}]
    <3>1. HasEntry(r)
      BY <1>1, <1>3 DEF HasEntry
    <3>2. entry[q.e] # NoEntry
      BY <1>0, <1>1, <3>1, HeldEntry
    <3> QED
      BY <1>0, <1>5, <3>2, EntryFields
  <2>2. Counted(entry[b], item) = IF item = q.item THEN q.qty ELSE 0
    BY <1>4, <1>5 DEF Counted
  <2>3. CASE q.qty <= 1
    <3>1. q.qty = 1
      BY <1>3, <2>3
    <3>2. Counted(entry'[b], item) = 0
      BY <1>6, <2>3 DEF Counted, NoEntry
    <3> QED
      BY <2>2, <3>1, <3>2 DEF One
  <2>4. CASE ~(q.qty <= 1)
    <3>1. entry'[b].item = q.item /\ entry'[b].qty = q.qty - 1
      BY <1>4, <1>5, <1>6, <2>1, <2>4
    <3>2. Counted(entry'[b], item) = IF item = q.item THEN q.qty - 1 ELSE 0
      BY <3>1 DEF Counted
    <3> QED
      BY <1>3, <2>2, <3>2 DEF One
  <2> QED
    BY <2>3, <2>4
<1>9. /\ Owned(item)' = (Owned(item) + InList(inventory'[c], item)) - InList(inventory[c], item)
      /\ Owned(item) \in Int /\ InList(inventory[c], item) \in Int
  BY <1>0, <1>6, OwnedAfter
<1>10. /\ Lying(item)' = (Lying(item) + Counted(entry'[b], item)) - Counted(entry[b], item)
       /\ Lying(item) \in Int /\ Counted(entry[b], item) \in Int
  BY <1>0, <1>6, LyingAfter
<1>11. One(item = q.item) \in Int
  BY DEF One
<1>12. Owned(item)' = Owned(item) + One(item = q.item) /\ Lying(item)' = Lying(item) - One(item = q.item)
  BY <1>7, <1>8, <1>9, <1>10, <1>11
<1>13. Owned(item)' + Lying(item)' = Owned(item) + Lying(item)
  BY <1>9, <1>10, <1>11, <1>12
<1> QED
  BY <1>2, <1>13 DEF Balance

LEMMA DropBalances ==
  ASSUME LootInv, LootInv', NEW r \in Requests, Drop(r), NEW item \in Items, Balance(item)
  PROVE  Balance(item)'
<1>0. TypeOK /\ TypeOK' /\ RowLocks
  BY DEF LootInv
<1>1. PICK q, b : q = req[r] /\ b = made + 1
  OBVIOUS
<1>2. /\ Does(r, "drop") /\ ledger' = ledger /\ made' = b
      /\ entry' = [entry EXCEPT ![b] = [at |-> b, item |-> q.list[q.i].item, qty |-> 1]]
      /\ inventory' = [inventory EXCEPT ![q.to] = Dropped(q.list, q.i)]
  BY <1>1 DEF Drop, WriteRow, history
<1>3. q.does = "drop" /\ q.to \in Pcs /\ q.list \in Lists
  BY <1>0, <1>1, <1>2, StateFields DEF TypeOK, Does
<1>4. inventory[q.to] = q.list /\ q.i \in DOMAIN q.list
  BY <1>0, <1>1, <1>3 DEF RowLocks, HasRow
<1>5. b \in Ids /\ entry[b] = NoEntry
  <2>1. made \in Nat
    BY <1>0, MadeType
  <2>2. b \in 0 .. MaxIds
    BY <1>0, <1>2 DEF TypeOK
  <2>3. b \in 1 .. MaxIds /\ ~(b <= made)
    BY <1>1, <2>1, <2>2, LootAssumption
  <2> QED
    BY <1>0, <2>3 DEF TypeOK, Ids
<1>6. PICK c \in Pcs : c = q.to
  BY <1>3
<1>6a. PICK of : of = q.list[q.i].item
  OBVIOUS
<1>7. /\ inventory'[c] = Dropped(q.list, q.i) /\ \A d \in Pcs \ {c} : inventory'[d] = inventory[d]
      /\ \A e \in Ids \ {b} : entry'[e] = entry[e]
      /\ entry'[b] = [at |-> b, item |-> of, qty |-> 1]
  BY <1>0, <1>2, <1>5, <1>6, <1>6a DEF TypeOK
<1>8. InList(inventory'[c], item) = InList(inventory[c], item) - One(item = of)
  BY <1>3, <1>4, <1>6, <1>6a, <1>7, DroppedCounts
<1>9. Counted(entry'[b], item) = Counted(entry[b], item) + One(item = of)
  <2>1. Counted(entry[b], item) = 0
    BY <1>5 DEF Counted, NoEntry
  <2>2. Counted(entry'[b], item) = One(item = of)
    BY <1>7 DEF Counted, One
  <2>3. One(item = of) \in Int
    BY DEF One
  <2> QED
    BY <2>1, <2>2, <2>3
<1>10. /\ Owned(item)' = (Owned(item) + InList(inventory'[c], item)) - InList(inventory[c], item)
       /\ Owned(item) \in Int /\ InList(inventory[c], item) \in Int
  BY <1>0, <1>7, OwnedAfter
<1>11. /\ Lying(item)' = (Lying(item) + Counted(entry'[b], item)) - Counted(entry[b], item)
       /\ Lying(item) \in Int /\ Counted(entry[b], item) \in Int
  BY <1>0, <1>5, <1>7, LyingAfter
<1>12. One(item = of) \in Int
  BY DEF One
<1>13. Owned(item)' = Owned(item) - One(item = of) /\ Lying(item)' = Lying(item) + One(item = of)
  BY <1>8, <1>9, <1>10, <1>11, <1>12
<1>14. Owned(item)' + Lying(item)' = Owned(item) + Lying(item)
  BY <1>10, <1>11, <1>12, <1>13
<1> QED
  BY <1>2, <1>14 DEF Balance

LEMMA TransferBalances ==
  ASSUME LootInv, LootInv', NEW r \in Requests, Transfer(r), NEW item \in Items, Balance(item)
  PROVE  Balance(item)'
<1>0. TypeOK /\ TypeOK' /\ EntryLocks
  BY DEF LootInv
<1>1. PICK q : q = req[r]
  OBVIOUS
<1>2. /\ Does(r, "transfer") /\ ledger' = ledger /\ inventory' = inventory
      /\ entry' = [entry EXCEPT ![q.e].at = q.to]
  BY <1>1 DEF Transfer
<1>3. HasEntry(r)
  BY <1>2 DEF HasEntry, Does
<1>4. PICK b \in Ids : b = q.e
  BY <1>0, <1>1, <1>3, HeldEntry
<1>5. entry[b] \in [at : Places, item : Items, qty : Nat \ {0}]
  BY <1>0, <1>1, <1>3, <1>4, HeldEntry, EntryFields
<1>6. entry'[b] = [entry[b] EXCEPT !.at = q.to] /\ \A e \in Ids \ {b} : entry'[e] = entry[e]
  BY <1>0, <1>2, <1>4 DEF TypeOK
<1>7. entry'[b].item = entry[b].item /\ entry'[b].qty = entry[b].qty
  BY <1>5, <1>6
<1>8. Counted(entry'[b], item) = Counted(entry[b], item)
  BY <1>7 DEF Counted
<1>9. /\ Lying(item)' = (Lying(item) + Counted(entry'[b], item)) - Counted(entry[b], item)
      /\ Lying(item) \in Int /\ Counted(entry[b], item) \in Int
  BY <1>0, <1>6, LyingAfter
<1>10. Lying(item)' = Lying(item)
  BY <1>8, <1>9
<1>11. Owned(item)' = Owned(item)
  BY <1>2 DEF Owned
<1> QED
  BY <1>2, <1>10, <1>11 DEF Balance

\* A write of what the row still has.
LEMMA WriteBackBalances ==
  ASSUME LootInv, NEW r \in Requests, Rewriting(r), req[r].fresh,
         inventory' = [inventory EXCEPT ![req[r].to] = req[r].list],
         UNCHANGED <<entry, ledger>>, NEW item, Balance(item)
  PROVE  Balance(item)'
<1>1. inventory[req[r].to] = req[r].list
  BY DEF LootInv, Reads
<1>2. inventory' = inventory
  BY <1>1 DEF LootInv, TypeOK
<1> QED
  BY <1>2, SameBalance

\* What the DM does is in the ledger.
LEMMA EditBalances ==
  ASSUME LootInv, LootInv', NEW b \in Ids, \A e \in Ids \ {b} : entry'[e] = entry[e],
         inventory' = inventory, NEW item \in Items, Balance(item),
         ledger'[item] = (ledger[item] + Counted(entry'[b], item)) - Counted(entry[b], item)
  PROVE  Balance(item)'
<1>1. TypeOK /\ TypeOK'
  BY DEF LootInv
<1>2. /\ Lying(item)' = (Lying(item) + Counted(entry'[b], item)) - Counted(entry[b], item)
      /\ Lying(item) \in Int /\ Counted(entry'[b], item) \in Int /\ Counted(entry[b], item) \in Int
  BY <1>1, LyingAfter
<1>3. Owned(item)' = Owned(item)
  BY DEF Owned
<1>4. Owned(item) \in Int
  <2>1. inventory \in [Pcs -> Lists]
    BY <1>1 DEF TypeOK
  <2> QED
    BY <2>1, InListsIsInt DEF Owned
<1>5. Owned(item) + Lying(item) = ledger[item]
  BY DEF Balance
<1>6. Owned(item)' + Lying(item)' = ledger'[item]
  BY <1>2, <1>3, <1>4, <1>5
<1> QED
  BY <1>6 DEF Balance

LEMMA PostBalances ==
  ASSUME LootInv, LootInv', NEW place \in Places, NEW kind \in Items, Post(place, kind),
         NEW item \in Items, Balance(item)
  PROVE  Balance(item)'
<1>0. TypeOK /\ TypeOK'
  BY DEF LootInv
<1>1. PICK b : b = made + 1
  OBVIOUS
<1>2. /\ made' = b /\ inventory' = inventory
      /\ entry' = [entry EXCEPT ![b] = [at |-> place, item |-> kind, qty |-> 1]]
      /\ ledger' = [ledger EXCEPT ![kind] = @ + 1]
  BY <1>1 DEF Post
<1>3. b \in Ids /\ entry[b] = NoEntry
  <2>1. made \in Nat
    BY <1>0, MadeType
  <2>2. b \in 0 .. MaxIds
    BY <1>0, <1>2 DEF TypeOK
  <2>3. b \in 1 .. MaxIds /\ ~(b <= made)
    BY <1>1, <2>1, <2>2, LootAssumption
  <2> QED
    BY <1>0, <2>3 DEF TypeOK, Ids
<1>4. /\ \A e \in Ids \ {b} : entry'[e] = entry[e]
      /\ entry'[b] = [at |-> place, item |-> kind, qty |-> 1]
  BY <1>0, <1>2, <1>3 DEF TypeOK
<1>5. Counted(entry[b], item) = 0 /\ Counted(entry'[b], item) = One(item = kind)
  BY <1>3, <1>4 DEF Counted, NoEntry, One
<1>6. ledger[item] \in Int
  BY <1>0 DEF TypeOK
<1>7. ledger'[item] = ledger[item] + One(item = kind)
  BY <1>0, <1>2, <1>6 DEF TypeOK, One
<1>8. ledger'[item] = (ledger[item] + Counted(entry'[b], item)) - Counted(entry[b], item)
  <2>1. One(item = kind) \in Int
    BY DEF One
  <2> QED
    BY <1>5, <1>6, <1>7, <2>1
<1> QED
  BY <1>2, <1>3, <1>4, <1>8, EditBalances

LEMMA PatchBalances ==
  ASSUME LootInv, LootInv', NEW b \in Ids, NEW n \in Counts, Patch(b, n),
         NEW item \in Items, Balance(item)
  PROVE  Balance(item)'
<1>0. TypeOK
  BY DEF LootInv
<1>1. /\ entry[b] # NoEntry /\ inventory' = inventory
      /\ entry' = [entry EXCEPT ![b].qty = n]
      /\ ledger' = [ledger EXCEPT ![entry[b].item] = (@ + n) - entry[b].qty]
  BY DEF Patch
<1>2. /\ entry[b] \in [at : Places, item : Items, qty : Nat \ {0}]
      /\ entry[b].item \in Items /\ entry[b].qty \in Nat /\ n \in Nat
  BY <1>0, <1>1, EntryFields DEF Counts
<1>3. /\ \A e \in Ids \ {b} : entry'[e] = entry[e]
      /\ entry'[b] = [entry[b] EXCEPT !.qty = n]
  BY <1>0, <1>1 DEF TypeOK
<1>4. entry'[b].item = entry[b].item /\ entry'[b].qty = n
  BY <1>2, <1>3
<1>5. ledger[item] \in Int /\ ledger \in [Items -> Int]
  BY <1>0 DEF TypeOK
<1>6. ledger'[item] = (ledger[item] + Counted(entry'[b], item)) - Counted(entry[b], item)
  <2>1. CASE item = entry[b].item
    <3>1. Counted(entry'[b], item) = n /\ Counted(entry[b], item) = entry[b].qty
      BY <1>4, <2>1 DEF Counted
    <3>2. ledger'[item] = (ledger[item] + n) - entry[b].qty
      BY <1>1, <1>5, <2>1
    <3> QED
      BY <3>1, <3>2
  <2>2. CASE item # entry[b].item
    <3>1. Counted(entry'[b], item) = 0 /\ Counted(entry[b], item) = 0
      BY <1>4, <2>2 DEF Counted
    <3>2. ledger'[item] = ledger[item]
      BY <1>1, <1>5, <2>2
    <3> QED
      BY <1>5, <3>1, <3>2
  <2> QED
    BY <2>1, <2>2
<1> QED
  BY <1>1, <1>3, <1>6, EditBalances

LEMMA RemoveBalances ==
  ASSUME LootInv, LootInv', NEW b \in Ids, Remove(b), NEW item \in Items, Balance(item)
  PROVE  Balance(item)'
<1>0. TypeOK
  BY DEF LootInv
<1>1. /\ entry[b] # NoEntry /\ inventory' = inventory
      /\ entry' = [entry EXCEPT ![b] = NoEntry]
      /\ ledger' = [ledger EXCEPT ![entry[b].item] = @ - entry[b].qty]
  BY DEF Remove
<1>2. entry[b].item \in Items /\ entry[b].qty \in Nat
  BY <1>0, <1>1, EntryFields
<1>3. entry'[b] = NoEntry /\ \A e \in Ids \ {b} : entry'[e] = entry[e]
  BY <1>0, <1>1 DEF TypeOK
<1>4. Counted(entry'[b], item) = 0
  BY <1>3 DEF Counted, NoEntry
<1>5. ledger[item] \in Int /\ ledger \in [Items -> Int]
  BY <1>0 DEF TypeOK
<1>6. ledger'[item] = (ledger[item] + Counted(entry'[b], item)) - Counted(entry[b], item)
  <2>1. CASE item = entry[b].item
    <3>1. Counted(entry[b], item) = entry[b].qty
      BY <2>1 DEF Counted
    <3>2. ledger'[item] = ledger[item] - entry[b].qty
      BY <1>1, <1>5, <2>1
    <3> QED
      BY <1>2, <1>4, <1>5, <3>1, <3>2
  <2>2. CASE item # entry[b].item
    <3>1. Counted(entry[b], item) = 0
      BY <2>2 DEF Counted
    <3>2. ledger'[item] = ledger[item]
      BY <1>1, <1>5, <2>2
    <3> QED
      BY <1>4, <1>5, <3>1, <3>2
  <2> QED
    BY <2>1, <2>2
<1> QED
  BY <1>1, <1>3, <1>6, EditBalances

LEMMA InitBalances ==
  ASSUME Init, NEW item \in Items
  PROVE  Balance(item)
<1>1. inventory = Start /\ entry = [e \in Ids |-> NoEntry] /\ ledger[item] = InLists(Start, item)
  BY DEF Init
<1>2. Lying(item) = Among(entry, item)
  BY DEF Lying, Among
<1>3. PICK entries : entries = entry
  OBVIOUS
<1>4. \A e \in Ids : entries[e].qty = 0
  BY <1>1, <1>3 DEF NoEntry
<1>5. Lying(item) = 0
  BY <1>2, <1>3, <1>4, AmongNone
<1>6. Owned(item) = InLists(Start, item)
  BY <1>1 DEF Owned
<1>7. InLists(Start, item) \in Int
  BY LootAssumption, InListsIsInt DEF Lists
<1> QED
  BY <1>1, <1>5, <1>6, <1>7 DEF Balance

LEMMA NextBalances ==
  ASSUME LootInv, LootInv', NothingLostOrDoubled, [Next]_vars
  PROVE  NothingLostOrDoubled'
<1> SUFFICES ASSUME ~blind', NEW item \in Items PROVE Balance(item)'
  BY DEF NothingLostOrDoubled, Balance
<1>0. ~blind => Balance(item)
  BY DEF NothingLostOrDoubled, Balance
<1>1. CASE UNCHANGED <<inventory, entry, ledger, blind>>
  <2>1. Balance(item)
    BY <1>0, <1>1
  <2> QED
    BY <1>1, <2>1, SameBalance
<1>2. ASSUME NEW r \in Requests, Take(r) PROVE Balance(item)'
  <2>1. Balance(item)
    BY <1>0, <1>2 DEF Take
  <2> QED
    BY <1>2, <2>1, TakeBalances
<1>3. ASSUME NEW r \in Requests, Drop(r) PROVE Balance(item)'
  <2>1. Balance(item)
    BY <1>0, <1>3 DEF Drop, history
  <2> QED
    BY <1>3, <2>1, DropBalances
<1>4. ASSUME NEW r \in Requests, Transfer(r) PROVE Balance(item)'
  <2>1. Balance(item)
    BY <1>0, <1>4 DEF Transfer
  <2> QED
    BY <1>4, <2>1, TransferBalances
<1>5. ASSUME NEW r \in Requests, Enrich(r) PROVE Balance(item)'
  <2>1. /\ Does(r, "enrich") /\ inventory' = [inventory EXCEPT ![req[r].to] = req[r].list]
        /\ blind' = (blind \/ ~req[r].fresh) /\ UNCHANGED <<entry, ledger>>
    BY <1>5 DEF Enrich, WriteRow
  <2>2. ~blind /\ req[r].fresh
    BY <2>1
  <2> QED
    BY <1>0, <2>1, <2>2, WriteBackBalances DEF Rewriting, Does
<1>6. ASSUME NEW r \in Requests, Rewrite(r) PROVE Balance(item)'
  <2>1. /\ Does(r, "rewrite") /\ UNCHANGED <<entry, ledger, blind>>
        /\ req[r].fresh => inventory' = [inventory EXCEPT ![req[r].to] = req[r].list]
        /\ ~req[r].fresh => UNCHANGED inventory
    BY <1>6 DEF Rewrite, WriteRow, history
  <2>2. CASE req[r].fresh
    BY <1>0, <2>1, <2>2, WriteBackBalances DEF Rewriting, Does
  <2>3. CASE ~req[r].fresh
    BY <1>1, <2>1, <2>3
  <2> QED
    BY <2>2, <2>3
<1>7. ASSUME NEW place \in Places, NEW kind \in Items, Post(place, kind) PROVE Balance(item)'
  <2>1. Balance(item)
    BY <1>0, <1>7 DEF Post
  <2> QED
    BY <1>7, <2>1, PostBalances
<1>8. ASSUME NEW e \in Ids, NEW n \in Counts, Patch(e, n) PROVE Balance(item)'
  <2>1. Balance(item)
    BY <1>0, <1>8 DEF Patch
  <2> QED
    BY <1>8, <2>1, PatchBalances
<1>9. ASSUME NEW e \in Ids, Remove(e) PROVE Balance(item)'
  <2>1. Balance(item)
    BY <1>0, <1>9 DEF Remove
  <2> QED
    BY <1>9, <2>1, RemoveBalances
<1>10. ASSUME NEW r \in Requests, Ask(r) \/ Lock(r) \/ Remains(r) \/ Despawn(r) \/ Fail(r)
       PROVE  UNCHANGED <<inventory, entry, ledger, blind>>
  BY <1>10 DEF Ask, AskTake, AskTransfer, AskDrop, Read, Lock, TakeEntry, TakeTarget, TransferEntry,
     DropRow, Remains, Despawn, Fail, history
<1>11. ASSUME UNCHANGED vars PROVE UNCHANGED <<inventory, entry, ledger, blind>>
  BY <1>11 DEF vars
<1>12. CASE \E r \in Requests : Ask(r) \/ Lock(r) \/ Finish(r)
  BY <1>1, <1>2, <1>3, <1>4, <1>5, <1>6, <1>10, <1>12 DEF Finish
<1>13. CASE Edit
  BY <1>7, <1>8, <1>9, <1>13 DEF Edit, Places
<1> QED
  BY <1>1, <1>11, <1>12, <1>13 DEF Next

(* No item is lost or doubled by any number of takes, transfers, drops,    *)
(* sheet edits and enrichments in flight at once, for any number of stacks *)
(* and entries, unless an enrichment went over a newer row (blind): what   *)
(* every request writes is what the row has less or more what it moves.    *)
THEOREM ItemsAreConserved == Spec => []NothingLostOrDoubled
<1>1. Init => NothingLostOrDoubled
  BY InitBalances DEF NothingLostOrDoubled, Balance
<1>2. LootInv /\ LootInv' /\ NothingLostOrDoubled /\ [Next]_vars => NothingLostOrDoubled'
  BY NextBalances
<1> QED
  BY <1>1, <1>2, LootInvHolds, PTL DEF Spec

----------------------------------------------------------------------------
(* Bags and their tokens.                                                  *)

\* Whoever has emptied a bag is still to remove it.
Leaving(b) == \E r \in Requests : req[r].does \in {"remains", "despawn"} /\ req[r].from = b

BagsFound == \A b \in bags \ late : b \notin token \/ Removing(b) => Within(b) = {}
BagsLeave == \A b \in bags \ spilled : Within(b) = {} /\ b \in token => Leaving(b)

BagInv == BagsFound /\ BagsLeave

\* The end of a take, and the bag it is about.
AtTheEnd(x) == x.does \in {"remains", "despawn"}
EndsOf(r, b) == AtTheEnd(req[r]) /\ req[r].from = b

\* Only r has a step of its own; for the others a row may have become old.
OnlyMoves(r) ==
  \A s \in Requests \ {r} : AtTheEnd(req[s]) \/ AtTheEnd(req'[s]) => req'[s] = req[s]

LEMMA GoesMoves ==
  ASSUME TypeOK, NEW r \in Requests, NEW next, Goes(r, next)
  PROVE  req'[r] = next /\ OnlyMoves(r)
BY DEF OnlyMoves, Goes, TypeOK

LEMMA WriteRowMoves ==
  ASSUME TypeOK, NEW r \in Requests, NEW c, NEW list, NEW next, WriteRow(r, c, list, next)
  PROVE  req'[r] = next /\ OnlyMoves(r)
<1>1. /\ req' = [Written(c) EXCEPT ![r] = next]
      /\ Written(c) = [q \in Requests |->
           IF req[q].does \in {"enrich", "rewrite"} /\ req[q].to = c
             THEN [req[q] EXCEPT !.fresh = FALSE] ELSE req[q]]
  BY DEF WriteRow, Written
<1>2. req'[r] = next
  BY <1>1
<1>3. ASSUME NEW s \in Requests \ {r}, AtTheEnd(req[s]) \/ AtTheEnd(req'[s])
      PROVE  req'[s] = req[s]
  <2>1. CASE req[s].does \in {"enrich", "rewrite"} /\ req[s].to = c
    <3>1. req'[s] = [req[s] EXCEPT !.fresh = FALSE]
      BY <1>1, <2>1
    <3>2. req[s] \in [does : {"enrich", "rewrite"}, to : Pcs, list : Lists, fresh : BOOLEAN]
      BY <2>1, StateFields DEF TypeOK
    <3>3. [req[s] EXCEPT !.fresh = FALSE].does = req[s].does
      BY <3>2
    <3> QED
      BY <1>3, <2>1, <3>1, <3>3 DEF AtTheEnd
  <2>2. CASE ~(req[s].does \in {"enrich", "rewrite"} /\ req[s].to = c)
    BY <1>1, <2>2
  <2> QED
    BY <2>1, <2>2
<1> QED
  BY <1>2, <1>3 DEF OnlyMoves

\* Who removes a bag after a step of r.
LEMMA RemovingAfter ==
  ASSUME NEW r \in Requests, OnlyMoves(r), NEW b
  PROVE  Removing(b)' => Removing(b) \/ (req'[r].does = "despawn" /\ req'[r].from = b)
BY DEF OnlyMoves, Removing, Does, AtTheEnd

LEMMA LeavingAfter ==
  ASSUME NEW r \in Requests, OnlyMoves(r), NEW b, ~EndsOf(r, b), Leaving(b)
  PROVE  Leaving(b)'
BY DEF OnlyMoves, Leaving, EndsOf, AtTheEnd

LEMMA BagsAreNumbered ==
  ASSUME TypeOK
  PROVE  /\ NoEntry.at \notin bags /\ made + 1 \notin bags
         /\ \A b \in bags : b \in Places /\ b \in Nat /\ b \notin Pcs
BY MadeType, LootAssumption, SMTT(20) DEF TypeOK, NoEntry, Places

\* A step that leaves the bags and what is in them alone, and neither is
\* the end of a take nor becomes one.
LEMMA BagsLeftAlone ==
  ASSUME BagInv, NEW r \in Requests, OnlyMoves(r),
         ~AtTheEnd(req[r]), ~AtTheEnd(req'[r]),
         bags' = bags, token' = token, spilled' = spilled, late' = late,
         \A b \in bags : Within(b)' = Within(b)
  PROVE  BagInv'
<1>1. ASSUME NEW b PROVE (Removing(b)' => Removing(b)) /\ (Leaving(b) => Leaving(b)')
  <2>1. ~EndsOf(r, b) /\ req'[r].does # "despawn"
    BY DEF EndsOf, AtTheEnd
  <2> QED
    BY <2>1, RemovingAfter, LeavingAfter
<1>2. BagsFound'
  BY <1>1 DEF BagInv, BagsFound
<1>3. BagsLeave'
  BY <1>1 DEF BagInv, BagsLeave
<1> QED
  BY <1>2, <1>3 DEF BagInv

LEMMA MovesLeaveBags ==
  ASSUME TypeOK, BagInv, NEW r \in Requests, NEW next, Goes(r, next),
         ~AtTheEnd(req[r]), ~AtTheEnd(next),
         UNCHANGED <<entry, bags, token, spilled, late>>
  PROVE  BagInv'
<1>1. req'[r] = next /\ OnlyMoves(r)
  BY GoesMoves
<1>2. \A b \in bags : Within(b)' = Within(b)
  BY DEF Within
<1> QED
  BY <1>1, <1>2, BagsLeftAlone

LEMMA AskKeepsBags ==
  ASSUME TypeOK, BagInv, NEW r \in Requests, Ask(r)
  PROVE  BagInv'
<1>1. Does(r, "idle") /\ UNCHANGED <<entry, bags, token, spilled, late>>
  BY DEF Ask, AskTake, AskTransfer, AskDrop, Read, history
<1>2. ~AtTheEnd(req[r])
  BY <1>1 DEF Does, AtTheEnd
<1>3. ASSUME NEW e \in Ids, NEW to \in Pcs, AskTake(r, e, to) PROVE BagInv'
  <2> DEFINE next == [does |-> "take entry", e |-> e, from |-> entry[e].at, to |-> to]
  <2>1. Goes(r, next) /\ ~AtTheEnd(next)
    BY <1>3 DEF AskTake, AtTheEnd
  <2> HIDE DEF next
  <2> QED
    BY <1>1, <1>2, <2>1, MovesLeaveBags
<1>4. ASSUME NEW e \in Ids, NEW to, AskTransfer(r, e, to) PROVE BagInv'
  <2> DEFINE next == [does |-> "transfer entry", e |-> e, from |-> entry[e].at, to |-> to]
  <2>1. Goes(r, next) /\ ~AtTheEnd(next)
    BY <1>4 DEF AskTransfer, AtTheEnd
  <2> HIDE DEF next
  <2> QED
    BY <1>1, <1>2, <2>1, MovesLeaveBags
<1>5. ASSUME NEW c \in Pcs, NEW i, AskDrop(r, c, i) PROVE BagInv'
  <2> DEFINE next == [does |-> "drop row", to |-> c, i |-> i]
  <2>1. Goes(r, next) /\ ~AtTheEnd(next)
    BY <1>5 DEF AskDrop, AtTheEnd
  <2> HIDE DEF next
  <2> QED
    BY <1>1, <1>2, <2>1, MovesLeaveBags
<1>6. ASSUME NEW c \in Pcs, NEW what \in {"enrich", "rewrite"}, Read(r, c, what) PROVE BagInv'
  <2> DEFINE next == [does |-> what, to |-> c, list |-> inventory[c], fresh |-> TRUE]
  <2>1. Goes(r, next) /\ ~AtTheEnd(next)
    BY <1>6 DEF Read, AtTheEnd
  <2> HIDE DEF next
  <2> QED
    BY <1>1, <1>2, <2>1, MovesLeaveBags
<1> QED
  BY <1>3, <1>4, <1>5, <1>6 DEF Ask

LEMMA LockKeepsBags ==
  ASSUME TypeOK, BagInv, NEW r \in Requests, Lock(r)
  PROVE  BagInv'
<1>1. UNCHANGED <<entry, bags, token, spilled, late>>
  BY DEF Lock, TakeEntry, TakeTarget, TransferEntry, DropRow, history
<1>2. ~AtTheEnd(req[r])
  BY DEF Lock, TakeEntry, TakeTarget, TransferEntry, DropRow, Does, AtTheEnd
<1>3. ASSUME NEW next, Goes(r, next), ~AtTheEnd(next) PROVE BagInv'
  BY <1>1, <1>2, <1>3, MovesLeaveBags
<1>4. CASE Ends(r)
  BY <1>3, <1>4 DEF Ends, Idle, AtTheEnd
<1>5. ASSUME NEW to, Goes(r, [req[r] EXCEPT !.does = to]), to \in {"take target", "transfer"},
             req[r].does \in {"take entry", "transfer entry"}
      PROVE  BagInv'
  <2> DEFINE next == [req[r] EXCEPT !.does = to]
  <2>1. next.does = to
    BY <1>5, StateFields DEF TypeOK
  <2>2. ~AtTheEnd(next)
    BY <1>5, <2>1 DEF AtTheEnd
  <2> HIDE DEF next
  <2> QED
    BY <1>3, <1>5, <2>2 DEF next
<1>6. CASE TakeEntry(r)
  BY <1>4, <1>5, <1>6 DEF TakeEntry, Does
<1>7. CASE TransferEntry(r)
  BY <1>4, <1>5, <1>7 DEF TransferEntry, Does
<1>8. CASE TakeTarget(r)
  <2> DEFINE next == [does |-> "take", e |-> req[r].e, from |-> req[r].from, to |-> req[r].to,
                      qty |-> entry[req[r].e].qty, item |-> entry[req[r].e].item,
                      list |-> inventory[req[r].to]]
  <2>1. Goes(r, next) /\ ~AtTheEnd(next)
    BY <1>8 DEF TakeTarget, AtTheEnd
  <2> HIDE DEF next
  <2> QED
    BY <1>3, <2>1
<1>9. CASE DropRow(r)
  <2> DEFINE next == [does |-> "drop", to |-> req[r].to, i |-> req[r].i,
                      list |-> inventory[req[r].to]]
  <2>1. (Goes(r, next) \/ Ends(r)) /\ ~AtTheEnd(next)
    BY <1>9 DEF DropRow, AtTheEnd
  <2> HIDE DEF next
  <2> QED
    BY <1>3, <1>4, <2>1
<1> QED
  BY <1>6, <1>7, <1>8, <1>9 DEF Lock

LEMMA WriteBackKeepsBags ==
  ASSUME TypeOK, BagInv, NEW r \in Requests, Enrich(r) \/ Rewrite(r)
  PROVE  BagInv'
<1>1. /\ bags' = bags /\ token' = token /\ spilled' = spilled /\ late' = late /\ entry' = entry
  BY DEF Enrich, Rewrite, history
<1>2. req[r].does \in {"enrich", "rewrite"}
  BY DEF Enrich, Rewrite, Does
<1>3. PICK c, list, next : c = req[r].to /\ list = req[r].list /\ next = Idle
  OBVIOUS
<1>4. OnlyMoves(r) /\ req'[r] = Idle
  <2>1. CASE WriteRow(r, c, list, next)
    BY <1>3, <2>1, WriteRowMoves
  <2>2. CASE Ends(r)
    BY <2>2, GoesMoves DEF Ends
  <2> QED
    BY <1>3, <2>1, <2>2 DEF Enrich, Rewrite
<1>5. ~AtTheEnd(req[r]) /\ ~AtTheEnd(req'[r])
  BY <1>2, <1>4 DEF AtTheEnd, Idle
<1>6. \A b \in bags : Within(b)' = Within(b)
  BY <1>1 DEF Within
<1> QED
  BY <1>1, <1>4, <1>5, <1>6, BagsLeftAlone

\* What lies in a place after a step that changes one entry.
LEMMA WithinAfter ==
  ASSUME NEW e \in Ids, \A d \in Ids \ {e} : entry'[d] = entry[d], NEW place
  PROVE  /\ Within(place) \ {e} \subseteq Within(place)'
         /\ Within(place)' \subseteq Within(place) \cup {e}
         /\ e \in Within(place) <=> entry[e].at = place
         /\ e \in Within(place)' <=> entry'[e].at = place
BY DEF Within

LEMMA TakeKeepsBags ==
  ASSUME LootInv, BagInv, NEW r \in Requests, Take(r)
  PROVE  BagInv'
<1>0. TypeOK /\ EntryLocks
  BY DEF LootInv
<1>1. PICK q : q = req[r]
  OBVIOUS
<1>2. q.does = "take" /\ q.e \in Ids /\ q.from \in Places /\ q.to \in Pcs /\ entry[q.e].at = q.from
  <2>1. q.does = "take"
    BY <1>1 DEF Take, Does
  <2>2. q.e \in 1 .. made /\ q.from \in Places /\ q.to \in Pcs
    BY <1>0, <1>1, <2>1, StateFields DEF TypeOK
  <2> QED
    BY <1>0, <1>1, <2>1, <2>2, MadeIds DEF EntryLocks, HasEntry
<1> DEFINE after == IF q.from \in bags THEN [does |-> "remains", from |-> q.from] ELSE Idle
           list == Added(q.list, q.item)
<1>3. /\ WriteRow(r, q.to, list, after)
      /\ bags' = bags /\ token' = token /\ late' = late /\ spilled' = spilled \ {q.from}
  BY <1>1 DEF Take
<1>4. after.does # "despawn" /\ (q.from \in bags => after.does = "remains" /\ after.from = q.from)
  BY DEF Idle
<1> HIDE DEF after, list
<1>5. PICK c : c = q.to
  OBVIOUS
<1>6. req'[r] = after /\ OnlyMoves(r)
  BY <1>0, <1>3, <1>5, WriteRowMoves
<1>7. /\ \A d \in Ids \ {q.e} : entry'[d] = entry[d]
      /\ entry'[q.e].at \in {q.from, NoEntry.at}
  <2>1. entry \in [Ids -> [at : Places, item : Items, qty : Nat \ {0}] \cup {NoEntry}]
    BY <1>0 DEF TypeOK
  <2>2. CASE entry' = [entry EXCEPT ![q.e] = NoEntry]
    BY <1>2, <2>1, <2>2
  <2>3. CASE entry' = [entry EXCEPT ![q.e].qty = @ - 1]
    <3>1. entry'[q.e] = [entry[q.e] EXCEPT !.qty = @ - 1]
      BY <1>2, <2>1, <2>3
    <3>2. entry'[q.e].at = entry[q.e].at
      BY <1>2, <2>1, <3>1 DEF NoEntry
    <3> QED
      BY <1>2, <2>1, <2>3, <3>2
  <2> QED
    BY <1>1, <2>2, <2>3 DEF Take
<1>8. \A b \in bags : /\ Within(b)' \subseteq Within(b)
                      /\ b # q.from => Within(b)' = Within(b)
  <2>1. PICK e \in Ids : e = q.e
    BY <1>2
  <2>2. NoEntry.at \notin bags
    BY <1>0, BagsAreNumbered
  <2>3. ASSUME NEW b \in bags
        PROVE  /\ Within(b)' \subseteq Within(b) \cup {e} /\ Within(b) \ {e} \subseteq Within(b)'
               /\ e \in Within(b) <=> b = q.from
               /\ e \in Within(b)' => b = q.from
    BY <1>2, <1>7, <2>1, <2>2, WithinAfter
  <2> QED
    BY <2>3
<1>9. ASSUME NEW b PROVE (Removing(b)' => Removing(b)) /\ (Leaving(b) => Leaving(b)')
  <2>1. ~EndsOf(r, b)
    BY <1>1, <1>2 DEF EndsOf, AtTheEnd
  <2> QED
    BY <1>4, <1>6, <2>1, RemovingAfter, LeavingAfter
<1>10. BagsFound'
  BY <1>3, <1>8, <1>9 DEF BagInv, BagsFound
<1>11. ASSUME NEW b \in bags', b \notin spilled', Within(b)' = {}, b \in token'
       PROVE  Leaving(b)'
  <2>1. CASE b = q.from
    BY <1>3, <1>4, <1>6, <1>11, <2>1 DEF Leaving
  <2>2. CASE b # q.from
    BY <1>3, <1>8, <1>9, <1>11, <2>2 DEF BagInv, BagsLeave
  <2> QED
    BY <2>1, <2>2
<1>12. BagsLeave'
  BY <1>11 DEF BagsLeave
<1> QED
  BY <1>10, <1>12 DEF BagInv

LEMMA RemainsKeepsBags ==
  ASSUME TypeOK, BagInv, NEW r \in Requests, Remains(r)
  PROVE  BagInv'
<1>1. PICK from : from = req[r].from
  OBVIOUS
<1>2. /\ req[r].does = "remains"
      /\ UNCHANGED <<entry, bags, token, spilled, late>>
      /\ IF Within(from) = {} THEN Goes(r, [req[r] EXCEPT !.does = "despawn"]) ELSE Goes(r, Idle)
  BY <1>1 DEF Remains, Does, Ends, history
<1>3. OnlyMoves(r)
  BY <1>2, GoesMoves
<1>4. CASE Within(from) = {}
  <2>1. req'[r].does = "despawn" /\ req'[r].from = from
    <3>1. req[r] \in [does : {"remains", "despawn"}, from : bags]
      BY <1>2, StateFields DEF TypeOK
    <3>2. req'[r] = [req[r] EXCEPT !.does = "despawn"]
      BY <1>2, <1>4 DEF Goes, TypeOK
    <3> QED
      BY <1>1, <3>1, <3>2
  <2>2. ASSUME NEW b PROVE Removing(b)' => Removing(b) \/ b = from
    BY <1>3, <2>1, RemovingAfter
  <2>3. ASSUME NEW b PROVE Leaving(b) => Leaving(b)'
    <3>1. CASE b = from
      BY <2>1, <3>1 DEF Leaving
    <3>2. CASE b # from
      BY <1>1, <1>3, <3>2, LeavingAfter DEF EndsOf
    <3> QED
      BY <3>1, <3>2
  <2>4. \A b \in bags : Within(b)' = Within(b)
    BY <1>2 DEF Within
  <2> QED
    BY <1>2, <1>4, <2>2, <2>3, <2>4 DEF BagInv, BagsFound, BagsLeave
<1>5. CASE Within(from) # {}
  <2>1. req'[r] = Idle
    BY <1>2, <1>5 DEF Goes, TypeOK
  <2>2. ASSUME NEW b PROVE Removing(b)' => Removing(b)
    BY <1>3, <2>1, RemovingAfter DEF Idle
  <2>3. ASSUME NEW b, b # from PROVE Leaving(b) => Leaving(b)'
    BY <1>1, <1>3, <2>3, LeavingAfter DEF EndsOf
  <2>4. \A b \in bags : Within(b)' = Within(b)
    BY <1>2 DEF Within
  <2> QED
    BY <1>2, <1>5, <2>2, <2>3, <2>4 DEF BagInv, BagsFound, BagsLeave
<1> QED
  BY <1>4, <1>5

LEMMA DespawnKeepsBags ==
  ASSUME TypeOK, BagInv, NEW r \in Requests, Despawn(r)
  PROVE  BagInv'
<1>1. PICK from, next : from = req[r].from /\ next = Idle
  OBVIOUS
<1>2. /\ req[r].does = "despawn" /\ Goes(r, next)
      /\ token' = token \ {from} /\ UNCHANGED <<entry, bags, spilled, late>>
  BY <1>1 DEF Despawn, Does, Ends, history
<1>3. OnlyMoves(r) /\ req'[r] = next
  BY <1>2, GoesMoves
<1>4. ASSUME NEW b PROVE Removing(b)' => Removing(b)
  BY <1>1, <1>3, RemovingAfter DEF Idle
<1>5. ASSUME NEW b, b # from PROVE Leaving(b) => Leaving(b)'
  BY <1>1, <1>3, <1>5, LeavingAfter DEF EndsOf
<1>6. \A b \in bags : Within(b)' = Within(b)
  BY <1>2 DEF Within
<1>7. Removing(from)
  BY <1>1, <1>2 DEF Removing, Does
<1>8. BagsFound'
  BY <1>2, <1>4, <1>6, <1>7 DEF BagInv, BagsFound
<1>9. BagsLeave'
  BY <1>2, <1>5, <1>6 DEF BagInv, BagsLeave
<1> QED
  BY <1>8, <1>9 DEF BagInv

LEMMA FailKeepsBags ==
  ASSUME TypeOK, BagInv, NEW r \in Requests, Fail(r)
  PROVE  BagInv'
<1>1. PICK next : next = Idle
  OBVIOUS
<1>2. Goes(r, next) /\ UNCHANGED <<entry, bags, late>>
  BY <1>1 DEF Fail, Ends
<1>3. OnlyMoves(r) /\ req'[r] = next
  BY <1>2, GoesMoves
<1>4. ASSUME NEW b PROVE Removing(b)' => Removing(b)
  BY <1>1, <1>3, RemovingAfter DEF Idle
<1>5. ASSUME NEW b, ~EndsOf(r, b) PROVE Leaving(b) => Leaving(b)'
  BY <1>3, <1>5, LeavingAfter
<1>6. \A b \in bags : Within(b)' = Within(b)
  BY <1>2 DEF Within
<1>7. ASSUME NEW b, b \in token, b \notin token' PROVE Removing(b)
  BY <1>7 DEF Fail, Removing
<1>8. BagsFound'
  BY <1>2, <1>4, <1>6, <1>7 DEF BagInv, BagsFound
<1>9. ASSUME NEW b \in bags \ spilled', Within(b) = {}, b \in token'
      PROVE  Leaving(b)'
  <2>1. b \notin spilled /\ b \in token
    BY <1>9 DEF Fail
  <2>2. Leaving(b)
    BY <1>9, <2>1 DEF BagInv, BagsLeave
  <2>3. CASE ~EndsOf(r, b)
    BY <1>5, <2>2, <2>3
  <2>4. CASE EndsOf(r, b)
    <3>1. PICK s \in Requests \ {r} : LooksAfter(s, b)
      BY <1>9, <2>4 DEF Fail, LooksAfter, EndsOf, AtTheEnd
    <3>2. req'[s] = req[s]
      BY <1>3, <3>1 DEF OnlyMoves, AtTheEnd, LooksAfter
    <3> QED
      BY <3>1, <3>2 DEF Leaving, LooksAfter
  <2> QED
    BY <2>3, <2>4
<1>10. BagsLeave'
  BY <1>2, <1>6, <1>9 DEF BagsLeave
<1> QED
  BY <1>8, <1>10 DEF BagInv

\* What r puts into a bag without a token, or whose tokens are going, is late.
LEMMA PutIntoLate ==
  ASSUME NEW place, PutInto(place), NEW b \in bags \ late'
  PROVE  b \notin late /\ (b = place => b \in token /\ ~Removing(b))
BY DEF PutInto

LEMMA OutOfSpilled ==
  ASSUME NEW place, NEW e, OutOf(place, e), NEW b \in bags \ spilled'
  PROVE  b \notin spilled /\ (b = place => Within(b) # {e})
BY DEF OutOf

LEMMA TransferKeepsBags ==
  ASSUME LootInv, BagInv, NEW r \in Requests, Transfer(r)
  PROVE  BagInv'
<1>0. TypeOK /\ EntryLocks
  BY DEF LootInv
<1>1. req[r].does = "transfer"
  BY DEF Transfer, Does
<1>2. /\ req[r].e \in Ids /\ req[r].from \in Places /\ req[r].to \in Places
      /\ entry[req[r].e].at = req[r].from
  <2>1. req[r].e \in 1 .. made /\ req[r].from \in Places /\ req[r].to \in Places
    BY <1>0, <1>1, StateFields DEF TypeOK
  <2> QED
    BY <1>0, <1>1, <2>1, MadeIds DEF EntryLocks, HasEntry
<1>3. PICK e \in Ids, from \in Places, to \in Places :
        e = req[r].e /\ from = req[r].from /\ to = req[r].to
  BY <1>2
<1>3a. PICK next : next = Idle
  OBVIOUS
<1>4. /\ Goes(r, next) /\ PutInto(to) /\ OutOf(from, e)
      /\ entry' = [entry EXCEPT ![e].at = to] /\ bags' = bags /\ token' = token
  BY <1>3, <1>3a DEF Transfer, Ends
<1>5. OnlyMoves(r) /\ req'[r] = next
  BY <1>0, <1>4, GoesMoves
<1>6. (\A d \in Ids \ {e} : entry'[d] = entry[d]) /\ entry[e].at = from /\ entry'[e].at = to
  <2>1. entry[e] \in [at : Places, item : Items, qty : Nat \ {0}] \cup {NoEntry}
    BY <1>0 DEF TypeOK
  <2>2. entry'[e] = [entry[e] EXCEPT !.at = to] /\ \A d \in Ids \ {e} : entry'[d] = entry[d]
    BY <1>0, <1>4 DEF TypeOK
  <2>3. entry'[e].at = to
    BY <2>1, <2>2 DEF NoEntry
  <2> QED
    BY <1>2, <1>3, <2>2, <2>3
<1>7. ASSUME NEW b
      PROVE  /\ b # to => Within(b)' \subseteq Within(b)
             /\ b # from => Within(b) \subseteq Within(b)'
             /\ Within(b) \ {e} \subseteq Within(b)'
             /\ e \in Within(to)' /\ e \in Within(from)
  BY <1>6, WithinAfter
<1>8. ASSUME NEW b PROVE (Removing(b)' => Removing(b)) /\ (Leaving(b) => Leaving(b)')
  <2>1. ~EndsOf(r, b) /\ next.does # "despawn"
    BY <1>1, <1>3a DEF EndsOf, AtTheEnd, Idle
  <2> QED
    BY <1>5, <2>1, RemovingAfter, LeavingAfter
<1>9. ASSUME NEW b \in bags' \ late', b \notin token' \/ Removing(b)'
      PROVE  Within(b)' = {}
  <2>1. b \notin late /\ b # to
    BY <1>4, <1>8, <1>9, PutIntoLate
  <2>2. Within(b) = {}
    BY <1>4, <1>8, <1>9, <2>1 DEF BagInv, BagsFound
  <2> QED
    BY <1>7, <2>1, <2>2
<1>10. ASSUME NEW b \in bags' \ spilled', Within(b)' = {}, b \in token'
       PROVE  Leaving(b)'
  <2>1. b \notin spilled /\ (b = from => Within(b) # {e})
    BY <1>4, <1>10, OutOfSpilled
  <2>2. b # from
    BY <1>7, <1>10, <2>1
  <2>3. Within(b) = {}
    BY <1>7, <1>10, <2>2
  <2> QED
    BY <1>4, <1>8, <1>10, <2>1, <2>3 DEF BagInv, BagsLeave
<1> QED
  BY <1>9, <1>10 DEF BagInv, BagsFound, BagsLeave

LEMMA DropKeepsBags ==
  ASSUME LootInv, LootInv', BagInv, NEW r \in Requests, Drop(r)
  PROVE  BagInv'
<1>0. TypeOK /\ TypeOK'
  BY DEF LootInv
<1>1. PICK e : e = made + 1
  OBVIOUS
<1> DEFINE list == Dropped(req[r].list, req[r].i)
           new == [at |-> e, item |-> req[r].list[req[r].i].item, qty |-> 1]
<1>2. /\ req[r].does = "drop" /\ WriteRow(r, req[r].to, list, Idle)
      /\ made' = e /\ bags' = bags \cup {e} /\ token' = token \cup {e}
      /\ spilled' = spilled /\ late' = late /\ entry' = [entry EXCEPT ![e] = new]
  BY <1>1 DEF Drop, Does, history
<1>3. new.at = e
  OBVIOUS
<1> HIDE DEF list, new
<1>4. PICK c, next : c = req[r].to /\ next = Idle
  OBVIOUS
<1>5. OnlyMoves(r) /\ req'[r] = next
  BY <1>0, <1>2, <1>4, WriteRowMoves
<1>6. e \in Ids /\ e \notin bags /\ NoEntry.at \notin bags
  <2>1. made \in Nat
    BY <1>0, MadeType
  <2>2. e \in 0 .. MaxIds
    BY <1>0, <1>2 DEF TypeOK
  <2> QED
    BY <1>0, <1>1, <2>1, <2>2, BagsAreNumbered, LootAssumption DEF Ids
<1>7. /\ \A d \in Ids \ {e} : entry'[d] = entry[d]
      /\ entry[e].at \notin bags /\ entry'[e].at = e
  <2>1. ~(e <= made)
    BY <1>0, <1>1, MadeType
  <2>2. entry[e] = NoEntry
    BY <1>0, <1>6, <2>1 DEF TypeOK
  <2>3. entry'[e] = new /\ \A d \in Ids \ {e} : entry'[d] = entry[d]
    BY <1>0, <1>2, <1>6 DEF TypeOK
  <2> QED
    BY <1>3, <1>6, <2>2, <2>3
<1>8. \A b \in bags : Within(b)' = Within(b)
  BY <1>6, <1>7, WithinAfter, SMTT(20)
<1>9. e \in Within(e)' /\ ~Removing(e)
  <2>1. e \in Within(e)'
    BY <1>6, <1>7, WithinAfter, SMTT(20)
  <2>2. ~Removing(e)
    <3>1. ASSUME NEW s \in Requests, req[s].does = "despawn" PROVE req[s].from \in bags
      BY <1>0, <3>1, StateFields DEF TypeOK
    <3> QED
      BY <1>6, <3>1 DEF Removing, Does
  <2> QED
    BY <2>1, <2>2
<1>10. ASSUME NEW b PROVE (Removing(b)' => Removing(b)) /\ (Leaving(b) => Leaving(b)')
  <2>1. ~EndsOf(r, b) /\ next.does # "despawn"
    BY <1>2, <1>4 DEF EndsOf, AtTheEnd, Idle
  <2> QED
    BY <1>5, <2>1, RemovingAfter, LeavingAfter
<1>11. ASSUME NEW b \in bags' \ late', b \notin token' \/ Removing(b)'
       PROVE  Within(b)' = {}
  <2>1. b # e
    BY <1>2, <1>9, <1>10, <1>11
  <2>2. b \in bags \ late /\ Within(b) = {}
    BY <1>2, <1>10, <1>11, <2>1 DEF BagInv, BagsFound
  <2> QED
    BY <1>8, <2>2
<1>12. ASSUME NEW b \in bags' \ spilled', Within(b)' = {}, b \in token'
       PROVE  Leaving(b)'
  <2>1. b # e
    BY <1>9, <1>12
  <2>2. b \in bags \ spilled /\ b \in token /\ Within(b) = {}
    BY <1>2, <1>8, <1>12, <2>1
  <2> QED
    BY <1>10, <2>2 DEF BagInv, BagsLeave
<1> QED
  BY <1>11, <1>12 DEF BagInv, BagsFound, BagsLeave

LEMMA PostKeepsBags ==
  ASSUME LootInv, LootInv', BagInv, NEW place, NEW item, Post(place, item)
  PROVE  BagInv'
<1>0. TypeOK /\ TypeOK'
  BY DEF LootInv
<1>1. PICK e : e = made + 1
  OBVIOUS
<1>2. /\ made' = e /\ PutInto(place) /\ entry' = [entry EXCEPT ![e] = [at |-> place, item |-> item, qty |-> 1]]
      /\ bags' = bags /\ token' = token /\ req' = req /\ spilled' = spilled
  BY <1>1 DEF Post
<1>3. e \in Ids /\ NoEntry.at \notin bags
  <2>1. made \in Nat
    BY <1>0, MadeType
  <2>2. e \in 0 .. MaxIds
    BY <1>0, <1>2 DEF TypeOK
  <2> QED
    BY <1>0, <1>1, <2>1, <2>2, BagsAreNumbered, LootAssumption DEF Ids
<1>4. /\ \A d \in Ids \ {e} : entry'[d] = entry[d]
      /\ entry[e].at \notin bags /\ entry'[e].at = place
  <2>1. ~(e <= made)
    BY <1>0, <1>1, MadeType
  <2>2. entry[e] = NoEntry
    BY <1>0, <1>3, <2>1 DEF TypeOK
  <2> QED
    BY <1>0, <1>2, <1>3, <2>2 DEF TypeOK
<1>5. ASSUME NEW b \in bags
      PROVE  Within(b) \subseteq Within(b)' /\ (b # place => Within(b)' = Within(b))
  BY <1>3, <1>4, WithinAfter
<1>6. ASSUME NEW b PROVE (Removing(b)' <=> Removing(b)) /\ (Leaving(b)' <=> Leaving(b))
  BY <1>2 DEF Removing, Leaving, Does
<1>7. ASSUME NEW b \in bags' \ late', b \notin token' \/ Removing(b)'
      PROVE  Within(b)' = {}
  <2>1. b \notin late /\ b # place
    BY <1>2, <1>6, <1>7, PutIntoLate
  <2> QED
    BY <1>2, <1>5, <1>6, <1>7, <2>1 DEF BagInv, BagsFound
<1>8. ASSUME NEW b \in bags' \ spilled', Within(b)' = {}, b \in token'
      PROVE  Leaving(b)'
  <2>1. Within(b) = {}
    BY <1>2, <1>5, <1>8
  <2> QED
    BY <1>2, <1>6, <1>8, <2>1 DEF BagInv, BagsLeave
<1> QED
  BY <1>7, <1>8 DEF BagInv, BagsFound, BagsLeave

LEMMA PatchKeepsBags ==
  ASSUME TypeOK, BagInv, NEW e \in Ids, NEW n, Patch(e, n)
  PROVE  BagInv'
<1>1. /\ entry[e] # NoEntry /\ entry' = [entry EXCEPT ![e].qty = n]
      /\ UNCHANGED <<bags, token, req, spilled, late>>
  BY DEF Patch
<1>2. (\A d \in Ids \ {e} : entry'[d] = entry[d]) /\ entry'[e].at = entry[e].at
  <2>1. entry[e] \in [at : Places, item : Items, qty : Nat \ {0}]
    BY <1>1 DEF TypeOK
  <2>2. entry'[e] = [entry[e] EXCEPT !.qty = n] /\ \A d \in Ids \ {e} : entry'[d] = entry[d]
    BY <1>1 DEF TypeOK
  <2>3. entry'[e].at = entry[e].at
    BY <2>1, <2>2
  <2> QED
    BY <2>2, <2>3
<1>3. \A b \in bags : Within(b)' = Within(b)
  BY <1>2, WithinAfter
<1>4. ASSUME NEW b PROVE (Removing(b)' <=> Removing(b)) /\ (Leaving(b)' <=> Leaving(b))
  BY <1>1 DEF Removing, Leaving, Does
<1> QED
  BY <1>1, <1>3, <1>4 DEF BagInv, BagsFound, BagsLeave

LEMMA RemoveKeepsBags ==
  ASSUME TypeOK, BagInv, NEW e \in Ids, Remove(e)
  PROVE  BagInv'
<1>1. PICK place : place = entry[e].at
  OBVIOUS
<1>2. /\ entry' = [entry EXCEPT ![e] = NoEntry] /\ OutOf(place, e)
      /\ UNCHANGED <<bags, token, req, late>>
  BY <1>1 DEF Remove
<1>3. /\ \A d \in Ids \ {e} : entry'[d] = entry[d]
      /\ entry[e].at = place /\ entry'[e].at \notin bags
  BY <1>1, <1>2, BagsAreNumbered DEF TypeOK
<1>4. ASSUME NEW b \in bags
      PROVE  /\ Within(b)' \subseteq Within(b)
             /\ b # place => Within(b)' = Within(b)
             /\ Within(b) \ {e} \subseteq Within(b)'
  <2>1. /\ e \notin Within(b)'
        /\ e \in Within(b) <=> b = place
        /\ Within(b) \ {e} \subseteq Within(b)' /\ Within(b)' \subseteq Within(b) \cup {e}
    BY <1>3, WithinAfter
  <2> QED
    BY <2>1
<1>4a. e \in Within(place)
  BY <1>3 DEF Within
<1>5. ASSUME NEW b PROVE (Removing(b)' <=> Removing(b)) /\ (Leaving(b)' <=> Leaving(b))
  BY <1>2 DEF Removing, Leaving, Does
<1>6. BagsFound'
  BY <1>2, <1>4, <1>5 DEF BagInv, BagsFound
<1>7. ASSUME NEW b \in bags' \ spilled', Within(b)' = {}, b \in token'
      PROVE  Leaving(b)'
  <2>1. b \notin spilled /\ (b = place => Within(b) # {e})
    BY <1>2, <1>7, OutOfSpilled
  <2>2. b # place /\ Within(b) = {}
    BY <1>2, <1>4, <1>4a, <1>7, <2>1
  <2> QED
    BY <1>2, <1>5, <1>7, <2>1, <2>2 DEF BagInv, BagsLeave
<1> QED
  BY <1>6, <1>7 DEF BagInv, BagsLeave

LEMMA InitKeepsBags == Init => BagInv
BY DEF Init, BagInv, BagsFound, BagsLeave

LEMMA NextKeepsBags ==
  ASSUME LootInv, LootInv', BagInv, [Next]_vars
  PROVE  BagInv'
<1>0. TypeOK
  BY DEF LootInv
<1>1. CASE \E r \in Requests : Ask(r) \/ Lock(r)
  BY <1>0, <1>1, AskKeepsBags, LockKeepsBags
<1>2. CASE \E r \in Requests : Finish(r)
  BY <1>0, <1>2, TakeKeepsBags, RemainsKeepsBags, DespawnKeepsBags, TransferKeepsBags,
     DropKeepsBags, WriteBackKeepsBags, FailKeepsBags DEF Finish
<1>3. CASE Edit
  BY <1>0, <1>3, PostKeepsBags, PatchKeepsBags, RemoveKeepsBags DEF Edit
<1>4. CASE UNCHANGED vars
  BY <1>4 DEF vars, BagInv, BagsFound, BagsLeave, Removing, Leaving, Within, Does
<1> QED
  BY <1>1, <1>2, <1>3, <1>4 DEF Next

LEMMA BagInvHolds == Spec => []BagInv
<1>1. LootInv /\ LootInv' /\ BagInv /\ [Next]_vars => BagInv'
  BY NextKeepsBags
<1> QED
  BY <1>1, InitKeepsBags, LootInvHolds, PTL DEF Spec

(* However many take from a bag, transfer, drop and edit at once: a bag    *)
(* with something in it is on the map, unless that was put in after        *)
(* somebody had found the bag empty (late).  Whoever is about to remove    *)
(* the tokens knows that nothing is left in the bag.                       *)
THEOREM FullBagsAreOnTheMap == Spec => []LootKeepsItsToken
<1>1. BagInv => LootKeepsItsToken
  BY DEF BagInv, BagsFound, LootKeepsItsToken
<1> QED
  BY <1>1, BagInvHolds, PTL

(* Once every request has ended, a bag that takes have emptied is off the  *)
(* map: a bag with a token and nothing in it still has a request that is   *)
(* going to look into it, whichever of several takes was the last.  Only   *)
(* the failure of the last request that was going to leaves it there, and  *)
(* such a bag counts as spilled.                                           *)
THEOREM EmptyBagsAreGone == Spec => []EmptiedBagGoes
<1>1. BagInv => EmptiedBagGoes
  BY DEF BagInv, BagsLeave, EmptiedBagGoes, Leaving, Does
<1> QED
  BY <1>1, BagInvHolds, PTL
=============================================================================
