--------------------------- MODULE CombatHpProofs ---------------------------
(***************************************************************************)
(* Proofs about CombatHp for any requests in flight, hit points and hits.  *)
(***************************************************************************)
EXTENDS CombatHp, TLAPS

(* Only a strike can be told that it failed, and every strike remembers    *)
(* what it has found and made.                                             *)
Sound(x) ==
  /\ x.does = "strike" => x.op \in Strikes
  /\ x.does = "told" /\ ~x.ok => x.op \in Strikes /\ x.was \in Health
  /\ x.does = "write" /\ x.op \in Strikes => x.write \in Health /\ x.was \in Health
  /\ x.does \in {"read", "write", "told"} => x.op \in Strikes \cup Copies

TypeInv == TypeOK /\ \A r \in Requests : Sound(req[r])

(* A strike that has changed memory, and neither the row nor memory back.  *)
Striking(r) ==
  req[r].op \in Strikes /\ (req[r].does = "write" \/ (req[r].does = "told" /\ ~req[r].ok))

(* A request that can only end by crossing another: a strike that will be  *)
(* refused and is not the last to have changed memory, a copy of something *)
(* outdated.                                                               *)
Lost(r) ==
  \/ Striking(r) /\ ~req[r].mine /\ (req[r].does = "told" \/ ~req[r].fresh)
  \/ Uncopied(r) /\ ~req[r].fresh

(* Two strikes below a third one: whichever moves first, the other is lost. *)
Hopeless ==
  \/ \E r \in Requests : Lost(r)
  \/ \E r, q \in Requests : r # q /\ Striking(r) /\ Striking(q) /\ ~req[r].mine /\ ~req[q].mine

(* What memory is made of, starting from b: the strikes on top of it.      *)
Stacked(b) ==
  /\ (\A r \in Requests : ~Striking(r)) => mem = b
  /\ \A r \in Requests : Striking(r) /\ (\A q \in Others(r) : ~Striking(q)) =>
       req[r].was = b /\ (req[r].does = "write" => mem = req[r].write)
  /\ \A r \in Requests, q \in Requests :
       r # q /\ Striking(r) /\ Striking(q) /\ req[r].mine =>
         /\ ~req[q].mine /\ req[q].was = b /\ req[r].was = req[q].write
         /\ req[r].does = "write" => mem = req[r].write

(* What the row is made of: b, and a change that memory still lacks.       *)
RowMadeOf(b) ==
  \/ row = b /\ \A r \in Requests : ~Uncopied(r)
  \/ \E c \in Requests :
       /\ Uncopied(c) /\ row = Over(req[c].write, b)
       /\ \A r \in Others(c) : ~Uncopied(r)
       /\ \A r \in Requests : Striking(r) => ~req[r].fresh

HpInv ==
  crossed \/ Hopeless \/ \E b \in Health : Stacked(b) /\ RowMadeOf(b)

----------------------------------------------------------------------------
(* Values.                                                                 *)

LEMMA HealthIsAWrite == Health \subseteq Writes
<1> SUFFICES ASSUME NEW h \in Health PROVE h \in Writes
  OBVIOUS
<1>1. h = Restrict(h, {"hp", "s", "f"})
  BY DEF Restrict, Health
<1> QED
  BY <1>1 DEF Writes

LEMMA OverIsHealth ==
  ASSUME NEW w \in Writes, NEW h \in Health
  PROVE  Over(w, h) \in Health
<1>1. PICK g \in Health, D \in {{}, {"hp"}, {"s", "f"}, {"hp", "s", "f"}} : w = Restrict(g, D)
  BY DEF Writes
<1>2. DOMAIN w = D /\ \A k \in D : w[k] = g[k]
  BY <1>1 DEF Restrict
<1>3. D \subseteq {"hp", "s", "f"}
  OBVIOUS
<1>4. /\ g.hp \in 0 .. MaxHp /\ g.s \in 0 .. Limit /\ g.f \in 0 .. Limit
      /\ h.hp \in 0 .. MaxHp /\ h.s \in 0 .. Limit /\ h.f \in 0 .. Limit
  BY DEF Health
<1> DEFINE o == Over(w, h)
<1>5. /\ o = [k \in {"hp", "s", "f"} |-> o[k]]
      /\ o["hp"] \in 0 .. MaxHp /\ o["s"] \in 0 .. Limit /\ o["f"] \in 0 .. Limit
  BY <1>2, <1>3, <1>4 DEF Over
<1> QED
  BY <1>5 DEF Health

LEMMA OverAll ==
  ASSUME NEW w \in Health, NEW h \in Health
  PROVE  Over(w, h) = w
BY DEF Over, Health

LEMMA NothingIsAWrite == Nothing \in Writes /\ Idle \in States
<1>1. PICK h : h \in Health
  <2>1. [hp |-> 0, s |-> 0, f |-> 0] \in Health
    BY HpAssumption DEF Health
  <2> QED
    BY <2>1
<1>2. Nothing = Restrict(h, {})
  BY DEF Nothing, Restrict
<1>3. Nothing \in Writes
  BY <1>1, <1>2 DEF Writes
<1> QED
  BY <1>3, HpAssumption DEF States, Idle

----------------------------------------------------------------------------
(* What a step does to the requests.                                       *)

LEMMA SameState ==
  ASSUME NEW x \in States, NEW y \in States,
         x.op = y.op, x.does = y.does, x.n = y.n, x.k = y.k, x.write = y.write,
         x.was = y.was, x.fresh = y.fresh, x.mine = y.mine, x.ok = y.ok
  PROVE  x = y
BY DEF States

LEMMA GoesEffect ==
  ASSUME TypeOK, NEW r \in Requests, NEW next \in States,
         NEW mm \in BOOLEAN, NEW rm \in BOOLEAN, Goes(r, next, mm, rm),
         next.does = "idle" <=> next = Idle
  PROVE  /\ req' \in [Requests -> States] /\ req'[r] = next
         /\ \A q \in Others(r) :
              /\ req'[q].op = req[q].op /\ req'[q].does = req[q].does
              /\ req'[q].write = req[q].write /\ req'[q].was = req[q].was
              /\ req'[q].ok = req[q].ok
              /\ req'[q].mine = (req[q].mine /\ ~mm) /\ req'[q].fresh = (req[q].fresh /\ ~rm)
         /\ \A q \in Requests : req'[q].does = "idle" <=> req'[q] = Idle
<1> DEFINE aged(q) == [req[q] EXCEPT !.mine = @ /\ ~mm, !.fresh = @ /\ ~rm]
<1>1. req' = [q \in Requests |-> IF q = r THEN next ELSE aged(q)]
  BY DEF Goes
<1>2. \A q \in Requests : req[q] \in States
  BY DEF TypeOK
<1>3. ASSUME NEW q \in Requests
      PROVE  /\ aged(q) \in States
             /\ aged(q).op = req[q].op /\ aged(q).does = req[q].does
             /\ aged(q).write = req[q].write /\ aged(q).was = req[q].was
             /\ aged(q).ok = req[q].ok /\ aged(q).n = req[q].n /\ aged(q).k = req[q].k
             /\ aged(q).mine = (req[q].mine /\ ~mm) /\ aged(q).fresh = (req[q].fresh /\ ~rm)
  BY <1>2, ZenonT(40) DEF States
<1>4. ASSUME NEW q \in Requests, req[q] = Idle
      PROVE  aged(q) = Idle
  <2>1. ~Idle.mine /\ ~Idle.fresh /\ Idle \in States
    BY NothingIsAWrite DEF Idle
  <2>2. /\ aged(q).mine = FALSE /\ aged(q).fresh = FALSE
        /\ Idle.mine = FALSE /\ Idle.fresh = FALSE
    BY <1>3, <1>4, <2>1, ZenonT(40) DEF Idle
  <2> HIDE DEF aged
  <2>3. aged(q) \in States
    BY <1>3
  <2>4. /\ aged(q).op = Idle.op /\ aged(q).does = Idle.does /\ aged(q).n = Idle.n
        /\ aged(q).k = Idle.k /\ aged(q).write = Idle.write /\ aged(q).was = Idle.was
        /\ aged(q).ok = Idle.ok
    BY <1>3, <1>4
  <2>5. aged(q).fresh = Idle.fresh /\ aged(q).mine = Idle.mine
    BY <2>2
  <2> QED
    BY <2>1, <2>3, <2>4, <2>5, SameState
<1>5. Idle.does = "idle"
  BY DEF Idle
<1> HIDE DEF aged
<1> QED
  BY <1>1, <1>2, <1>3, <1>4, <1>5 DEF Others, TypeOK

\* A state a request can be given.
Proper(x) == x \in States /\ (x.does = "idle" <=> x = Idle) /\ Sound(x)

LEMMA TypeByParts ==
  ASSUME TypeInv, NEW r \in Requests, NEW next, Proper(next),
         NEW mm \in BOOLEAN, NEW rm \in BOOLEAN, Goes(r, next, mm, rm),
         mem' \in Health, row' \in Health, stable' \in BOOLEAN, crossed' \in BOOLEAN,
         faults' \in 0 .. MaxFaults
  PROVE  TypeInv'
<1>1. /\ req' \in [Requests -> States] /\ req'[r] = next
      /\ \A q \in Others(r) :
           /\ req'[q].op = req[q].op /\ req'[q].does = req[q].does
           /\ req'[q].write = req[q].write /\ req'[q].was = req[q].was
           /\ req'[q].ok = req[q].ok
      /\ \A q \in Requests : req'[q].does = "idle" <=> req'[q] = Idle
  BY GoesEffect DEF Proper, TypeInv
<1>2. TypeOK'
  BY <1>1 DEF TypeOK
<1>3. ASSUME NEW q \in Requests
      PROVE  Sound(req'[q])
  <2>1. CASE q = r
    BY <1>1, <2>1 DEF Proper
  <2>2. CASE q # r
    BY <1>1, <2>2 DEF Sound, TypeInv, Others
  <2> QED
    BY <2>1, <2>2
<1> QED
  BY <1>2, <1>3 DEF TypeInv

\* A request that begins, or that is over.
LEMMA BeginState ==
  ASSUME NEW op \in Strikes \cup Copies, NEW does \in {"read", "write", "told"}
  PROVE  /\ Begin(op, does) \in States
         /\ Begin(op, does).op = op /\ Begin(op, does).does = does
         /\ Begin(op, does).write = Nothing /\ Begin(op, does).ok = FALSE
         /\ Begin(op, does).mine = FALSE /\ Begin(op, does).fresh = FALSE
<1>1. Idle \in States
  BY NothingIsAWrite
<1>2. Begin(op, does) \in States /\ Begin(op, does).op = op /\ Begin(op, does).does = does
  BY <1>1 DEF Begin, States
<1>3. /\ Begin(op, does).write = Idle.write /\ Begin(op, does).ok = Idle.ok
      /\ Begin(op, does).mine = Idle.mine /\ Begin(op, does).fresh = Idle.fresh
  BY <1>1 DEF Begin, States
<1>4. Idle.write = Nothing /\ Idle.ok = FALSE /\ Idle.mine = FALSE /\ Idle.fresh = FALSE
  BY DEF Idle
<1> QED
  BY <1>2, <1>3, <1>4

LEMMA WithAmount ==
  ASSUME NEW b \in States, NEW n \in 0 .. MaxHp
  PROVE  LET x == [b EXCEPT !.n = n]
         IN  x \in States /\ x.op = b.op /\ x.does = b.does
BY DEF States

LEMMA WithHit ==
  ASSUME NEW b \in States, NEW n \in 0 .. MaxHp, NEW k \in 0 .. 2
  PROVE  LET x == [b EXCEPT !.n = n, !.k = k]
         IN  x \in States /\ x.op = b.op /\ x.does = b.does
BY DEF States

LEMMA WithWrite ==
  ASSUME NEW b \in States, NEW w \in Writes
  PROVE  LET x == [b EXCEPT !.write = w]
             y == [b EXCEPT !.write = w, !.fresh = TRUE]
         IN  /\ x \in States /\ x.op = b.op /\ x.does = b.does
             /\ y \in States /\ y.op = b.op /\ y.does = b.does
BY DEF States

LEMMA IdleIsProper == Proper(Idle) /\ Idle.does = "idle"
BY NothingIsAWrite DEF Proper, Sound, Idle

\* A request asks: it has read nothing and changed nothing.
LEMMA AskEffect ==
  ASSUME TypeInv, NEW r \in Requests, Ask(r)
  PROVE  /\ Free(r) /\ UNCHANGED <<mem, stable, row, faults, crossed>>
         /\ \E next : /\ Proper(next) /\ Goes(r, next, FALSE, FALSE)
                      /\ next.does = "read" \/ (next.does = "write" /\ next.op \in Copies)
<1> DEFINE Goal == \E next : /\ Proper(next) /\ Goes(r, next, FALSE, FALSE)
                             /\ next.does = "read" \/ (next.does = "write" /\ next.op \in Copies)
<1> USE HpAssumption
<1>1. Free(r) /\ UNCHANGED <<mem, stable, row, faults, crossed>>
  BY DEF Ask, Damage, Heal, RollDeathSave, RollTwenty, EditSheet, Rest, SpendHitDie
<1>2. MaxHp \in Nat /\ Limit \in Nat /\ 1 \in 1 .. MaxHp
  <2>1. MaxHp \in Nat \ {0} /\ Limit \in Nat
    OBVIOUS
  <2> QED
    BY <2>1
<1>3. ASSUME NEW x \in States, NEW op \in Strikes \cup Copies, x.op = op,
             x.does = "read" \/ (x.does = "write" /\ op \in Copies)
      PROVE  Proper(x)
  BY <1>3 DEF Proper, Sound, Idle, Strikes, Copies
<1>4. ASSUME NEW hit \in Hits, Damage(r, hit)
      PROVE  Goal
  <2> DEFINE x == [Begin("damage", "read") EXCEPT !.n = hit[1], !.k = hit[2]]
  <2>1. hit[1] \in 0 .. MaxHp /\ hit[2] \in 0 .. 2
    OBVIOUS
  <2>2. "damage" \in Strikes \cup Copies
    BY DEF Strikes
  <2>3. x \in States /\ x.op = "damage" /\ x.does = "read"
    <3>1. /\ Begin("damage", "read") \in States /\ Begin("damage", "read").op = "damage"
          /\ Begin("damage", "read").does = "read"
      BY <2>1, <2>2, BeginState
    <3> QED
      BY <2>1, <3>1, WithHit, ZenonT(40)
  <2>4. Goes(r, x, FALSE, FALSE)
    BY <1>4 DEF Damage
  <2> HIDE DEF x
  <2> QED
    BY <1>3, <2>2, <2>3, <2>4
<1>5. ASSUME NEW n \in 1 .. MaxHp, Heal(r, n)
      PROVE  Goal
  <2> DEFINE x == [Begin("heal", "read") EXCEPT !.n = n]
  <2>1. "heal" \in Strikes \cup Copies
    BY DEF Strikes
  <2>2. x \in States /\ x.op = "heal" /\ x.does = "read"
    <3>1. /\ Begin("heal", "read") \in States /\ Begin("heal", "read").op = "heal"
          /\ Begin("heal", "read").does = "read"
      BY <2>1, BeginState
    <3>2. n \in 0 .. MaxHp
      BY <1>2
    <3> QED
      BY <3>1, <3>2, WithAmount
  <2>3. Goes(r, x, FALSE, FALSE)
    BY <1>5 DEF Heal
  <2> HIDE DEF x
  <2> QED
    BY <1>3, <2>1, <2>2, <2>3
<1>6. ASSUME NEW n \in 1 .. MaxHp, SpendHitDie(r, n)
      PROVE  Goal
  <2> DEFINE x == [Begin("die", "write") EXCEPT !.n = n]
  <2>1. "die" \in Strikes \cup Copies /\ "die" \in Copies
    BY DEF Copies
  <2>2. x \in States /\ x.op = "die" /\ x.does = "write"
    <3>1. /\ Begin("die", "write") \in States /\ Begin("die", "write").op = "die"
          /\ Begin("die", "write").does = "write"
      BY <2>1, BeginState
    <3>2. n \in 0 .. MaxHp
      BY <1>2
    <3> QED
      BY <3>1, <3>2, WithAmount
  <2>3. Goes(r, x, FALSE, FALSE)
    BY <1>6 DEF SpendHitDie
  <2> HIDE DEF x
  <2> QED
    BY <1>3, <2>1, <2>2, <2>3
<1>7. ASSUME RollTwenty(r)
      PROVE  Goal
  BY <1>2, <1>5, <1>7 DEF RollTwenty
<1>8. ASSUME Rest(r)
      PROVE  Goal
  <2>1. "rest" \in Strikes \cup Copies
    BY DEF Copies
  <2>2. /\ Begin("rest", "read") \in States /\ Begin("rest", "read").op = "rest"
        /\ Begin("rest", "read").does = "read"
    BY <2>1, BeginState
  <2> QED
    BY <1>3, <1>8, <2>1, <2>2 DEF Rest
<1>9. ASSUME EditSheet(r)
      PROVE  Goal
  <2>1. PICK w \in Writes :
          Goes(r, [Begin("edit", "write") EXCEPT !.write = w, !.fresh = TRUE], FALSE, FALSE)
    BY <1>9 DEF EditSheet
  <2> DEFINE x == [Begin("edit", "write") EXCEPT !.write = w, !.fresh = TRUE]
  <2>2. "edit" \in Strikes \cup Copies /\ "edit" \in Copies
    BY DEF Copies
  <2>3. x \in States /\ x.op = "edit" /\ x.does = "write"
    <3>1. /\ Begin("edit", "write") \in States /\ Begin("edit", "write").op = "edit"
          /\ Begin("edit", "write").does = "write"
      BY <2>2, BeginState
    <3> QED
      BY <2>2, <3>1, WithWrite
  <2>4. Goes(r, x, FALSE, FALSE)
    BY <2>1
  <2> HIDE DEF x
  <2> QED
    BY <1>3, <2>2, <2>3, <2>4
<1>10. ASSUME RollDeathSave(r)
       PROVE  Goal
  <2>1. mem \in Health
    BY DEF TypeInv, TypeOK
  <2>2. PICK won \in {<<1, 0>>, <<0, 1>>, <<0, 2>>} :
          LET s == Least(Limit, mem.s + won[1])
              f == Least(Limit, mem.f + won[2])
          IN  Goes(r, IF s = Limit
                        THEN [Begin("stabilise", "read") EXCEPT !.write = [hp |-> 0, s |-> 0, f |-> 0]]
                        ELSE [Begin("count", "read") EXCEPT
                                !.write = Restrict([hp |-> 0, s |-> s, f |-> f], {"s", "f"})],
                   FALSE, FALSE)
    BY <1>10 DEF RollDeathSave
  <2> DEFINE s == Least(Limit, mem.s + won[1])
             f == Least(Limit, mem.f + won[2])
             x == [Begin("stabilise", "read") EXCEPT !.write = [hp |-> 0, s |-> 0, f |-> 0]]
             y == [Begin("count", "read") EXCEPT
                     !.write = Restrict([hp |-> 0, s |-> s, f |-> f], {"s", "f"})]
  <2>3. s \in 0 .. Limit /\ f \in 0 .. Limit
    BY <1>2, <2>1 DEF Least, Health
  <2>4. [hp |-> 0, s |-> 0, f |-> 0] \in Writes
    BY <1>2, HealthIsAWrite DEF Health
  <2>5. Restrict([hp |-> 0, s |-> s, f |-> f], {"s", "f"}) \in Writes
    <3> HIDE DEF s, f
    <3>1. [hp |-> 0, s |-> s, f |-> f] \in Health
      BY <1>2, <2>3 DEF Health
    <3> QED
      BY <3>1 DEF Writes
  <2>6. "stabilise" \in Strikes \cup Copies /\ "count" \in Strikes \cup Copies
    BY DEF Copies
  <2>7. x \in States /\ x.op = "stabilise" /\ x.does = "read"
    <3>1. /\ Begin("stabilise", "read") \in States /\ Begin("stabilise", "read").op = "stabilise"
          /\ Begin("stabilise", "read").does = "read"
      BY <2>4, <2>6, BeginState
    <3> QED
      BY <2>4, <2>6, <3>1, WithWrite
  <2>8. y \in States /\ y.op = "count" /\ y.does = "read"
    <3>1. /\ Begin("count", "read") \in States /\ Begin("count", "read").op = "count"
          /\ Begin("count", "read").does = "read"
      BY <2>5, <2>6, BeginState
    <3> QED
      BY <2>5, <2>6, <3>1, WithWrite
  <2>9. Proper(x) /\ Proper(y) /\ x.does = "read" /\ y.does = "read"
    BY <1>3, <2>6, <2>7, <2>8
  <2>10. Goes(r, IF s = Limit THEN x ELSE y, FALSE, FALSE)
    BY <2>2
  <2> HIDE DEF x, y
  <2>11. CASE s = Limit
    BY <2>9, <2>10, <2>11
  <2>12. CASE s # Limit
    BY <2>9, <2>10, <2>12
  <2> QED
    BY <2>11, <2>12
<1> QED
  BY <1>1, <1>4, <1>5, <1>6, <1>7, <1>8, <1>9, <1>10 DEF Ask

----------------------------------------------------------------------------
(* What the steps of a request come to.                                    *)

\* What the others keep.
Kept(r, mm, rm) ==
  \A q \in Others(r) :
    /\ req'[q].op = req[q].op /\ req'[q].does = req[q].does
    /\ req'[q].write = req[q].write /\ req'[q].was = req[q].was
    /\ req'[q].ok = req[q].ok
    /\ req'[q].mine = (req[q].mine /\ ~mm) /\ req'[q].fresh = (req[q].fresh /\ ~rm)

\* Nothing that memory or the row is made of changes.
Quietly(r) ==
  /\ ~Striking(r) /\ ~Uncopied(r) /\ ~Striking(r)' /\ ~Uncopied(r)'
  /\ mem' = mem /\ row' = row /\ Kept(r, FALSE, FALSE)

StrikesMemory(r) ==
  /\ ~Striking(r) /\ ~Uncopied(r) /\ Striking(r)' /\ ~Uncopied(r)'
  /\ \A q \in Others(r) : ~Uncopied(q)
  /\ req'[r].does = "write" /\ req'[r].write = mem' /\ req'[r].was = mem /\ req'[r].mine
  /\ row' = row /\ Kept(r, TRUE, FALSE)

CommitsStrike(r) ==
  /\ Striking(r) /\ req[r].does = "write" /\ req[r].fresh
  /\ ~Striking(r)' /\ ~Uncopied(r)'
  /\ mem' = mem /\ row' = req[r].write /\ Kept(r, FALSE, TRUE)

CommitsCopy(r) ==
  /\ ~Striking(r) /\ ~Uncopied(r) /\ ~Striking(r)' /\ Uncopied(r)' /\ req'[r].fresh
  /\ mem' = mem /\ row' = Over(req'[r].write, row) /\ Kept(r, FALSE, TRUE)

RefusesStrike(r) ==
  /\ Striking(r) /\ req[r].does = "write" /\ Striking(r)' /\ req'[r].does = "told"
  /\ ~Uncopied(r)' /\ req'[r].was = req[r].was /\ req'[r].mine = req[r].mine /\ ~req'[r].fresh
  /\ mem' = mem /\ row' = row /\ Kept(r, FALSE, FALSE)

Restores(r) ==
  /\ Striking(r) /\ req[r].does = "told" /\ req[r].mine /\ ~Striking(r)' /\ ~Uncopied(r)'
  /\ mem' = req[r].was /\ row' = row /\ Kept(r, TRUE, FALSE)

CopiesBack(r) ==
  /\ Uncopied(r) /\ req[r].fresh /\ ~Striking(r)' /\ ~Uncopied(r)'
  /\ mem' = Over(req[r].write, mem) /\ row' = row /\ Kept(r, TRUE, FALSE)

Moves(r) ==
  \/ Quietly(r) \/ StrikesMemory(r) \/ CommitsStrike(r) \/ CommitsCopy(r)
  \/ RefusesStrike(r) \/ Restores(r) \/ CopiesBack(r)

LEMMA Apart ==
  /\ Strikes \cap Copies = {} /\ Unguarded \subseteq Copies
  /\ \A op \in Strikes \cup Copies : op \notin {"none"}
BY DEF Strikes, Copies, Unguarded

LEMMA ReadEffect ==
  ASSUME TypeInv, NEW r \in Requests, Read(r)
  PROVE  /\ req[r].does = "read" /\ UNCHANGED <<mem, stable, row, faults, crossed>>
         /\ \E next : /\ Proper(next) /\ Goes(r, next, FALSE, FALSE)
                      /\ \/ next.does \in {"idle", "strike"}
                         \/ next.does = "write" /\ next.op \in Copies
<1> DEFINE Goal == \E next : /\ Proper(next) /\ Goes(r, next, FALSE, FALSE)
                             /\ \/ next.does \in {"idle", "strike"}
                                \/ next.does = "write" /\ next.op \in Copies
<1>1. req[r] \in States /\ Sound(req[r])
  BY DEF TypeInv, TypeOK
<1>2. req[r].does = "read" /\ UNCHANGED <<mem, stable, row, faults, crossed>>
  BY DEF Read
<1>3. ASSUME NEW does \in {"strike", "write"},
             Goes(r, [req[r] EXCEPT !.does = does, !.fresh = TRUE], FALSE, FALSE),
             (does = "strike" /\ req[r].op \in Strikes) \/ (does = "write" /\ req[r].op \in Copies)
      PROVE  Goal
  <2> DEFINE x == [req[r] EXCEPT !.does = does, !.fresh = TRUE]
  <2>1. x \in States /\ x.op = req[r].op /\ x.does = does
    BY <1>1 DEF States
  <2>2. Goes(r, x, FALSE, FALSE)
    BY <1>3
  <2> HIDE DEF x
  <2>3. Proper(x)
    BY <1>3, <2>1, Apart DEF Proper, Sound, Idle
  <2> QED
    BY <1>3, <2>1, <2>2, <2>3
<1>4. ASSUME req[r].op \in Strikes,
             Goes(r, [req[r] EXCEPT !.does = "strike", !.fresh = TRUE], FALSE, FALSE)
      PROVE  Goal
  BY <1>3, <1>4
<1>5. ASSUME req[r].op \in {"stabilise", "count"},
             Goes(r, [req[r] EXCEPT !.does = "write", !.fresh = TRUE], FALSE, FALSE)
      PROVE  Goal
  <2>1. req[r].op \in Copies
    BY <1>5 DEF Copies
  <2> QED
    BY <1>3, <1>5, <2>1
<1>6. ASSUME Goes(r, IF RestWrite = Nothing THEN Done
                       ELSE [Begin("rest", "write") EXCEPT !.write = RestWrite], FALSE, FALSE)
      PROVE  Goal
  <2>1. CASE RestWrite = Nothing
    BY <1>6, <2>1, IdleIsProper DEF Done
  <2>2. CASE RestWrite # Nothing
    <3> DEFINE x == [Begin("rest", "write") EXCEPT !.write = RestWrite]
    <3>1. "rest" \in Copies /\ "rest" \in Strikes \cup Copies
      BY DEF Copies
    <3>2. RestWrite \in Writes
      <4>1. [hp |-> MaxHp, s |-> 0, f |-> 0] \in Health
        BY HpAssumption DEF Health
      <4>2. ((IF row.hp < MaxHp THEN {"hp"} ELSE {}) \cup (IF row.s + row.f > 0 THEN {"s", "f"} ELSE {}))
               \in {{}, {"hp"}, {"s", "f"}, {"hp", "s", "f"}}
        OBVIOUS
      <4> QED
        BY <4>1, <4>2 DEF RestWrite, Writes
    <3>3. x \in States /\ x.op = "rest" /\ x.does = "write"
      <4>1. /\ Begin("rest", "write") \in States /\ Begin("rest", "write").op = "rest"
            /\ Begin("rest", "write").does = "write"
        BY <3>1, BeginState
      <4> QED
        BY <3>2, <4>1, WithWrite
    <3>4. Goes(r, x, FALSE, FALSE)
      BY <1>6, <2>2
    <3> HIDE DEF x
    <3>5. Proper(x)
      BY <3>1, <3>3, Apart DEF Proper, Sound, Idle
    <3> QED
      BY <3>1, <3>3, <3>4, <3>5
  <2> QED
    BY <2>1, <2>2
<1> QED
  BY <1>2, <1>4, <1>5, <1>6 DEF Read

LEMMA StruckIsHealth ==
  ASSUME TypeOK, NEW r \in Requests
  PROVE  Struck(r) \in Health
<1>1. /\ mem \in Health /\ mem.hp \in 0 .. MaxHp /\ mem.s \in 0 .. Limit /\ mem.f \in 0 .. Limit
      /\ req[r].n \in 0 .. MaxHp /\ req[r].k \in 0 .. 2
  BY DEF TypeOK, Health, States
<1>2. MaxHp \in Nat /\ Limit \in Nat
  BY HpAssumption
<1> DEFINE hp == mem.hp - Least(mem.hp, req[r].n)
           f == IF mem.hp = 0 THEN Least(Limit, mem.f + req[r].k) ELSE mem.f
           up == Least(MaxHp, mem.hp + req[r].n)
<1>3. hp \in 0 .. MaxHp /\ f \in 0 .. Limit /\ up \in 0 .. MaxHp
  BY <1>1, <1>2 DEF Least
<1>4. Struck(r) = IF req[r].op = "damage" THEN [mem EXCEPT !.hp = hp, !.f = f]
                  ELSE [hp |-> up, s |-> 0, f |-> 0]
  BY <1>1 DEF Struck, Health
<1> HIDE DEF hp, f, up
<1>5. [mem EXCEPT !.hp = hp, !.f = f] \in Health
  BY <1>1, <1>3 DEF Health
<1>6. [hp |-> up, s |-> 0, f |-> 0] \in Health
  BY <1>2, <1>3 DEF Health
<1> QED
  BY <1>4, <1>5, <1>6

LEMMA StrikeEffect ==
  ASSUME TypeInv, NEW r \in Requests, Strike(r)
  PROVE  /\ req[r].does = "strike" /\ mem' \in Health /\ UNCHANGED <<stable, row, faults>>
         /\ crossed' \in BOOLEAN /\ (~crossed' => ~crossed /\ \A q \in Others(r) : ~Uncopied(q))
         /\ \E next : /\ Proper(next) /\ Goes(r, next, TRUE, FALSE)
                      /\ next.does = "write" /\ next.op \in Strikes
                      /\ next.write = mem' /\ next.was = mem /\ next.mine
<1>1. req[r] \in States /\ Sound(req[r]) /\ mem \in Health /\ crossed \in BOOLEAN
  BY DEF TypeInv, TypeOK
<1>2. /\ req[r].does = "strike" /\ mem' = Struck(r) /\ UNCHANGED <<stable, row, faults>>
      /\ crossed' = (crossed \/ \E q \in Others(r) : Uncopied(q))
  BY DEF Strike
<1>3. mem' \in Health /\ mem' \in Writes
  BY <1>2, StruckIsHealth, HealthIsAWrite DEF TypeInv
<1> DEFINE x == [req[r] EXCEPT !.does = "write", !.n = 0, !.k = 0,
                               !.write = mem', !.was = mem, !.mine = TRUE]
<1>4. /\ x \in States /\ x.op = req[r].op /\ x.does = "write"
      /\ x.write = mem' /\ x.was = mem /\ x.mine
  <2>1. 0 \in 0 .. MaxHp /\ 0 \in 0 .. 2
    BY HpAssumption
  <2> QED
    BY <1>1, <1>3, <2>1 DEF States
<1>5. Goes(r, x, TRUE, FALSE)
  BY DEF Strike
<1> HIDE DEF x
<1>6. x.op \in Strikes
  BY <1>1, <1>2, <1>4 DEF Sound
<1>7. Proper(x)
  BY <1>1, <1>3, <1>4, <1>6 DEF Proper, Sound, Idle
<1>8. crossed' \in BOOLEAN /\ (~crossed' => ~crossed /\ \A q \in Others(r) : ~Uncopied(q))
  BY <1>1, <1>2
<1> QED
  BY <1>2, <1>3, <1>4, <1>5, <1>6, <1>7, <1>8

LEMMA WrittenIsAWrite ==
  ASSUME TypeInv, NEW r \in Requests
  PROVE  Written(r) \in Writes
<1>1. CASE req[r].op = "die"
  <2> DEFINE h == [row EXCEPT !.hp = Least(MaxHp, @ + req[r].n)]
  <2>1. row \in Health /\ row.hp \in 0 .. MaxHp /\ req[r].n \in 0 .. MaxHp
    BY DEF TypeInv, TypeOK, Health, States
  <2>2. MaxHp \in Nat
    BY HpAssumption
  <2>3. Least(MaxHp, row.hp + req[r].n) \in 0 .. MaxHp
    BY <2>1, <2>2 DEF Least
  <2>4. h \in Health
    BY <2>1, <2>3 DEF Health
  <2>5. Written(r) = Restrict(h, {"hp"})
    BY <1>1 DEF Written
  <2> HIDE DEF h
  <2> QED
    BY <2>4, <2>5 DEF Writes
<1>2. CASE req[r].op # "die"
  BY <1>2 DEF Written, TypeInv, TypeOK, States
<1> QED
  BY <1>1, <1>2

LEMMA ToldEffect ==
  ASSUME TypeInv, NEW r \in Requests, req[r].does = "write", NEW ok \in BOOLEAN
  PROVE  /\ Proper(Told(r, ok)) /\ req[r].op \in Strikes \cup Copies
         /\ req[r].op \in Strikes =>
              /\ Told(r, ok).op = req[r].op /\ Told(r, ok).does = "told" /\ Told(r, ok).ok = ok
              /\ ~ok => /\ Told(r, ok).was = req[r].was /\ Told(r, ok).mine = req[r].mine
                        /\ ~Told(r, ok).fresh
         /\ req[r].op \in Copies /\ ok =>
              /\ Told(r, ok).op = req[r].op /\ Told(r, ok).does = "told" /\ Told(r, ok).ok
              /\ Told(r, ok).write = Written(r) /\ Told(r, ok).fresh
         /\ req[r].op \in Copies /\ ~ok => Told(r, ok) = Idle
<1>1. req[r] \in States /\ Sound(req[r]) /\ req[r].op \in Strikes \cup Copies
  BY DEF TypeInv, TypeOK, Sound
<1> DEFINE told == [Begin(req[r].op, "told") EXCEPT !.ok = ok]
<1>2. told \in States /\ told.op = req[r].op /\ told.does = "told" /\ told.ok = ok /\ ~told.fresh
  <2>1. /\ Begin(req[r].op, "told") \in States /\ Begin(req[r].op, "told").op = req[r].op
        /\ Begin(req[r].op, "told").does = "told" /\ ~Begin(req[r].op, "told").fresh
    BY <1>1, BeginState
  <2> QED
    BY <2>1 DEF States
<1> DEFINE back == [told EXCEPT !.was = req[r].was, !.mine = req[r].mine]
           copy == [told EXCEPT !.write = Written(r), !.fresh = TRUE]
<1>3. Told(r, ok) = CASE req[r].op \in Strikes /\ ok -> told
                      [] req[r].op \in Strikes /\ ~ok -> back
                      [] req[r].op \in Copies /\ ok -> copy
                      [] OTHER -> Idle
  BY DEF Told, Done
<1> HIDE DEF told
<1>4. /\ back \in States /\ back.op = req[r].op /\ back.does = "told" /\ back.ok = ok
      /\ back.was = req[r].was /\ back.mine = req[r].mine /\ ~back.fresh
  BY <1>1, <1>2 DEF States
<1>5. /\ copy \in States /\ copy.op = req[r].op /\ copy.does = "told" /\ copy.ok = ok
      /\ copy.write = Written(r) /\ copy.fresh
  BY <1>1, <1>2, WrittenIsAWrite DEF States
<1> HIDE DEF back, copy
<1>6. CASE req[r].op \in Strikes /\ ok
  <2>1. Told(r, ok) = told /\ req[r].op \notin Copies
    BY <1>3, <1>6, Apart
  <2>2. ok = TRUE /\ told.ok = TRUE
    BY <1>2, <1>6
  <2>3. Proper(told)
    BY <1>1, <1>2, <2>2 DEF Proper, Sound, Idle
  <2> QED
    BY <1>1, <1>2, <1>6, <2>1, <2>2, <2>3
<1>7. CASE req[r].op \in Strikes /\ ~ok
  <2>1. Told(r, ok) = back /\ req[r].op \notin Copies
    BY <1>3, <1>7, Apart
  <2>2. req[r].was \in Health
    BY <1>1, <1>7 DEF Sound
  <2> QED
    BY <1>1, <1>4, <1>7, <2>1, <2>2 DEF Proper, Sound, Idle
<1>8. CASE req[r].op \in Copies /\ ok
  <2>1. Told(r, ok) = copy /\ req[r].op \notin Strikes
    BY <1>3, <1>8, Apart
  <2>2. ok = TRUE /\ copy.ok = TRUE
    BY <1>5, <1>8
  <2>3. Proper(copy)
    BY <1>1, <1>5, <2>2 DEF Proper, Sound, Idle
  <2> QED
    BY <1>1, <1>5, <1>8, <2>1, <2>2, <2>3
<1>9. CASE req[r].op \in Copies /\ ~ok
  <2>1. Told(r, ok) = Idle /\ req[r].op \notin Strikes
    BY <1>3, <1>9, Apart
  <2> QED
    BY <1>1, <1>9, <2>1, IdleIsProper
<1> QED
  BY <1>1, <1>6, <1>7, <1>8, <1>9

LEMMA CommitEffect ==
  ASSUME TypeInv, NEW r \in Requests, Commit(r)
  PROVE  /\ req[r].does = "write" /\ (req[r].op \in Strikes => req[r].fresh)
         /\ UNCHANGED <<mem, stable>> /\ row' = Over(Written(r), row) /\ row' \in Health
         /\ crossed' \in BOOLEAN /\ faults' \in 0 .. MaxFaults /\ (~crossed' => ~crossed)
         /\ \E ok \in BOOLEAN : Goes(r, Told(r, ok), FALSE, TRUE) /\ (~crossed' => ok)
<1>1. /\ req[r].does = "write" /\ (Guarded(r) => req[r].fresh)
      /\ UNCHANGED <<mem, stable>> /\ row' = Over(Written(r), row)
  BY DEF Commit, Carry
<1>2. req[r].op \in Strikes => req[r].fresh
  BY <1>1, Apart DEF Guarded
<1>3. row' \in Health
  BY <1>1, OverIsHealth, WrittenIsAWrite DEF TypeInv, TypeOK
<1>4. faults \in 0 .. MaxFaults /\ MaxFaults \in Nat /\ crossed \in BOOLEAN
  BY HpAssumption DEF TypeInv, TypeOK
<1>5. \/ Goes(r, Told(r, TRUE), FALSE, TRUE) /\ UNCHANGED <<faults, crossed>>
      \/ Goes(r, Told(r, FALSE), FALSE, TRUE) /\ Fault /\ crossed' = TRUE
  BY DEF Commit, Carry
<1>6. crossed' \in BOOLEAN /\ (~crossed' => ~crossed)
  BY <1>4, <1>5
<1>7. faults' \in 0 .. MaxFaults
  <2>1. faults' = faults \/ (faults < MaxFaults /\ faults' = faults + 1)
    BY <1>5 DEF Fault
  <2>2. faults \in 0 .. MaxFaults /\ MaxFaults \in Nat
    BY <1>4
  <2> QED
    BY <2>1, <2>2
<1>8. \E ok \in BOOLEAN : Goes(r, Told(r, ok), FALSE, TRUE) /\ (~crossed' => ok)
  BY <1>5
<1> QED
  BY <1>1, <1>2, <1>3, <1>6, <1>7, <1>8

LEMMA RefuseEffect ==
  ASSUME TypeInv, NEW r \in Requests, Refuse(r)
  PROVE  /\ UNCHANGED <<mem, stable, row, crossed>> /\ faults' \in 0 .. MaxFaults
         /\ \/ req[r].does = "write" /\ Goes(r, Told(r, FALSE), FALSE, FALSE)
            \/ req[r].does = "read" /\ Goes(r, Idle, FALSE, FALSE)
<1>1. faults \in 0 .. MaxFaults /\ MaxFaults \in Nat
  BY HpAssumption DEF TypeInv, TypeOK
<1>2. faults' = faults \/ Fault
  BY DEF Refuse
<1>3. faults' \in 0 .. MaxFaults
  BY <1>1, <1>2 DEF Fault
<1> QED
  BY <1>3 DEF Refuse, Done

LEMMA FailEffect ==
  ASSUME TypeInv, NEW r \in Requests, Fail(r)
  PROVE  /\ req[r].does = "told" /\ ~req[r].ok /\ req[r].op \in Strikes
         /\ mem' = req[r].was /\ mem' \in Health /\ UNCHANGED <<stable, row, faults>>
         /\ crossed' \in BOOLEAN /\ (~crossed' => ~crossed /\ req[r].mine)
         /\ Goes(r, Idle, TRUE, FALSE)
<1>1. req[r] \in States /\ Sound(req[r]) /\ crossed \in BOOLEAN
  BY DEF TypeInv, TypeOK
<1>2. /\ req[r].does = "told" /\ ~req[r].ok
      /\ mem' = req[r].was /\ UNCHANGED <<stable, row, faults>>
      /\ crossed' = (crossed \/ ~req[r].mine) /\ Goes(r, Idle, TRUE, FALSE)
  BY DEF Fail, Done
<1>3. req[r].op \in Strikes /\ req[r].was \in Health
  BY <1>1, <1>2 DEF Sound
<1>4. crossed' \in BOOLEAN /\ (~crossed' => ~crossed /\ req[r].mine)
  BY <1>1, <1>2
<1> QED
  BY <1>2, <1>3, <1>4

LEMMA SucceedEffect ==
  ASSUME TypeInv, NEW r \in Requests, Succeed(r)
  PROVE  /\ req[r].does = "told" /\ req[r].ok /\ UNCHANGED <<row, faults>>
         /\ mem' \in Health /\ stable' \in BOOLEAN /\ crossed' \in BOOLEAN
         /\ \/ /\ req[r].op \in Strikes /\ mem' = mem /\ Goes(r, Idle, FALSE, FALSE)
               /\ ~crossed' => ~crossed
            \/ /\ req[r].op \in Copies /\ mem' = Over(req[r].write, mem)
               /\ Goes(r, Idle, TRUE, FALSE) /\ (~crossed' => ~crossed /\ req[r].fresh)
<1>1. /\ req[r] \in States /\ Sound(req[r]) /\ crossed \in BOOLEAN /\ stable \in BOOLEAN
      /\ mem \in Health
  BY DEF TypeInv, TypeOK
<1> DEFINE copies == req[r].op \in Copies
<1>2. /\ req[r].does = "told" /\ req[r].ok /\ UNCHANGED <<row, faults>>
      /\ Goes(r, Idle, copies, FALSE) /\ mem' = IF copies THEN Over(req[r].write, mem) ELSE mem
      /\ crossed' = (crossed \/ (copies /\ ~req[r].fresh))
  BY DEF Succeed, Done
<1>3. stable' = CASE req[r].op = "damage" -> FALSE
                  [] req[r].op = "heal" -> stable /\ mem.hp = 0
                  [] req[r].op = "stabilise" -> TRUE
                  [] OTHER -> stable
  BY DEF Succeed
<1>4. stable' \in BOOLEAN
  <2>1. stable' = FALSE \/ stable' = (stable /\ mem.hp = 0) \/ stable' = TRUE \/ stable' = stable
    BY <1>3
  <2> QED
    BY <1>1, <2>1
<1>5. req[r].op \in Strikes \cup Copies
  BY <1>1, <1>2 DEF Sound
<1>6. CASE copies
  <2>1. /\ mem' = Over(req[r].write, mem) /\ Goes(r, Idle, TRUE, FALSE)
        /\ crossed' = (crossed \/ ~req[r].fresh)
    BY <1>2, <1>6
  <2>2. mem' \in Health
    BY <1>1, <2>1, OverIsHealth DEF States
  <2>3. crossed' \in BOOLEAN /\ (~crossed' => ~crossed /\ req[r].fresh)
    BY <1>1, <2>1
  <2> QED
    BY <1>2, <1>4, <1>6, <2>1, <2>2, <2>3
<1>7. CASE ~copies
  <2>1. mem' = mem /\ Goes(r, Idle, FALSE, FALSE)
    <3>1. copies = FALSE
      BY <1>7
    <3> QED
      BY <1>2, <3>1
  <2>3. crossed' \in BOOLEAN /\ (~crossed' => ~crossed)
    BY <1>1, <1>2, <1>7
  <2>2. req[r].op \in Strikes
    BY <1>5, <1>7
  <2> QED
    BY <1>1, <1>2, <1>4, <2>1, <2>2, <2>3
<1> QED
  BY <1>6, <1>7

----------------------------------------------------------------------------
(* Types.                                                                  *)

LEMMA TypeInit == Init => TypeInv
<1> SUFFICES ASSUME Init PROVE TypeInv
  OBVIOUS
<1>1. /\ mem = [hp |-> MaxHp, s |-> 0, f |-> 0] /\ row = mem /\ stable = FALSE /\ faults = 0
      /\ crossed = FALSE /\ req = [r \in Requests |-> Idle]
  BY DEF Init
<1>2. mem \in Health /\ row \in Health
  BY <1>1, HpAssumption DEF Health
<1>3. faults \in 0 .. MaxFaults
  BY <1>1, HpAssumption
<1>4. Idle \in States /\ Sound(Idle) /\ Idle.does = "idle"
  BY NothingIsAWrite, IdleIsProper DEF Proper
<1> QED
  BY <1>1, <1>2, <1>3, <1>4 DEF TypeInv, TypeOK

LEMMA ChatCommandTypes ==
  ASSUME TypeInv, NEW r \in Requests, ChatCommand(r)
  PROVE  TypeInv'
<1>1. /\ mem \in Health /\ row \in Health /\ stable' \in BOOLEAN /\ crossed' \in BOOLEAN
      /\ faults' \in 0 .. MaxFaults
  BY HpAssumption DEF ChatCommand, Fault, TypeInv, TypeOK
<1>2. PICK w \in Writes :
        \/ row' = Over(w, row) /\ Goes(r, Idle, FALSE, TRUE) /\ UNCHANGED mem
        \/ mem' = Over(w, mem) /\ Goes(r, Idle, TRUE, FALSE) /\ UNCHANGED row
  BY DEF ChatCommand, Done
<1>3. Over(w, row) \in Health /\ Over(w, mem) \in Health
  BY <1>1, OverIsHealth
<1> QED
  BY <1>1, <1>2, <1>3, IdleIsProper, TypeByParts

LEMMA TypeStep ==
  ASSUME TypeInv, [Next]_vars
  PROVE  TypeInv'
<1>1. CASE UNCHANGED vars
  BY <1>1 DEF vars, TypeInv, TypeOK, Sound
<1>2. ASSUME NEW r \in Requests, Ask(r) \/ Go(r) PROVE TypeInv'
  <2>1. /\ mem \in Health /\ row \in Health /\ stable \in BOOLEAN /\ crossed \in BOOLEAN
        /\ faults \in 0 .. MaxFaults
    BY DEF TypeInv, TypeOK
  <2>2. CASE Ask(r)
    <3>1. UNCHANGED <<mem, stable, row, faults, crossed>>
      BY <2>2, AskEffect
    <3>2. PICK next : Proper(next) /\ Goes(r, next, FALSE, FALSE)
      BY <2>2, AskEffect
    <3> QED
      BY <2>1, <3>1, <3>2, TypeByParts
  <2>3. CASE Read(r)
    <3>1. UNCHANGED <<mem, stable, row, faults, crossed>>
      BY <2>3, ReadEffect
    <3>2. PICK next : Proper(next) /\ Goes(r, next, FALSE, FALSE)
      BY <2>3, ReadEffect
    <3> QED
      BY <2>1, <3>1, <3>2, TypeByParts
  <2>4. CASE Strike(r)
    <3>1. mem' \in Health /\ UNCHANGED <<stable, row, faults>> /\ crossed' \in BOOLEAN
      BY <2>4, StrikeEffect
    <3>2. PICK next : Proper(next) /\ Goes(r, next, TRUE, FALSE)
      BY <2>4, StrikeEffect
    <3> QED
      BY <2>1, <3>1, <3>2, TypeByParts
  <2>5. CASE Commit(r)
    <3>1. /\ req[r].does = "write" /\ UNCHANGED <<mem, stable>> /\ row' \in Health
          /\ crossed' \in BOOLEAN /\ faults' \in 0 .. MaxFaults
      BY <2>5, CommitEffect
    <3>2. PICK ok \in BOOLEAN : Goes(r, Told(r, ok), FALSE, TRUE)
      BY <2>5, CommitEffect
    <3>3. Proper(Told(r, ok))
      BY <3>1, ToldEffect
    <3> QED
      BY <2>1, <3>1, <3>2, <3>3, TypeByParts
  <2>6. CASE Refuse(r)
    <3>1. UNCHANGED <<mem, stable, row, crossed>> /\ faults' \in 0 .. MaxFaults
      BY <2>6, RefuseEffect
    <3>2. \E next : Proper(next) /\ Goes(r, next, FALSE, FALSE)
      BY <2>6, RefuseEffect, ToldEffect, IdleIsProper
    <3> QED
      BY <2>1, <3>1, <3>2, TypeByParts
  <2>7. CASE Fail(r)
    <3>1. /\ mem' \in Health /\ UNCHANGED <<stable, row, faults>> /\ crossed' \in BOOLEAN
          /\ Goes(r, Idle, TRUE, FALSE)
      BY <2>7, FailEffect
    <3> QED
      BY <2>1, <3>1, IdleIsProper, TypeByParts
  <2>8. CASE Succeed(r)
    <3>1. /\ mem' \in Health /\ stable' \in BOOLEAN /\ UNCHANGED <<row, faults>>
          /\ crossed' \in BOOLEAN /\ \E m \in BOOLEAN : Goes(r, Idle, m, FALSE)
      BY <2>8, SucceedEffect
    <3> QED
      BY <2>1, <3>1, IdleIsProper, TypeByParts
  <2> QED
    BY <1>2, <2>2, <2>3, <2>4, <2>5, <2>6, <2>7, <2>8 DEF Go
<1>3. ASSUME NEW r \in Requests, ChatCommand(r) PROVE TypeInv'
  BY <1>3, ChatCommandTypes
<1> QED
  BY <1>1, <1>2, <1>3 DEF Next

(* Hit points stay between none and the maximum, in memory and in the row, *)
(* and death saves at most the limit, whatever was written over what.      *)
THEOREM TypeCorrect == Spec => []TypeOK
<1>1. TypeInv => TypeOK
  BY DEF TypeInv
<1> QED
  BY TypeInit, TypeStep, <1>1, PTL DEF Spec

----------------------------------------------------------------------------
(* A step that crosses nothing is one of seven moves.                      *)

LEMMA OthersKeep ==
  ASSUME TypeInv, NEW r \in Requests, NEW next, Proper(next),
         NEW mm \in BOOLEAN, NEW rm \in BOOLEAN, Goes(r, next, mm, rm)
  PROVE  req'[r] = next /\ Kept(r, mm, rm)
<1>1. TypeOK /\ next \in States /\ (next.does = "idle" <=> next = Idle)
  BY DEF TypeInv, Proper
<1> QED
  BY <1>1, GoesEffect DEF Kept

\* A step that neither begins nor ends a strike or a copy.
LEMMA QuietStep ==
  ASSUME TypeInv, NEW r \in Requests, NEW next, Proper(next), Goes(r, next, FALSE, FALSE),
         ~Striking(r), ~Uncopied(r), mem' = mem, row' = row,
         next.does \in {"idle", "read", "strike"} \/ (next.does = "write" /\ next.op \in Copies)
  PROVE  Quietly(r)
<1>1. req'[r] = next /\ Kept(r, FALSE, FALSE)
  BY OthersKeep
<1>2. ~Striking(r)' /\ ~Uncopied(r)'
  BY <1>1, Apart DEF Striking, Uncopied
<1> QED
  BY <1>1, <1>2 DEF Quietly

LEMMA StepMoves ==
  ASSUME TypeInv, Next, ~crossed'
  PROVE  ~crossed /\ \E r \in Requests : Moves(r)
<1>1. PICK r \in Requests : Ask(r) \/ Go(r)
  BY DEF Next, ChatCommand
<1>2. /\ req[r] \in States /\ Sound(req[r]) /\ (req[r].does = "idle" <=> req[r] = Idle)
      /\ \A q \in Requests : req[q] \in States
  BY DEF TypeInv, TypeOK
<1>3. CASE Ask(r)
  <2>1. Free(r) /\ UNCHANGED <<mem, row, crossed>>
    BY <1>3, AskEffect
  <2>2. PICK next : /\ Proper(next) /\ Goes(r, next, FALSE, FALSE)
                    /\ next.does = "read" \/ (next.does = "write" /\ next.op \in Copies)
    BY <1>3, AskEffect
  <2>3. ~Striking(r) /\ ~Uncopied(r)
    BY <2>1, IdleIsProper DEF Free, Striking, Uncopied
  <2>4. Quietly(r)
    BY <2>1, <2>2, <2>3, QuietStep
  <2> QED
    BY <2>1, <2>4 DEF Moves
<1>4. CASE Read(r)
  <2>1. req[r].does = "read" /\ UNCHANGED <<mem, row, crossed>>
    BY <1>4, ReadEffect
  <2>2. PICK next : /\ Proper(next) /\ Goes(r, next, FALSE, FALSE)
                    /\ \/ next.does \in {"idle", "strike"}
                       \/ next.does = "write" /\ next.op \in Copies
    BY <1>4, ReadEffect
  <2>3. ~Striking(r) /\ ~Uncopied(r)
    BY <2>1 DEF Striking, Uncopied
  <2>4. Quietly(r)
    BY <2>1, <2>2, <2>3, QuietStep
  <2> QED
    BY <2>1, <2>4 DEF Moves
<1>5. CASE Strike(r)
  <2>1. /\ req[r].does = "strike" /\ row' = row /\ ~crossed
        /\ \A q \in Others(r) : ~Uncopied(q)
    BY <1>5, StrikeEffect
  <2>2. PICK next : /\ Proper(next) /\ Goes(r, next, TRUE, FALSE)
                    /\ next.does = "write" /\ next.op \in Strikes
                    /\ next.write = mem' /\ next.was = mem /\ next.mine
    BY <1>5, StrikeEffect
  <2>3. req'[r] = next /\ Kept(r, TRUE, FALSE)
    BY <2>2, OthersKeep
  <2>4. ~Striking(r) /\ ~Uncopied(r) /\ Striking(r)' /\ ~Uncopied(r)'
    BY <2>1, <2>2, <2>3 DEF Striking, Uncopied
  <2>5. StrikesMemory(r)
    BY <2>1, <2>2, <2>3, <2>4 DEF StrikesMemory
  <2> QED
    BY <2>1, <2>5 DEF Moves
<1>6. CASE Commit(r)
  <2>1. /\ req[r].does = "write" /\ (req[r].op \in Strikes => req[r].fresh)
        /\ mem' = mem /\ row' = Over(Written(r), row) /\ ~crossed
        /\ Goes(r, Told(r, TRUE), FALSE, TRUE)
    BY <1>6, CommitEffect
  <2>2. /\ Proper(Told(r, TRUE)) /\ req[r].op \in Strikes \cup Copies
        /\ Told(r, TRUE).op = req[r].op /\ Told(r, TRUE).does = "told" /\ Told(r, TRUE).ok
        /\ req[r].op \in Copies => Told(r, TRUE).write = Written(r) /\ Told(r, TRUE).fresh
    BY <2>1, ToldEffect
  <2>3. req'[r] = Told(r, TRUE) /\ Kept(r, FALSE, TRUE)
    BY <2>1, <2>2, OthersKeep
  <2>4. ~Uncopied(r)
    BY <2>1 DEF Uncopied
  <2>5. CASE req[r].op \in Strikes
    <3>1. req[r].op \notin Copies
      BY <2>5, Apart
    <3>2. Striking(r) /\ ~Striking(r)' /\ ~Uncopied(r)'
      BY <2>1, <2>2, <2>3, <2>5, <3>1 DEF Striking, Uncopied
    <3>3. Written(r) = req[r].write /\ req[r].write \in Health /\ row \in Health
      <4>1. "die" \in Copies
        BY DEF Copies
      <4> QED
        BY <1>2, <2>1, <2>5, <3>1, <4>1 DEF Written, Sound, TypeInv, TypeOK
    <3>4. row' = req[r].write
      BY <2>1, <3>3, OverAll
    <3>5. CommitsStrike(r)
      BY <2>1, <2>3, <2>5, <3>2, <3>4 DEF CommitsStrike
    <3> QED
      BY <2>1, <3>5 DEF Moves
  <2>6. CASE req[r].op \in Copies
    <3>1. req[r].op \notin Strikes
      BY <2>6, Apart
    <3>2. ~Striking(r) /\ ~Striking(r)' /\ Uncopied(r)' /\ req'[r].fresh
      BY <2>1, <2>2, <2>3, <2>6, <3>1 DEF Striking, Uncopied
    <3>3. CommitsCopy(r)
      BY <2>1, <2>2, <2>3, <2>4, <2>6, <3>2 DEF CommitsCopy
    <3> QED
      BY <2>1, <3>3 DEF Moves
  <2> QED
    BY <2>2, <2>5, <2>6
<1>7. CASE Refuse(r)
  <2>1. mem' = mem /\ row' = row /\ ~crossed
    BY <1>7, RefuseEffect
  <2>2. CASE req[r].does = "read" /\ Goes(r, Idle, FALSE, FALSE)
    <3>1. ~Striking(r) /\ ~Uncopied(r)
      BY <2>2 DEF Striking, Uncopied
    <3>2. Quietly(r)
      BY <2>1, <2>2, <3>1, QuietStep, IdleIsProper
    <3> QED
      BY <2>1, <3>2 DEF Moves
  <2>3. CASE req[r].does = "write" /\ Goes(r, Told(r, FALSE), FALSE, FALSE) /\ req[r].op \in Strikes
    <3>1. /\ Proper(Told(r, FALSE))
          /\ Told(r, FALSE).op = req[r].op /\ Told(r, FALSE).does = "told"
          /\ ~Told(r, FALSE).ok /\ ~Told(r, FALSE).fresh
          /\ Told(r, FALSE).was = req[r].was /\ Told(r, FALSE).mine = req[r].mine
      BY <2>3, ToldEffect
    <3>2. req'[r] = Told(r, FALSE) /\ Kept(r, FALSE, FALSE)
      BY <2>3, <3>1, OthersKeep
    <3>3. Striking(r) /\ Striking(r)' /\ ~Uncopied(r)'
      BY <2>3, <3>1, <3>2 DEF Striking, Uncopied
    <3>4. RefusesStrike(r)
      BY <2>1, <2>3, <3>1, <3>2, <3>3 DEF RefusesStrike
    <3> QED
      BY <2>1, <3>4 DEF Moves
  <2>4. CASE req[r].does = "write" /\ Goes(r, Told(r, FALSE), FALSE, FALSE) /\ req[r].op \in Copies
    <3>1. Told(r, FALSE) = Idle
      BY <2>4, ToldEffect
    <3>2. ~Striking(r) /\ ~Uncopied(r)
      BY <2>4, Apart DEF Striking, Uncopied
    <3>3. Quietly(r)
      BY <2>1, <2>4, <3>1, <3>2, QuietStep, IdleIsProper
    <3> QED
      BY <2>1, <3>3 DEF Moves
  <2> QED
    BY <1>7, <2>2, <2>3, <2>4, RefuseEffect, ToldEffect
<1>8. CASE Fail(r)
  <2>1. /\ req[r].does = "told" /\ ~req[r].ok /\ req[r].op \in Strikes /\ mem' = req[r].was
        /\ row' = row /\ ~crossed /\ req[r].mine /\ Goes(r, Idle, TRUE, FALSE)
    BY <1>8, FailEffect
  <2>2. req'[r] = Idle /\ Kept(r, TRUE, FALSE)
    BY <2>1, IdleIsProper, OthersKeep
  <2>3. Striking(r) /\ ~Striking(r)' /\ ~Uncopied(r)'
    BY <2>1, <2>2, IdleIsProper DEF Striking, Uncopied
  <2>4. Restores(r)
    BY <2>1, <2>2, <2>3 DEF Restores
  <2> QED
    BY <2>1, <2>4 DEF Moves
<1>9. CASE Succeed(r)
  <2>1. req[r].does = "told" /\ req[r].ok /\ row' = row /\ ~crossed
    BY <1>9, SucceedEffect
  <2>2. CASE req[r].op \in Strikes /\ mem' = mem /\ Goes(r, Idle, FALSE, FALSE)
    <3>1. ~Striking(r) /\ ~Uncopied(r)
      BY <2>1, <2>2, Apart DEF Striking, Uncopied
    <3>2. Quietly(r)
      BY <2>1, <2>2, <3>1, QuietStep, IdleIsProper
    <3> QED
      BY <2>1, <3>2 DEF Moves
  <2>3. CASE /\ req[r].op \in Copies /\ mem' = Over(req[r].write, mem)
             /\ Goes(r, Idle, TRUE, FALSE) /\ req[r].fresh
    <3>1. req'[r] = Idle /\ Kept(r, TRUE, FALSE)
      BY <2>3, IdleIsProper, OthersKeep
    <3>2. Uncopied(r) /\ ~Striking(r)' /\ ~Uncopied(r)'
      BY <2>1, <2>3, <3>1, IdleIsProper DEF Striking, Uncopied
    <3>3. CopiesBack(r)
      BY <2>1, <2>3, <3>1, <3>2 DEF CopiesBack
    <3> QED
      BY <2>1, <3>3 DEF Moves
  <2> QED
    BY <1>9, <2>2, <2>3, SucceedEffect
<1> QED
  BY <1>1, <1>3, <1>4, <1>5, <1>6, <1>7, <1>8, <1>9 DEF Go

----------------------------------------------------------------------------
(* Memory and the row.                                                     *)

LEMMA KeptFacts ==
  ASSUME TypeInv, NEW r \in Requests, NEW mm \in BOOLEAN, NEW rm \in BOOLEAN, Kept(r, mm, rm),
         NEW q \in Others(r)
  PROVE  /\ (Striking(q)' <=> Striking(q)) /\ (Uncopied(q)' <=> Uncopied(q))
         /\ q \in Requests /\ q # r
         /\ req'[q].does = req[q].does /\ req'[q].write = req[q].write /\ req'[q].was = req[q].was
         /\ (req'[q].mine <=> req[q].mine /\ ~mm) /\ (req'[q].fresh <=> req[q].fresh /\ ~rm)
BY DEF Kept, Striking, Uncopied, Others

LEMMA KeptMemory ==
  ASSUME TypeInv, NEW r \in Requests, NEW rm \in BOOLEAN, Kept(r, FALSE, rm),
         NEW q \in Others(r)
  PROVE  /\ Striking(q)' <=> Striking(q)
         /\ req'[q].does = req[q].does /\ req'[q].write = req[q].write /\ req'[q].was = req[q].was
         /\ req'[q].mine <=> req[q].mine
BY DEF Kept, Striking, Others

\* What only another request moved stays lost.
LEMMA StaysLost ==
  ASSUME TypeInv, NEW r \in Requests, NEW mm \in BOOLEAN, NEW rm \in BOOLEAN, Kept(r, mm, rm),
         NEW q \in Others(r), Lost(q)
  PROVE  Lost(q)'
BY KeptFacts DEF Lost

LEMMA HopelessStays ==
  ASSUME TypeInv, NEW r \in Requests, Moves(r), Hopeless
  PROVE  Hopeless'
<1>1. PICK mm \in BOOLEAN, rm \in BOOLEAN : Kept(r, mm, rm)
  BY DEF Moves, Quietly, StrikesMemory, CommitsStrike, CommitsCopy, RefusesStrike, Restores, CopiesBack
<1>2. ASSUME NEW x \in Requests, Lost(x)
      PROVE  Hopeless'
  <2>1. CASE x # r
    BY <1>1, <1>2, <2>1, StaysLost DEF Hopeless, Others
  <2>2. CASE x = r
    <3>1. Lost(r)
      BY <1>2, <2>2
    <3>2. ~(Striking(r) /\ Uncopied(r))
      BY Apart DEF Striking, Uncopied
    <3>3. ~Quietly(r) /\ ~StrikesMemory(r) /\ ~CommitsCopy(r) /\ ~CommitsStrike(r) /\ ~Restores(r)
      BY <3>1, <3>2 DEF Lost, Quietly, StrikesMemory, CommitsCopy, CommitsStrike, Restores
    <3>4. ~CopiesBack(r)
      BY <3>1, <3>2 DEF Lost, CopiesBack
    <3>5. RefusesStrike(r)
      BY <3>3, <3>4 DEF Moves
    <3>6. Lost(r)'
      BY <3>1, <3>2, <3>5 DEF RefusesStrike, Lost
    <3> QED
      BY <3>6 DEF Hopeless
  <2> QED
    BY <2>1, <2>2
<1>3. ASSUME NEW x \in Requests, NEW y \in Requests, x # y, Striking(x), Striking(y),
             ~req[x].mine, ~req[y].mine
      PROVE  Hopeless'
  <2>1. CASE r \notin {x, y}
    <3>1. x \in Others(r) /\ y \in Others(r)
      BY <2>1 DEF Others
    <3>2. Striking(x)' /\ Striking(y)' /\ ~req'[x].mine /\ ~req'[y].mine
      BY <1>1, <1>3, <3>1, KeptFacts
    <3> QED
      BY <1>3, <3>2 DEF Hopeless
  <2>2. ASSUME NEW q \in Requests, q # r, Striking(r), Striking(q), ~req[r].mine, ~req[q].mine
        PROVE  Hopeless'
    <3>1. q \in Others(r)
      BY <2>2 DEF Others
    <3>2. ~Uncopied(r)
      BY <2>2, Apart DEF Striking, Uncopied
    <3>3. RefusesStrike(r) \/ CommitsStrike(r)
      BY <2>2, <3>2 DEF Moves, Quietly, StrikesMemory, CommitsCopy, Restores, CopiesBack
    <3>4. CASE RefusesStrike(r)
      <4>1. Lost(r)'
        BY <2>2, <3>4 DEF RefusesStrike, Lost
      <4> QED
        BY <4>1 DEF Hopeless
    <3>5. CASE CommitsStrike(r)
      <4>1. Kept(r, FALSE, TRUE)
        BY <3>5 DEF CommitsStrike
      <4>2. Striking(q)' /\ ~req'[q].mine /\ ~req'[q].fresh
        BY <2>2, <3>1, <4>1, KeptFacts
      <4>3. Lost(q)'
        BY <4>2 DEF Lost
      <4> QED
        BY <4>3 DEF Hopeless
    <3> QED
      BY <3>3, <3>4, <3>5
  <2> QED
    BY <1>3, <2>1, <2>2
<1> QED
  BY <1>2, <1>3 DEF Hopeless

\* What is stacked stays so if the strikes and memory do.
LEMMA SameStack ==
  ASSUME TypeInv, NEW r \in Requests, Kept(r, FALSE, FALSE) \/ Kept(r, FALSE, TRUE),
         Striking(r)' <=> Striking(r), mem' = mem,
         Striking(r) => /\ req[r].mine /\ req'[r].mine /\ req'[r].was = req[r].was
                        /\ req'[r].does = "told",
         NEW b, Stacked(b)
  PROVE  Stacked(b)'
<1>1. \A q \in Requests :
        /\ Striking(q)' <=> Striking(q)
        /\ Striking(q) => /\ req'[q].was = req[q].was /\ (req'[q].mine <=> req[q].mine)
                          /\ q # r => req'[q].does = req[q].does /\ req'[q].write = req[q].write
  <2> TAKE q \in Requests
  <2>1. CASE q = r
    BY <2>1
  <2>2. CASE q # r
    <3>1. q \in Others(r)
      BY <2>2 DEF Others
    <3>2. PICK rm \in BOOLEAN : Kept(r, FALSE, rm)
      OBVIOUS
    <3> QED
      BY <2>2, <3>1, <3>2, KeptMemory
  <2> QED
    BY <2>1, <2>2
<1>2. ((\A q \in Requests : ~Striking(q)) => mem = b)'
  BY <1>1 DEF Stacked
<1>3. ASSUME NEW x \in Requests, Striking(x)', \A q \in Others(x) : ~Striking(q)'
      PROVE  req'[x].was = b /\ (req'[x].does = "write" => mem' = req'[x].write)
  <2>1. Striking(x) /\ \A q \in Others(x) : ~Striking(q)
    BY <1>1, <1>3 DEF Others
  <2>2. req[x].was = b /\ (req[x].does = "write" => mem = req[x].write)
    BY <2>1 DEF Stacked
  <2> QED
    BY <1>1, <2>1, <2>2
<1>4. ASSUME NEW x \in Requests, NEW y \in Requests, x # y, Striking(x)', Striking(y)', req'[x].mine
      PROVE  /\ ~req'[y].mine /\ req'[y].was = b /\ req'[x].was = req'[y].write
             /\ req'[x].does = "write" => mem' = req'[x].write
  <2>1. Striking(x) /\ Striking(y) /\ req[x].mine
    BY <1>1, <1>4
  <2>2. /\ ~req[y].mine /\ req[y].was = b /\ req[x].was = req[y].write
        /\ req[x].does = "write" => mem = req[x].write
    BY <1>4, <2>1 DEF Stacked
  <2>3. y # r
    BY <2>1, <2>2
  <2> QED
    BY <1>1, <1>4, <2>1, <2>2, <2>3
<1> QED
  BY <1>2, <1>3, <1>4 DEF Stacked

LEMMA ALostOne ==
  ASSUME NEW q \in Requests, Lost(q)'
  PROVE  Hopeless'
BY DEF Hopeless

\* The row keeps what it is made of while no copy and no strike is committed.
LEMMA SameRow ==
  ASSUME TypeInv, NEW r \in Requests, Kept(r, FALSE, FALSE) \/ Kept(r, TRUE, FALSE), row' = row,
         ~Uncopied(r), ~Uncopied(r)',
         Striking(r)' => (Striking(r) /\ ~req'[r].fresh) \/ \A q \in Others(r) : ~Uncopied(q),
         NEW b, RowMadeOf(b)
  PROVE  RowMadeOf(b)'
<1>1. \A q \in Others(r) :
        /\ Striking(q)' <=> Striking(q)
        /\ Uncopied(q)' <=> Uncopied(q)
        /\ req'[q].write = req[q].write
        /\ req'[q].fresh => req[q].fresh
  <2>1. CASE Kept(r, FALSE, FALSE)
    BY <2>1, KeptFacts, ZenonT(40)
  <2>2. CASE Kept(r, TRUE, FALSE)
    BY <2>2, KeptFacts, ZenonT(40)
  <2> QED
    BY <2>1, <2>2
<1>2. CASE row = b /\ \A q \in Requests : ~Uncopied(q)
  <2>1. row' = b /\ \A q \in Requests : ~Uncopied(q)'
    BY <1>1, <1>2 DEF Others
  <2> QED
    BY <2>1 DEF RowMadeOf
<1>3. ASSUME NEW c \in Requests, Uncopied(c), row = Over(req[c].write, b),
             \A q \in Others(c) : ~Uncopied(q),
             \A q \in Requests : Striking(q) => ~req[q].fresh
      PROVE  RowMadeOf(b)'
  <2>1. c \in Others(r)
    BY <1>3 DEF Others
  <2>2. Uncopied(c)' /\ row' = Over(req'[c].write, b)
    BY <1>1, <1>3, <2>1
  <2>3. \A q \in Others(c) : ~Uncopied(q)'
    BY <1>1, <1>3 DEF Others
  <2>4. ASSUME NEW q \in Requests, Striking(q)'
        PROVE  ~req'[q].fresh
    <3>1. CASE q = r
      BY <1>3, <2>1, <2>4, <3>1
    <3>2. CASE q # r
      BY <1>1, <1>3, <2>4, <3>2 DEF Others
    <3> QED
      BY <3>1, <3>2
  <2> QED
    BY <2>2, <2>3, <2>4 DEF RowMadeOf
<1> QED
  BY <1>2, <1>3 DEF RowMadeOf

LEMMA StackStays ==
  ASSUME TypeInv, ~Hopeless, NEW b \in Health, Stacked(b), RowMadeOf(b),
         NEW r \in Requests, Moves(r)
  PROVE  Hopeless' \/ \E bb \in Health : Stacked(bb)' /\ RowMadeOf(bb)'
<1> DEFINE Goal == Hopeless' \/ \E bb \in Health : Stacked(bb)' /\ RowMadeOf(bb)'
<1>1. ASSUME Quietly(r) PROVE Goal
  <2>1. Stacked(b)'
    BY <1>1, SameStack DEF Quietly
  <2>2. RowMadeOf(b)'
    BY <1>1, SameRow DEF Quietly
  <2> QED
    BY <2>1, <2>2
<1>2. ASSUME StrikesMemory(r) PROVE Goal
  <2>1. /\ ~Striking(r) /\ ~Uncopied(r) /\ Striking(r)' /\ ~Uncopied(r)'
        /\ req'[r].does = "write" /\ req'[r].write = mem' /\ req'[r].was = mem /\ req'[r].mine
        /\ \A q \in Others(r) : ~Uncopied(q)
        /\ row' = row /\ Kept(r, TRUE, FALSE)
    BY <1>2 DEF StrikesMemory
  <2>2. \A q \in Others(r) :
          /\ Striking(q)' <=> Striking(q)
          /\ req'[q].does = req[q].does /\ req'[q].write = req[q].write /\ req'[q].was = req[q].was
          /\ ~req'[q].mine
    BY <2>1, KeptFacts, ZenonT(40)
  <2>3. RowMadeOf(b)'
    BY <2>1, SameRow
  <2>4. CASE \A q \in Others(r) : ~Striking(q)
    <3>1. mem = b
      BY <2>1, <2>4 DEF Stacked, Others
    <3>2. \A q \in Requests : Striking(q)' => q = r
      BY <2>2, <2>4 DEF Others
    <3>3. Stacked(b)'
      BY <2>1, <3>1, <3>2 DEF Stacked
    <3> QED
      BY <2>3, <3>3
  <2>5. ASSUME NEW q \in Others(r), Striking(q), \A x \in Others(r) : Striking(x) => x = q
        PROVE  Goal
    <3>1. q \in Requests /\ q # r /\ \A x \in Others(q) : ~Striking(x)
      BY <2>1, <2>5 DEF Others
    <3>2. req[q].was = b /\ (req[q].does = "write" => mem = req[q].write)
      BY <2>5, <3>1 DEF Stacked
    <3>3. CASE req[q].does = "told"
      <4>1. Striking(q)' /\ ~req'[q].mine /\ req'[q].does = "told"
        BY <2>2, <2>5, <3>3
      <4>2. Lost(q)'
        BY <4>1 DEF Lost
      <4> QED
        BY <3>1, <4>2, ALostOne
    <3>4. CASE req[q].does = "write"
      <4>1. \A x \in Requests : Striking(x)' => x = r \/ x = q
        BY <2>2, <2>5 DEF Others
      <4>2. Striking(q)' /\ ~req'[q].mine /\ req'[q].was = b /\ req'[q].write = mem
        BY <2>2, <2>5, <3>2, <3>4
      <4>3. ((\A x \in Requests : ~Striking(x)) => mem = b)'
        BY <2>1
      <4>4. \A x \in Requests : ~(Striking(x)' /\ \A y \in Others(x) : ~Striking(y)')
        BY <2>1, <3>1, <4>1, <4>2 DEF Others
      <4>5. \A x \in Requests, y \in Requests :
              x # y /\ Striking(x)' /\ Striking(y)' /\ req'[x].mine => x = r /\ y = q
        BY <4>1, <4>2
      <4>6. Stacked(b)'
        BY <2>1, <4>2, <4>3, <4>4, <4>5 DEF Stacked
      <4> QED
        BY <2>3, <4>6
    <3> QED
      BY <2>5, <3>3, <3>4 DEF Striking
  <2>6. ASSUME NEW q \in Others(r), NEW x \in Others(r), q # x, Striking(q), Striking(x)
        PROVE  Goal
    <3>1. Striking(q)' /\ Striking(x)' /\ ~req'[q].mine /\ ~req'[x].mine
      BY <2>2, <2>6
    <3> QED
      BY <2>6, <3>1 DEF Hopeless, Others
  <2> QED
    BY <2>4, <2>5, <2>6
<1>3. ASSUME CommitsStrike(r) PROVE Goal
  <2>1. /\ Striking(r) /\ req[r].does = "write" /\ req[r].fresh
        /\ ~Striking(r)' /\ ~Uncopied(r)'
        /\ mem' = mem /\ row' = req[r].write /\ Kept(r, FALSE, TRUE)
    BY <1>3 DEF CommitsStrike
  <2>2. \A q \in Others(r) :
          /\ Striking(q)' <=> Striking(q)
          /\ Uncopied(q)' <=> Uncopied(q)
          /\ req'[q].does = req[q].does /\ req'[q].write = req[q].write /\ req'[q].was = req[q].was
          /\ req'[q].mine <=> req[q].mine
          /\ ~req'[q].fresh
    BY <2>1, KeptFacts, ZenonT(40)
  <2>3. row = b /\ \A q \in Requests : ~Uncopied(q)
    BY <2>1 DEF RowMadeOf
  <2>4. PICK bb \in Health : bb = req[r].write
    BY <2>1 DEF Striking, TypeInv, Sound
  <2>5. \A q \in Requests : ~Uncopied(q)'
    BY <2>1, <2>2, <2>3 DEF Others
  <2>6. RowMadeOf(bb)'
    BY <2>1, <2>4, <2>5 DEF RowMadeOf
  <2>7. CASE \A q \in Others(r) : ~Striking(q)
    <3>1. mem = bb
      BY <2>1, <2>4, <2>7 DEF Stacked
    <3>2. \A q \in Requests : ~Striking(q)'
      BY <2>1, <2>2, <2>7 DEF Others
    <3>3. Stacked(bb)'
      BY <2>1, <3>1, <3>2 DEF Stacked
    <3> QED
      BY <2>4, <2>6, <3>3
  <2>8. ASSUME NEW q \in Others(r), Striking(q), ~req[q].mine
        PROVE  Goal
    <3>1. Lost(q)'
      BY <2>2, <2>8 DEF Lost, Striking
    <3> QED
      BY <3>1, ALostOne DEF Others
  <2>9. ASSUME NEW q \in Others(r), Striking(q), \A x \in Others(r) : Striking(x) => req[x].mine
        PROVE  Goal
    <3>1. q \in Requests /\ q # r /\ req[q].mine
      BY <2>9 DEF Others
    <3>2. /\ ~req[r].mine /\ req[r].was = b /\ req[q].was = req[r].write
          /\ req[q].does = "write" => mem = req[q].write
      BY <2>1, <2>9, <3>1 DEF Stacked
    <3>3. \A x \in Others(r) : Striking(x) => x = q
      BY <2>9, <3>1 DEF Stacked, Others
    <3>4. \A x \in Requests : Striking(x)' <=> x = q
      BY <2>1, <2>2, <2>9, <3>1, <3>3 DEF Others
    <3>5. req'[q].was = bb /\ (req'[q].does = "write" => mem' = req'[q].write)
      BY <2>1, <2>2, <2>4, <2>9, <3>2
    <3>6. Stacked(bb)'
      BY <3>1, <3>4, <3>5 DEF Stacked
    <3> QED
      BY <2>4, <2>6, <3>6
  <2> QED
    BY <2>7, <2>8, <2>9
<1>4. ASSUME CommitsCopy(r) PROVE Goal
  <2>1. /\ ~Striking(r) /\ ~Uncopied(r) /\ ~Striking(r)' /\ Uncopied(r)' /\ req'[r].fresh
        /\ mem' = mem /\ row' = Over(req'[r].write, row) /\ Kept(r, FALSE, TRUE)
    BY <1>4 DEF CommitsCopy
  <2>2. \A q \in Others(r) :
          /\ Striking(q)' <=> Striking(q)
          /\ Uncopied(q)' <=> Uncopied(q)
          /\ ~req'[q].fresh
    BY <2>1, KeptFacts, ZenonT(40)
  <2>3. CASE row = b /\ \A q \in Requests : ~Uncopied(q)
    <3>1. Stacked(b)'
      BY <2>1, SameStack
    <3>2. /\ row' = Over(req'[r].write, b) /\ \A q \in Others(r) : ~Uncopied(q)'
          /\ \A q \in Requests : Striking(q)' => ~req'[q].fresh
      BY <2>1, <2>2, <2>3 DEF Others
    <3>3. RowMadeOf(b)'
      BY <2>1, <3>2 DEF RowMadeOf
    <3> QED
      BY <3>1, <3>3
  <2>4. ASSUME NEW c \in Requests, Uncopied(c)
        PROVE  Goal
    <3>1. c \in Others(r)
      BY <2>1, <2>4 DEF Others
    <3>2. Lost(c)'
      BY <2>2, <2>4, <3>1 DEF Lost
    <3> QED
      BY <2>4, <3>2, ALostOne
  <2> QED
    BY <2>3, <2>4 DEF RowMadeOf
<1>5. ASSUME RefusesStrike(r) PROVE Goal
  <2>1. /\ Striking(r) /\ req[r].does = "write" /\ Striking(r)' /\ req'[r].does = "told"
        /\ ~Uncopied(r)' /\ req'[r].was = req[r].was /\ (req'[r].mine <=> req[r].mine)
        /\ mem' = mem /\ row' = row /\ Kept(r, FALSE, FALSE)
    BY <1>5 DEF RefusesStrike
  <2>2. CASE ~req[r].mine
    <3>1. Lost(r)'
      BY <2>1, <2>2 DEF Lost
    <3> QED
      BY <3>1, ALostOne
  <2>3. CASE req[r].mine
    <3>1. Stacked(b)'
      BY <2>1, <2>3, SameStack
    <3>2. ~Uncopied(r)
      BY <2>1, Apart DEF Striking, Uncopied
    <3>3. ~req'[r].fresh
      BY <1>5 DEF RefusesStrike
    <3>4. RowMadeOf(b)'
      BY <2>1, <3>2, <3>3, SameRow
    <3> QED
      BY <3>1, <3>4
  <2> QED
    BY <2>2, <2>3
<1>6. ASSUME Restores(r) PROVE Goal
  <2>1. /\ Striking(r) /\ req[r].does = "told" /\ req[r].mine /\ ~Striking(r)' /\ ~Uncopied(r)'
        /\ mem' = req[r].was /\ row' = row /\ Kept(r, TRUE, FALSE)
    BY <1>6 DEF Restores
  <2>2. \A q \in Others(r) :
          /\ Striking(q)' <=> Striking(q)
          /\ req'[q].does = req[q].does /\ req'[q].write = req[q].write /\ req'[q].was = req[q].was
          /\ ~req'[q].mine
    BY <2>1, KeptFacts, ZenonT(40)
  <2>3. ~Uncopied(r)
    BY <2>1, Apart DEF Striking, Uncopied
  <2>4. RowMadeOf(b)'
    BY <2>1, <2>3, SameRow
  <2>5. CASE \A q \in Others(r) : ~Striking(q)
    <3>1. req[r].was = b
      BY <2>1, <2>5 DEF Stacked
    <3>2. \A q \in Requests : ~Striking(q)'
      BY <2>1, <2>2, <2>5 DEF Others
    <3>3. Stacked(b)'
      BY <2>1, <3>1, <3>2 DEF Stacked
    <3> QED
      BY <2>4, <3>3
  <2>6. ASSUME NEW q \in Others(r), Striking(q)
        PROVE  Goal
    <3>1. q \in Requests /\ q # r
      BY DEF Others
    <3>2. ~req[q].mine /\ req[q].was = b /\ req[r].was = req[q].write
      BY <2>1, <2>6, <3>1 DEF Stacked
    <3>3. \A x \in Others(r) : Striking(x) => ~req[x].mine
      BY <2>1 DEF Stacked, Others
    <3>4. \A x \in Others(r) : Striking(x) => x = q
      BY <2>6, <3>1, <3>2, <3>3 DEF Hopeless, Others
    <3>5. \A x \in Requests : Striking(x)' <=> x = q
      BY <2>1, <2>2, <2>6, <3>1, <3>4 DEF Others
    <3>6. req'[q].was = b /\ req'[q].write = mem'
      BY <2>1, <2>2, <2>6, <3>2
    <3>7. Stacked(b)'
      BY <3>1, <3>5, <3>6 DEF Stacked
    <3> QED
      BY <2>4, <3>7
  <2> QED
    BY <2>5, <2>6
<1>7. ASSUME CopiesBack(r) PROVE Goal
  <2>1. /\ Uncopied(r) /\ req[r].fresh /\ ~Striking(r)' /\ ~Uncopied(r)'
        /\ mem' = Over(req[r].write, mem) /\ row' = row /\ Kept(r, TRUE, FALSE)
    BY <1>7 DEF CopiesBack
  <2>2. \A q \in Others(r) :
          /\ Striking(q)' <=> Striking(q)
          /\ Uncopied(q)' <=> Uncopied(q)
          /\ req'[q].does = req[q].does /\ ~req'[q].mine /\ (req'[q].fresh => req[q].fresh)
    BY <2>1, KeptFacts, ZenonT(40)
  <2>3. /\ row = Over(req[r].write, b) /\ \A q \in Others(r) : ~Uncopied(q)
        /\ \A q \in Requests : Striking(q) => ~req[q].fresh
    BY <2>1 DEF RowMadeOf, Others
  <2>4. ~Striking(r)
    BY <2>1, Apart DEF Striking, Uncopied
  <2>5. ASSUME NEW q \in Others(r), Striking(q)
        PROVE  Goal
    <3>1. q \in Requests /\ Striking(q)' /\ ~req'[q].mine /\ ~req'[q].fresh
      BY <2>2, <2>3, <2>5 DEF Others
    <3>2. Lost(q)'
      BY <3>1 DEF Lost
    <3> QED
      BY <3>1, <3>2, ALostOne
  <2>6. CASE \A q \in Others(r) : ~Striking(q)
    <3>1. mem = b
      BY <2>4, <2>6 DEF Stacked, Others
    <3>2. mem' = row /\ row \in Health
      BY <2>1, <2>3, <3>1 DEF TypeInv, TypeOK
    <3>3. \A q \in Requests : ~Striking(q)' /\ ~Uncopied(q)'
      BY <2>1, <2>2, <2>3, <2>6 DEF Others
    <3>4. PICK bb \in Health : bb = row
      BY <3>2
    <3>5. Stacked(bb)' /\ RowMadeOf(bb)'
      BY <2>1, <3>2, <3>3, <3>4 DEF Stacked, RowMadeOf
    <3> QED
      BY <3>5
  <2> QED
    BY <2>5, <2>6
<1> QED
  BY <1>1, <1>2, <1>3, <1>4, <1>5, <1>6, <1>7 DEF Moves

LEMMA HpStep ==
  ASSUME TypeInv, HpInv, [Next]_vars
  PROVE  HpInv'
<1>1. CASE UNCHANGED vars
  <2>1. req' = req /\ mem' = mem /\ row' = row /\ crossed' = crossed
    BY <1>1 DEF vars
  <2>2. Hopeless => Hopeless'
    BY <2>1 DEF Hopeless, Lost, Striking, Uncopied
  <2>3. ASSUME NEW b, Stacked(b) PROVE Stacked(b)'
    BY <2>1, <2>3 DEF Stacked, Striking
  <2>4. ASSUME NEW b, RowMadeOf(b) PROVE RowMadeOf(b)'
    BY <2>1, <2>4 DEF RowMadeOf, Striking, Uncopied
  <2> QED
    BY <2>1, <2>2, <2>3, <2>4 DEF HpInv
<1>2. CASE Next /\ crossed'
  BY <1>2 DEF HpInv
<1>3. CASE Next /\ ~crossed'
  <2>1. ~crossed
    BY <1>3, StepMoves
  <2>2. PICK r \in Requests : Moves(r)
    BY <1>3, StepMoves
  <2>3. CASE Hopeless
    BY <2>2, <2>3, HopelessStays DEF HpInv
  <2>4. CASE ~Hopeless
    <3>1. PICK b \in Health : Stacked(b) /\ RowMadeOf(b)
      BY <2>1, <2>4 DEF HpInv
    <3>2. Hopeless' \/ \E bb \in Health : Stacked(bb)' /\ RowMadeOf(bb)'
      BY <2>2, <2>4, <3>1, StackStays
    <3> QED
      BY <3>2 DEF HpInv
  <2> QED
    BY <2>3, <2>4
<1> QED
  BY <1>1, <1>2, <1>3

LEMMA HpInit == Init => HpInv
<1> SUFFICES ASSUME Init PROVE HpInv
  OBVIOUS
<1>1. /\ mem = [hp |-> MaxHp, s |-> 0, f |-> 0] /\ row = mem
      /\ \A r \in Requests : req[r] = Idle
  BY DEF Init
<1>2. mem \in Health
  BY <1>1, HpAssumption DEF Health
<1>3. \A r \in Requests : ~Striking(r) /\ ~Uncopied(r)
  BY <1>1, IdleIsProper DEF Striking, Uncopied
<1>4. Stacked(mem) /\ RowMadeOf(mem)
  BY <1>1, <1>3 DEF Stacked, RowMadeOf
<1> QED
  BY <1>2, <1>4 DEF HpInv

(* Damage, healing, death saves, the sheet, rests and hit dice leave       *)
(* memory and the row agreeing unless two of them crossed or a chat        *)
(* command wrote one of the two, whatever their number, their amounts and  *)
(* the queries that fail.                                                  *)
THEOREM MemoryAndRowMatch == Spec => []MatchesUnlessCrossed
<1>1. TypeInv /\ HpInv => MatchesUnlessCrossed
  <2> SUFFICES ASSUME HpInv, Settled, ~crossed PROVE mem = row
    BY DEF MatchesUnlessCrossed
  <2>1. \A r \in Requests : ~Striking(r) /\ ~Uncopied(r)
    BY IdleIsProper DEF Settled, Free, Striking, Uncopied
  <2>2. ~Hopeless
    BY <2>1 DEF Hopeless, Lost
  <2>3. PICK b \in Health : Stacked(b) /\ RowMadeOf(b)
    BY <2>2 DEF HpInv
  <2>4. mem = b
    BY <2>1, <2>3 DEF Stacked
  <2>5. row = b
    BY <2>1, <2>3 DEF RowMadeOf
  <2> QED
    BY <2>4, <2>5
<1> QED
  BY TypeInit, TypeStep, HpInit, HpStep, <1>1, PTL DEF Spec
=============================================================================
