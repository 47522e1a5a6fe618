------------------------------- MODULE CombatHp -------------------------------
(***************************************************************************)
(* The hit points of one character in a fight are kept twice: in the       *)
(* combatant in memory (services/CombatService.ts) and in the row of       *)
(* characters.  Damage, healing and death saves change both, guarded by    *)
(* the version of the row; the sheet (character:update), a long rest and   *)
(* a hit die change the row and then copy what they wrote to memory.  Some *)
(* chat commands write one of the two by themselves: ChatCommand.          *)
(*                                                                         *)
(* Every await is a step of its own.  A version is compared with the one   *)
(* read before, so "fresh" (nobody wrote since) stands for it.             *)
(***************************************************************************)
EXTENDS Naturals, FiniteSets, Functions

CONSTANTS
  Requests,     \* requests in flight (bound)
  MaxHp,        \* maximum hit points of the character
  Limit,        \* death saves counted of each kind: 3 in the code
  Hits,         \* <<hit points, death saves if the target is down>> of a hit
  MaxFaults     \* failed queries, lost replies and chat commands (bound)

ASSUME HpAssumption ==
  /\ IsFiniteSet(Requests)
  /\ {MaxHp, Limit} \subseteq Nat \ {0} /\ MaxFaults \in Nat
  /\ Hits \subseteq (1 .. MaxHp) \X (1 .. 2)

VARIABLES
  mem,          \* hit points and death saves of the combatant in memory
  stable,       \* the token has the condition "stable"
  row,          \* hit points and death saves of the row of characters
  req,          \* what a request awaits
  faults,       \* faults so far
  crossed       \* requests crossed, a reply was lost, a chat command wrote

vars == <<mem, stable, row, req, faults, crossed>>

Health == [hp : 0 .. MaxHp, s : 0 .. Limit, f : 0 .. Limit]
Nothing == [k \in {} |-> 0]
Writes == {Restrict(h, D) : h \in Health, D \in {{}, {"hp"}, {"s", "f"}, {"hp", "s", "f"}}}
Idle == [op |-> "none", does |-> "idle", n |-> 0, k |-> 0, write |-> Nothing,
         was |-> Nothing, fresh |-> FALSE, mine |-> FALSE, ok |-> FALSE]

Strikes == {"damage", "heal"}                     \* change memory first
Copies == {"stabilise", "count", "edit", "rest", "die"}   \* change the row first
Unguarded == {"rest", "die"}                      \* do not look at the version

States == [op : Strikes \cup Copies \cup {"none"},
           does : {"idle", "read", "strike", "write", "told"},
           n : 0 .. MaxHp, k : 0 .. 2, write : Writes, was : Health \cup {Nothing},
           fresh : BOOLEAN, mine : BOOLEAN, ok : BOOLEAN]

(* The invariant of types. *)
TypeOK ==
  /\ mem \in Health /\ row \in Health
  /\ stable \in BOOLEAN /\ crossed \in BOOLEAN /\ faults \in 0 .. MaxFaults
  /\ req \in [Requests -> States]
  /\ \A r \in Requests : req[r].does = "idle" <=> req[r] = Idle

Init ==
  /\ mem = [hp |-> MaxHp, s |-> 0, f |-> 0] /\ row = mem
  /\ stable = FALSE /\ faults = 0 /\ crossed = FALSE
  /\ req = [r \in Requests |-> Idle]

Least(a, b) == IF a < b THEN a ELSE b
Free(r) == req[r] = Idle
Others(r) == Requests \ {r}
Done == Idle
Begin(op, does) == [Idle EXCEPT !.op = op, !.does = does]
\* Some of the values change, and the others stay.
Over(write, health) ==
  [k \in {"hp", "s", "f"} |-> IF k \in DOMAIN write THEN write[k] ELSE health[k]]

Fault == faults < MaxFaults /\ faults' = faults + 1

\* Committed, and not yet copied to memory.
Uncopied(q) == req[q].does = "told" /\ req[q].ok /\ req[q].op \in Copies

\* r goes on; what the others remember of memory or of the row is outdated.
Goes(r, next, memoryMoved, rowMoved) ==
  req' = [q \in Requests |->
            IF q = r THEN next
            ELSE [req[q] EXCEPT !.mine = @ /\ ~memoryMoved, !.fresh = @ /\ ~rowMoved]]

----------------------------------------------------------------------------
(* Requests come in.                                                       *)

\* combat:damage; a hit on a creature that is down is a death save failed, a
\* critical one is two.
Damage(r, hit) ==
  /\ Free(r)
  /\ Goes(r, [Begin("damage", "read") EXCEPT !.n = hit[1], !.k = hit[2]], FALSE, FALSE)
  /\ UNCHANGED <<mem, stable, row, faults, crossed>>

Heal(r, n) ==
  /\ Free(r)
  /\ Goes(r, [Begin("heal", "read") EXCEPT !.n = n], FALSE, FALSE)
  /\ UNCHANGED <<mem, stable, row, faults, crossed>>

\* The counters after a roll are computed before the first query.
RollDeathSave(r) ==
  /\ Free(r) /\ mem.hp = 0 /\ ~stable
  /\ \E won \in {<<1, 0>>, <<0, 1>>, <<0, 2>>} :
       LET s == Least(Limit, mem.s + won[1])
           f == Least(Limit, mem.f + won[2])
       IN  Goes(r, IF s = Limit
                     THEN [Begin("stabilise", "read") EXCEPT !.write = [hp |-> 0, s |-> 0, f |-> 0]]
                     ELSE [Begin("count", "read") EXCEPT
                             !.write = Restrict([hp |-> 0, s |-> s, f |-> f], {"s", "f"})],
                FALSE, FALSE)
  /\ UNCHANGED <<mem, stable, row, faults, crossed>>

\* A natural 20 heals one hit point.
RollTwenty(r) == mem.hp = 0 /\ ~stable /\ Heal(r, 1)

\* character:update from a sheet that shows the latest version.
EditSheet(r) ==
  /\ Free(r)
  /\ \E w \in Writes \ {Nothing} :
       Goes(r, [Begin("edit", "write") EXCEPT !.write = w, !.fresh = TRUE], FALSE, FALSE)
  /\ UNCHANGED <<mem, stable, row, faults, crossed>>

\* character:rest, a long one.
Rest(r) ==
  /\ Free(r) /\ Goes(r, Begin("rest", "read"), FALSE, FALSE)
  /\ UNCHANGED <<mem, stable, row, faults, crossed>>

\* character:spend-hit-die.
SpendHitDie(r, n) ==
  /\ Free(r) /\ Goes(r, [Begin("die", "write") EXCEPT !.n = n], FALSE, FALSE)
  /\ UNCHANGED <<mem, stable, row, faults, crossed>>

\* !endurance, !stonesendurance, !revivify and some twenty more write the row
\* or the combatant by themselves, each at its own moment, compare no version
\* and copy nothing: here any value may come of it.
ChatCommand(r) ==
  /\ Free(r) /\ Fault /\ crossed' = TRUE
  /\ \E w \in Writes \ {Nothing} :
       \/ row' = Over(w, row) /\ Goes(r, Done, FALSE, TRUE) /\ UNCHANGED mem
       \/ mem' = Over(w, mem) /\ Goes(r, Done, TRUE, FALSE) /\ UNCHANGED row
  /\ UNCHANGED stable

Ask(r) ==
  \/ \E hit \in Hits : Damage(r, hit)
  \/ \E n \in 1 .. MaxHp : Heal(r, n) \/ SpendHitDie(r, n)
  \/ RollDeathSave(r) \/ RollTwenty(r)
  \/ EditSheet(r) \/ Rest(r)

----------------------------------------------------------------------------
(* What a request does between two awaits.                                 *)

\* computeLongRest writes only what the row it has read lacks.
RestWrite ==
  Restrict([hp |-> MaxHp, s |-> 0, f |-> 0],
           (IF row.hp < MaxHp THEN {"hp"} ELSE {})
             \cup (IF row.s + row.f > 0 THEN {"s", "f"} ELSE {}))

\* The row is read, and its version with it.
Read(r) ==
  LET go(next) == [req[r] EXCEPT !.does = next, !.fresh = TRUE]
  IN  /\ req[r].does = "read"
      /\ \/ req[r].op \in Strikes /\ Goes(r, go("strike"), FALSE, FALSE)
         \/ req[r].op \in {"stabilise", "count"} /\ Goes(r, go("write"), FALSE, FALSE)
         \/ /\ req[r].op = "rest"
            /\ Goes(r, IF RestWrite = Nothing THEN Done
                         ELSE [Begin("rest", "write") EXCEPT !.write = RestWrite], FALSE, FALSE)
      /\ UNCHANGED <<mem, stable, row, faults, crossed>>

\* What damage and healing make of the combatant.
Struck(r) ==
  LET hp == mem.hp - Least(mem.hp, req[r].n)
  IN  IF req[r].op = "damage"
        THEN [mem EXCEPT !.hp = hp,
                !.f = IF mem.hp = 0 THEN Least(Limit, @ + req[r].k) ELSE @]
        ELSE [hp |-> Least(MaxHp, mem.hp + req[r].n), s |-> 0, f |-> 0]

\* applyDamage and applyHeal change the combatant before the row.
Strike(r) ==
  /\ req[r].does = "strike"
  /\ mem' = Struck(r)
  /\ Goes(r, [req[r] EXCEPT !.does = "write", !.n = 0, !.k = 0,
                             !.write = mem', !.was = mem, !.mine = TRUE], TRUE, FALSE)
  /\ crossed' = (crossed \/ \E q \in Others(r) : Uncopied(q))
  /\ UNCHANGED <<stable, row, faults>>

\* Mutant: a hit die heals past the maximum.
WrittenUncapped(r) ==
  IF req[r].op = "die" THEN [hp |-> row.hp + req[r].n] ELSE req[r].write

\* What the UPDATE writes; a hit die is computed under a lock of the row.
Written(r) ==
  IF req[r].op = "die"
    THEN Restrict([row EXCEPT !.hp = Least(MaxHp, @ + req[r].n)], {"hp"})
    ELSE req[r].write

\* What is left to do when the server has the answer; a request that has not
\* changed memory yet ends with an error.
Told(r, ok) ==
  LET told == [Begin(req[r].op, "told") EXCEPT !.ok = ok]
  IN  CASE req[r].op \in Strikes /\ ok -> told
        [] req[r].op \in Strikes /\ ~ok -> [told EXCEPT !.was = req[r].was, !.mine = req[r].mine]
        [] req[r].op \in Copies /\ ok -> [told EXCEPT !.write = Written(r), !.fresh = TRUE]
        [] OTHER -> Done

Guarded(r) == req[r].op \notin Unguarded
Needless(r) == req[r].op = "die" /\ row.hp = MaxHp

\* The UPDATE is carried out, and its reply may be lost.
Carry(r) ==
  /\ row' = Over(Written(r), row)
  /\ \/ Goes(r, Told(r, TRUE), FALSE, TRUE) /\ UNCHANGED <<faults, crossed>>
     \/ Goes(r, Told(r, FALSE), FALSE, TRUE) /\ Fault /\ crossed' = TRUE
  /\ UNCHANGED <<mem, stable>>

\* Mutant: the version is not compared.
CommitUnguarded(r) == req[r].does = "write" /\ ~Needless(r) /\ Carry(r)

\* The row is changed if its version is the one that was read.
Commit(r) ==
  /\ req[r].does = "write"
  /\ Guarded(r) => req[r].fresh
  /\ ~Needless(r)
  /\ Carry(r)

\* The version has changed, there is nothing to heal, or a query fails.
Refuse(r) ==
  /\ \/ /\ req[r].does = "write" /\ UNCHANGED faults
        /\ (Guarded(r) /\ ~req[r].fresh) \/ Needless(r)
        /\ Goes(r, Told(r, FALSE), FALSE, FALSE)
     \/ /\ req[r].does = "write" /\ Fault
        /\ Goes(r, Told(r, FALSE), FALSE, FALSE)
     \/ /\ req[r].does = "read" /\ Fault
        /\ Goes(r, Done, FALSE, FALSE)
  /\ UNCHANGED <<mem, stable, row, crossed>>

\* Mutant: a refused strike leaves the combatant as it is.
FailAsIs(r) ==
  /\ req[r].does = "told" /\ ~req[r].ok
  /\ Goes(r, Done, FALSE, FALSE)
  /\ UNCHANGED <<mem, stable, row, faults, crossed>>

\* A refused strike restores the combatant.
Fail(r) ==
  /\ req[r].does = "told" /\ ~req[r].ok
  /\ mem' = req[r].was
  /\ Goes(r, Done, TRUE, FALSE)
  /\ crossed' = (crossed \/ ~req[r].mine)
  /\ UNCHANGED <<stable, row, faults>>

\* Damage ends "stable", so does healing that leaves hit points; the others
\* copy to memory what they have written.
Succeed(r) ==
  LET copies == req[r].op \in Copies
  IN  /\ req[r].does = "told" /\ req[r].ok
      /\ Goes(r, Done, copies, FALSE)
      /\ mem' = IF copies THEN Over(req[r].write, mem) ELSE mem
      /\ stable' = CASE req[r].op = "damage" -> FALSE
                     [] req[r].op = "heal" -> stable /\ mem.hp = 0
                     [] req[r].op = "stabilise" -> TRUE
                     [] OTHER -> stable
      /\ crossed' = (crossed \/ (copies /\ ~req[r].fresh))
      /\ UNCHANGED <<row, faults>>

Go(r) == Read(r) \/ Strike(r) \/ Commit(r) \/ Refuse(r) \/ Fail(r) \/ Succeed(r)

Next == \E r \in Requests : Ask(r) \/ Go(r) \/ ChatCommand(r)

Spec == Init /\ [][Next]_vars

----------------------------------------------------------------------------
(* Properties.                                                             *)

Settled == \A r \in Requests : Free(r)

(* When every request has been answered, memory and the row agree, unless  *)
(* two requests crossed: a strike on memory that lacked a committed        *)
(* change, a restore over a later change, a copy of something outdated;    *)
(* or the reply to a committed UPDATE was lost; or a chat command wrote    *)
(* one of the two by itself.                                               *)
MatchesUnlessCrossed == (Settled /\ ~crossed) => mem = row

(* The comment before the guarded UPDATE of applyDamage: a version         *)
(* conflict "only has to restore the in-memory combatant".  A restore that *)
(* leaves no request under way would then leave memory and row agreeing.   *)
(* The code does not keep it (see the findings).                           *)
RestoreIsEnough ==
  [][(~crossed /\ Settled' /\ \E r \in Requests : Fail(r)) => mem' = row']_vars
=============================================================================
