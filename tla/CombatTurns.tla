---------------------------- MODULE CombatTurns ----------------------------
(***************************************************************************)
(* The initiative order of a running fight: whose turn it is and in which  *)
(* round.  The order is an array that is re-sorted by initiative edits and *)
(* by combatants joining late, and spliced when a token is deleted, while  *)
(* the turn is a bare index into it (services/CombatService.ts, driven by  *)
(* socket/combat/initiativeEvents.ts and lifecycleEvents.ts).              *)
(*                                                                         *)
(* Three handlers await a query half way: combat:next-turn when the        *)
(* combatant whose turn ends rolls a save against a lingering condition,   *)
(* combat:add-combatant when the token has a character sheet, and a change *)
(* of scene.  They are split at the await; every other handler is one      *)
(* action.                                                                 *)
(*                                                                         *)
(* The array index is 1-based here: turn = currentTurnIndex + 1.  HP and   *)
(* death saves are followed per token, not per array entry.                *)
(***************************************************************************)
EXTENDS Integers, Sequences, FiniteSets, SequencesExt

CONSTANTS
  Tokens,      \* tokens of the session
  Linked,      \* tokens with a character sheet (token.characterId)
  NPCs,        \* tokens whose combatant has isNPC
  Alert,       \* tokens whose character has the Alert feat
  Bonus,       \* initiativeBonus of each token
  Players,     \* users who are not the DM
  OwnerOf,     \* token.ownerUserId, or Nobody
  DM, Nobody,
  Totals,      \* initiative totals that may be rolled or typed in (bound)
  Fates,       \* what may become of each token (bound)
  MaxOrder,    \* nobody joins a fight of this size (bound)
  MaxRound,    \* no turn is ended after this round (bound)
  Reqs,        \* handlers waiting for a query at a time (bound)
  NoToken

ASSUME TurnsAssumption ==
  /\ IsFiniteSet(Tokens)
  /\ Linked \subseteq Tokens /\ NPCs \subseteq Tokens /\ Alert \subseteq Tokens
  /\ Bonus \in [Tokens -> Int]
  /\ OwnerOf \in [Tokens -> Players \cup {Nobody}]
  /\ DM \notin Players /\ Nobody \notin Players \cup {DM}
  /\ NoToken \notin Tokens
  /\ Totals \subseteq Int
  /\ Fates \in [Tokens -> SUBSET {"up", "down", "stable", "failed", "dead"}]

VARIABLES
  active,      \* room.combatState is set
  order,       \* combatState.combatants
  turn,        \* combatState.currentTurnIndex + 1
  round,       \* combatState.roundNumber
  scene,       \* the tokens' map is the one loaded into room.tokens
  gone,        \* tokens deleted for good
  vital,       \* what HP, death saves and markers say of each token
  held,        \* tokens with a condition that has saveAtEndOfTurn
  req          \* handlers waiting for a query

fight == <<active, order, turn, round>>
vars == <<active, order, turn, round, scene, gone, vital, held, req>>

\* "down" is 0 HP; "failed" and "stable" are a downed character after three
\* failed saves or with the stable marker; "dead" is the dead marker.
Vitals == {"up", "down", "stable", "failed", "dead"}

Combatants ==
  [tok : Tokens, init : Int, surprised : BOOLEAN, hasAlert : BOOLEAN]

NoReq == [kind |-> "none", by |-> DM, tok |-> NoToken]
Requests ==
  [kind : {"none", "next", "add", "scene"}, by : Players \cup {DM},
   tok : Tokens \cup {NoToken}]

(* The invariant of types. *)
TypeOK ==
  /\ active \in BOOLEAN
  /\ order \in Seq(Combatants)
  /\ turn \in Nat \ {0}
  /\ round \in Nat \ {0}
  /\ scene \in BOOLEAN
  /\ gone \subseteq Tokens
  /\ vital \in [Tokens -> Vitals]
  /\ held \subseteq Linked
  /\ req \in [Reqs -> Requests]

----------------------------------------------------------------------------
(* The order and the pointer.                                              *)

OnMap(t) == scene /\ t \notin gone

Places(s, t) == {i \in DOMAIN s : s[i].tok = t}

\* The token whose turn it is.
Current == IF turn \in DOMAIN order THEN order[turn].tok ELSE NoToken

\* byInitiativeDesc(a, b) < 0
Before(a, b) ==
  a.init > b.init \/ (a.init = b.init /\ Bonus[a.tok] > Bonus[b.tok])

InOrder(s) == \A i, j \in DOMAIN s : i < j => ~Before(s[j], s[i])

\* Array.prototype.sort is stable: what is ahead of an entry is everything
\* that goes before it and the ties to its left.
Ahead(s, j, i) ==
  Before(s[j], s[i]) \/ (j < i /\ ~Before(s[i], s[j]))

Rank(s, i) == Cardinality({j \in DOMAIN s : Ahead(s, j, i)}) + 1

Sorted(s) == [k \in DOMAIN s |-> s[CHOOSE i \in DOMAIN s : Rank(s, i) = k]]

\* Mutant: the pointer stays where it is.
IndexKept(s, t) == turn

\* Mutant: findIndex's -1 is taken for a position.
AnchoredUnchecked(s, t) ==
  IF Places(s, t) = {} THEN 0 ELSE Min(Places(s, t))

\* The pointer that keeps the turn with token t in the new order s.
Anchored(s, t) ==
  IF Places(s, t) = {} THEN turn ELSE Min(Places(s, t))

\* sortInitiative applied to the array s
SortInto(s) ==
  LET new == Sorted(s)
  IN  order' = new /\ turn' = Anchored(new, Current)

\* allInitiativesRolled
Rolled(s) == \A i \in DOMAIN s : s[i].init # 0

----------------------------------------------------------------------------
(* nextTurn                                                                *)

\* Mutant: a stable character is woken up for its turn.
OutUnlessDead(t) ==
  vital[t] \in {"dead", "failed"} \/ (vital[t] # "up" /\ t \in NPCs)

\* Dead, or at 0 HP with no death save left to roll.
Out(t) ==
  \/ vital[t] = "dead"
  \/ vital[t] # "up" /\ t \in NPCs
  \/ vital[t] \in {"failed", "stable"}

\* Not skipped when the pointer reaches c in round r.
TakesTurn(c, r) ==
  /\ OnMap(c.tok)
  /\ ~Out(c.tok)
  /\ ~(c.surprised /\ r = 1)

\* Pointer and round after k increments from `at` in round r.
Slot(s, at, k) == ((at + k - 1) % Len(s)) + 1
RoundAt(s, at, r, k) == r + ((at + k - 1) \div Len(s))

Stops(s, at, r) ==
  {k \in 1 .. Len(s) + 1 :
     TakesTurn(s[Slot(s, at, k)], RoundAt(s, at, r, k))}

\* The loop gives up after one increment more than there are combatants.
Increments(s, at, r) ==
  IF Stops(s, at, r) = {} THEN Len(s) + 1 ELSE Min(Stops(s, at, r))

Awake(s) == [i \in DOMAIN s |-> [s[i] EXCEPT !.surprised = FALSE]]

\* nextTurn from pointer `at` in the non-empty order s.  Surprise ends with
\* the round.
Advance(s, at) ==
  LET k == Increments(s, at, round)
  IN  /\ turn' = Slot(s, at, k)
      /\ round' = RoundAt(s, at, round, k)
      /\ order' = IF round' > round THEN Awake(s) ELSE s

----------------------------------------------------------------------------
Init ==
  /\ active = FALSE /\ order = <<>> /\ turn = 1 /\ round = 1
  /\ scene = TRUE /\ gone = {}
  /\ vital = [t \in Tokens |-> "up"]
  /\ held = {}
  /\ req = [q \in Reqs |-> NoReq]

world == <<scene, gone, vital>>

Enlisted(t, x, alert) ==
  [tok |-> t, init |-> x, surprised |-> FALSE, hasAlert |-> alert]

\* combat:start with the tokens of S.
Start(S) ==
  /\ ~active /\ S \subseteq {t \in Tokens : OnMap(t)}
  /\ \E s \in SetToSeqs(S), roll \in [S -> Totals] :
       LET rolled == [i \in DOMAIN s |-> Enlisted(s[i], roll[s[i]], s[i] \in Alert)]
       IN  InOrder(rolled) /\ order' = rolled
  /\ active' = TRUE /\ turn' = 1 /\ round' = 1
  /\ UNCHANGED <<world, held, req>>

\* endCombat, which also drops every condition with a save or a duration.
End ==
  /\ active
  /\ active' = FALSE /\ order' = <<>> /\ turn' = 1 /\ round' = 1
  /\ held' = {}
  /\ UNCHANGED <<world, req>>

\* Mutant: sorted as soon as the edited initiative itself is set.
SetInitiativeUnsorted(t, x) ==
  /\ active /\ Places(order, t) # {}
  /\ order' = [order EXCEPT ![Min(Places(order, t))].init = x]
  /\ UNCHANGED <<active, turn, round, world, held, req>>

\* combat:set-initiative and combat:roll-initiative: sorted again once
\* nobody's initiative is missing.
SetInitiative(t, x) ==
  /\ active /\ Places(order, t) # {}
  /\ LET s == [order EXCEPT ![Min(Places(order, t))].init = x]
     IN  IF Rolled(s) THEN SortInto(s) ELSE order' = s /\ UNCHANGED turn
  /\ UNCHANGED <<active, round, world, held, req>>

\* combat:set-surprise
SetSurprise(t, b) ==
  /\ active /\ Places(order, t) # {}
  /\ LET i == Min(Places(order, t))
     IN  /\ ~(b /\ order[i].hasAlert)
         /\ order' = [order EXCEPT ![i].surprised = b]
  /\ UNCHANGED <<active, turn, round, world, held, req>>

\* Mutant: a surprised opener keeps the first turn.
LockWithOpener ==
  /\ active
  /\ order' = Sorted(order) /\ turn' = 1 /\ UNCHANGED round
  /\ UNCHANGED <<active, world, held, req>>

\* combat:lock-initiative: the turn goes to the top of the order, or past it
\* if the opener is surprised.
Lock ==
  /\ active
  /\ LET s == Sorted(order)
     IN  IF s # <<>> /\ round = 1 /\ s[1].surprised
             THEN Advance(s, 1)
             ELSE order' = s /\ turn' = 1 /\ UNCHANGED round
  /\ UNCHANGED <<active, world, held, req>>

----------------------------------------------------------------------------
\* The DM, or the owner of the character whose turn it is.
MayEndTurn(u) ==
  \/ u = DM
  \/ /\ Current \in Linked /\ OnMap(Current)
     /\ OwnerOf[Current] = u

\* The save of the combatant whose turn ends needs the character row.
Saves(t) == t \in held /\ OnMap(t)

Ask(q, kind, u, t) == req' = [req EXCEPT ![q] = [kind |-> kind, by |-> u, tok |-> t]]
Answered(q) == req' = [req EXCEPT ![q] = NoReq]
Free(q) == req[q].kind = "none"

\* nextTurn throws when nobody is left, before it changes anything.
NextTurn ==
  IF active /\ order # <<>> THEN Advance(order, turn)
                            ELSE UNCHANGED <<order, turn, round>>

\* combat:next-turn without a save to roll.
EndTurn(u) ==
  /\ active /\ MayEndTurn(u) /\ ~Saves(Current) /\ round <= MaxRound
  /\ NextTurn
  /\ UNCHANGED <<active, world, held, req>>

\* combat:next-turn up to the query of the save ...
EndTurnAsk(q, u) ==
  /\ Free(q) /\ active /\ MayEndTurn(u) /\ Saves(Current) /\ round <= MaxRound
  /\ Ask(q, "next", u, Current)
  /\ UNCHANGED <<fight, world, held>>

\* ... and after it.  The save may have ended the condition.
EndTurnAnswer(q) ==
  /\ req[q].kind = "next" /\ Answered(q)
  /\ held' \in {held, held \ ({req[q].tok} \cap {t \in held : OnMap(t)})}
  /\ NextTurn
  /\ UNCHANGED <<active, world>>

\* The combatant is appended, the array sorted, the turn kept.
AddInto(t) ==
  \E x \in Totals : SortInto(Append(order, Enlisted(t, x, FALSE)))

MayAdd(t) == active /\ Len(order) < MaxOrder /\ Places(order, t) = {} /\ OnMap(t)

\* combat:add-combatant of a token without a sheet.
Add(t) ==
  /\ MayAdd(t) /\ t \notin Linked
  /\ AddInto(t)
  /\ UNCHANGED <<active, round, world, held, req>>

\* combat:add-combatant up to the query of the sheet ...
AddAsk(q, t) ==
  /\ Free(q) /\ MayAdd(t) /\ t \in Linked
  /\ Ask(q, "add", DM, t)
  /\ UNCHANGED <<fight, world, held>>

\* ... and after it, with no second look.  If the fight is over the handler
\* fails on the missing combat state.
AddAnswer(q) ==
  /\ req[q].kind = "add" /\ Answered(q)
  /\ Len(order) < MaxOrder
  /\ IF active THEN AddInto(req[q].tok) ELSE UNCHANGED <<order, turn>>
  /\ UNCHANGED <<active, round, world, held>>

----------------------------------------------------------------------------
\* Mutant: the pointer is not clamped to the shorter array.
PointerUnclamped(s, i, t) ==
  IF s = <<>> THEN 1
  ELSE IF Current # t /\ Places(s, Current) # {} THEN Min(Places(s, Current))
  ELSE i

\* The pointer after the entry at i, of token t, was spliced out and s is left.
PointerAfter(s, i, t) ==
  IF s = <<>> THEN 1
  ELSE IF Current # t /\ Places(s, Current) # {} THEN Min(Places(s, Current))
  ELSE Min({i, Len(s)})

\* map:token-remove: the row is deleted, then the fight and the room.
RemoveToken(t) ==
  /\ t \notin gone
  /\ gone' = gone \cup {t}
  /\ held' = held \ {t}
  /\ IF active /\ Places(order, t) # {}
       THEN LET i == Min(Places(order, t))
            IN  /\ order' = RemoveAt(order, i)
                /\ turn' = PointerAfter(RemoveAt(order, i), i, t)
       ELSE UNCHANGED <<order, turn>>
  /\ UNCHANGED <<active, round, scene, vital, req>>

\* map:load and map:activate-for-players are refused while a fight runs ...
SceneAsk(q) ==
  /\ Free(q) /\ ~active
  /\ Ask(q, "scene", DM, NoToken)
  /\ UNCHANGED <<fight, world, held>>

\* ... and replace the tokens of the room after their queries.
SceneAnswer(q) ==
  /\ req[q].kind = "scene" /\ Answered(q)
  /\ scene' = ~scene
  /\ UNCHANGED <<fight, gone, vital, held>>

\* What damage, healing, death saves and markers do to a token.
Fare(t, v) ==
  /\ v \in Fates[t] \ {vital[t]}
  /\ vital' = [vital EXCEPT ![t] = v]
  /\ UNCHANGED <<fight, scene, gone, held, req>>

\* A spell leaves a condition with a save at the end of each turn.
Afflict(t) ==
  /\ t \in Linked \ held /\ OnMap(t)
  /\ held' = held \cup {t}
  /\ UNCHANGED <<fight, world, req>>

----------------------------------------------------------------------------
Next ==
  \/ \E S \in SUBSET Tokens : Start(S)
  \/ End
  \/ Lock
  \/ \E t \in Tokens :
       \/ \E x \in Totals : SetInitiative(t, x)
       \/ \E b \in BOOLEAN : SetSurprise(t, b)
       \/ Add(t)
       \/ RemoveToken(t)
       \/ \E v \in Vitals : Fare(t, v)
       \/ Afflict(t)
  \/ \E u \in Players \cup {DM} : EndTurn(u)
  \/ \E q \in Reqs :
       \/ \E u \in Players \cup {DM} : EndTurnAsk(q, u)
       \/ EndTurnAnswer(q)
       \/ \E t \in Tokens : AddAsk(q, t)
       \/ AddAnswer(q)
       \/ SceneAsk(q) \/ SceneAnswer(q)

Spec == Init /\ [][Next]_vars

----------------------------------------------------------------------------
(* Correctness.                                                            *)

(* In a fight with combatants left the pointer is on one of them, however  *)
(* the array grew, shrank and moved under it.                              *)
PointerInRange ==
  active => IF order = <<>> THEN turn = 1 ELSE turn \in DOMAIN order

(* An array in initiative order stays in order through every step, unless  *)
(* the step leaves somebody without an initiative; so two views of one     *)
(* fight cannot disagree on the order.                                     *)
OrderIsKept ==
  [][InOrder(order) => InOrder(order)' \/ ~Rolled(order)']_vars

(* A step of nextTurn in the fight as it is. *)
TurnPasses ==
  /\ active /\ order # <<>>
  /\ <<turn, round>>' # <<turn, round>> /\ UNCHANGED <<active, world>>
  /\ \/ \E u \in Players \cup {DM} : EndTurn(u)
     \/ \E q \in Reqs : EndTurnAnswer(q)

\* On the board, and on their feet or with a death save left to roll.
FitAhead(i) ==
  LET t == order[i].tok
  IN  OnMap(t) /\ (vital[t] = "up" \/ (vital[t] = "down" /\ t \notin NPCs))
FitNow(i) == FitAhead(i) /\ ~(round = 1 /\ order[i].surprised)

(* In a running fight the turn changes hands only when it is ended, when    *)
(* the order is locked, or when the token whose turn it is is deleted: an  *)
(* initiative edit, a late joiner and the deletion of another token leave  *)
(* it alone ("must NEVER silently hand the turn to whoever lands at the    *)
(* old index", sortInitiative).                                            *)
TurnSurvivesCorrections ==
  [][(active /\ active' /\ order # <<>> /\ Current' # Current) =>
       Current \in gone' \ gone \/ TurnPasses \/ Lock]_vars

(* Ending a turn passes over nobody who could act: the rest of this round  *)
(* comes first, without the surprised in round one, then the top of the    *)
(* next round, down to the slot after the one that was left.  (Further the *)
(* loop does not look: it gives up after n + 1 increments.)                *)
TurnGoesToNextFit ==
  [][TurnPasses =>
       LET later == {i \in DOMAIN order : i > turn /\ FitNow(i)}
           again == {i \in DOMAIN order : i <= turn + 1 /\ FitAhead(i)}
       IN  IF later # {}      THEN turn' = Min(later) /\ round' = round
           ELSE IF again # {} THEN turn' = Min(again) /\ round' = round + 1
           ELSE round' > round]_vars

(* Nobody who is surprised gets a turn in round one, neither as the opener *)
(* when the order is locked nor when a turn ends.                          *)
SurprisedLoseFirstTurn ==
  [][(order' # <<>> /\ round' = 1 /\ order'[turn'].surprised) =>
       ~TurnPasses /\ ~Lock]_vars
=============================================================================
