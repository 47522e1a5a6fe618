------------------------- MODULE OpportunityAttacks -------------------------
(***************************************************************************)
(* Opportunity attacks (services/OpportunityAttackService.ts).  A move out *)
(* of reach registers an opportunity under a new id and prompts the        *)
(* attacker's owner and the DM.  Executing it claims the record and        *)
(* reserves the attacker's reaction before the first query.                *)
(*                                                                         *)
(* The reaction is a field of an action economy.  Each turn gives its      *)
(* combatant a new economy, so a request may still hold the old one.  What *)
(* becomes of the damage (CombatHp) changes nothing here: an attack whose  *)
(* damage is refused has used up its opportunity and its reaction.         *)
(***************************************************************************)
EXTENDS Naturals, FiniteSets

CONSTANTS
  Requests,     \* oa-execute messages being handled (bound)
  Attackers,    \* tokens that threaten the movers
  Movers,       \* tokens that provoke
  MaxPrompts,   \* opportunities of a pair (bound)
  MaxEconomies  \* economies of an attacker (bound)

ASSUME OaAssumption ==
  /\ IsFiniteSet(Requests) /\ IsFiniteSet(Attackers) /\ IsFiniteSet(Movers)
  /\ {MaxPrompts, MaxEconomies} \subseteq Nat

VARIABLES
  fight,        \* whether a fight is active, and its start has been answered
  pending,      \* pendingOpportunities: the id registered for a pair, or 0
  expired,      \* pairs whose registered opportunity is older than 90 seconds
  prompts,      \* opportunities of a pair so far: the ids are 1 .. prompts
  economy,      \* the attacker's economy in actionEconomies, or 0
  economies,    \* economies of an attacker so far
  spent,        \* economies whose reaction is true
  swing,        \* the opportunity and economy of a request that awaits the weapon
  dodges,       \* economies whose Uncanny Dodge awaits its damage
  attacks,      \* attacks made on an opportunity
  over,         \* opportunities declined, replaced or expired
  reactions     \* reactions an economy has paid for

vars == <<fight, pending, expired, prompts, economy, economies, spent, swing,
          dodges, attacks, over, reactions>>

Pairs == Attackers \X Movers
Opportunities == Pairs \X (1 .. MaxPrompts)
Economies == Attackers \X (1 .. MaxEconomies)
NoSwing == <<>>

(* The invariant of types. *)
TypeOK ==
  /\ fight \in {"none", "starting", "active"}
  /\ pending \in [Pairs -> 0 .. MaxPrompts] /\ prompts \in [Pairs -> 0 .. MaxPrompts]
  /\ \A p \in Pairs : pending[p] <= prompts[p]
  /\ expired \subseteq {p \in Pairs : pending[p] > 0}
  /\ economy \in [Attackers -> 0 .. MaxEconomies] /\ economies \in [Attackers -> 0 .. MaxEconomies]
  /\ \A a \in Attackers : economy[a] <= economies[a]
  /\ spent \subseteq Economies
  /\ swing \in [Requests -> {NoSwing} \cup [on : Opportunities, with : Economies]]
  /\ attacks \in [Opportunities -> 0 .. 2] /\ over \subseteq Opportunities
  /\ dodges \subseteq Economies
  /\ reactions \in [Economies -> 0 .. 2]

Init ==
  /\ fight = "none"
  /\ pending = [p \in Pairs |-> 0] /\ prompts = pending /\ expired = {}
  /\ economy = [a \in Attackers |-> 0] /\ economies = economy
  /\ spent = {} /\ dodges = {} /\ swing = [r \in Requests |-> NoSwing]
  /\ attacks = [x \in Opportunities |-> 0] /\ over = {}
  /\ reactions = [e \in Economies |-> 0]

Free(r) == swing[r] = NoSwing

ReactionSpent(a) == economy[a] > 0 /\ <<a, economy[a]>> \in spent

\* Forgets the registered opportunity of a pair.
Delete(p) ==
  /\ pending' = [pending EXCEPT ![p] = 0]
  /\ expired' = expired \ {p}

----------------------------------------------------------------------------
(* Fights, turns, moves and other reactions.                               *)

\* A fight is active while its start still awaits the database, and the end
\* of either clears the economies.
StartCombat ==
  /\ fight = "none" /\ fight' = "starting"
  /\ UNCHANGED <<pending, expired, prompts, economy, economies, spent, swing,
                 dodges, attacks, over, reactions>>

ClearEconomies(next) ==
  /\ fight' = next
  /\ economy' = [a \in Attackers |-> 0]
  /\ UNCHANGED <<pending, expired, prompts, economies, spent, swing, dodges, attacks, over, reactions>>

CombatStarted == fight = "starting" /\ ClearEconomies("active")
EndCombat == fight # "none" /\ ClearEconomies("none")

\* nextTurn gives the combatant whose turn begins a new economy; so does the
\* first use of an economy that is not there.
NewEconomy(a) ==
  /\ fight # "none" /\ economies[a] < MaxEconomies
  /\ economies' = [economies EXCEPT ![a] = @ + 1]
  /\ economy' = [economy EXCEPT ![a] = economies'[a]]
  /\ UNCHANGED <<fight, pending, expired, prompts, spent, swing, dodges, attacks, over, reactions>>

\* A move leaves a's reach: the newest opportunity of a pair is registered.
Provoke(p) ==
  /\ fight # "none" /\ prompts[p] < MaxPrompts /\ ~ReactionSpent(p[1])
  /\ prompts' = [prompts EXCEPT ![p] = @ + 1]
  /\ pending' = [pending EXCEPT ![p] = prompts'[p]]
  /\ expired' = expired \ {p}
  /\ over' = over \cup {<<p, k>> : k \in {pending[p]} \ {0}}
  /\ UNCHANGED <<fight, economy, economies, spent, swing, dodges, attacks, reactions>>

\* 90 seconds go by.
Expire(p) ==
  /\ pending[p] > 0 /\ p \notin expired
  /\ expired' = expired \cup {p}
  /\ over' = over \cup {<<p, pending[p]>>}
  /\ UNCHANGED <<fight, pending, prompts, economy, economies, spent, swing, dodges, attacks, reactions>>

\* The reaction of the attacker's economy is marked.
Mark(a) == spent' = spent \cup {<<a, economy[a]>>}
CanReact(a) == economy[a] > 0 /\ ~ReactionSpent(a)

\* A protect or another reaction of the chat commands, none of which awaits
\* anything between its check and its mark.  A spent one is refused; a
\* combatant without an economy reacts, and nothing is marked.
OtherReaction(a) ==
  /\ \/ ~CanReact(a) /\ UNCHANGED <<spent, reactions>>
     \/ /\ CanReact(a) /\ Mark(a)
        /\ reactions' = [reactions EXCEPT ![<<a, economy[a]>>] = @ + 1]
  /\ UNCHANGED <<fight, pending, expired, prompts, economy, economies, swing,
                 dodges, attacks, over>>

\* !uncanny marks the reaction and awaits the damage it halves.
DodgeAsk(a) ==
  /\ fight # "none" /\ CanReact(a) /\ Mark(a)
  /\ dodges' = dodges \cup {<<a, economy[a]>>}
  /\ UNCHANGED <<fight, pending, expired, prompts, economy, economies, swing,
                 attacks, over, reactions>>

\* The damage is applied; or it is refused, and the economy the request has
\* held all along gets its reaction back.
Dodge(e) ==
  /\ e \in dodges /\ dodges' = dodges \ {e}
  /\ \/ reactions' = [reactions EXCEPT ![e] = @ + 1] /\ UNCHANGED spent
     \/ spent' = spent \ {e} /\ UNCHANGED reactions
  /\ UNCHANGED <<fight, pending, expired, prompts, economy, economies, swing,
                 attacks, over>>

\* combat:oa-decline, of the registered id only.
Decline(p, k) ==
  /\ pending[p] = k
  /\ Delete(p)
  /\ over' = over \cup {<<p, k>>}
  /\ UNCHANGED <<fight, prompts, economy, economies, spent, swing, dodges, attacks, reactions>>

----------------------------------------------------------------------------
(* combat:oa-execute.                                                      *)

\* Mutant: the record is only looked up, and stays until something replaces it.
ClaimKeepsRecord(p, k) == pending[p] = k /\ UNCHANGED <<pending, expired>>

\* claimPendingOpportunity consumes the record, expired or not.
Claim(p, k) == pending[p] = k /\ Delete(p)

\* Mutant: an attack takes a new economy though there is one.
ReservedAnew(a) == economy[a] + 1

\* The economy whose reaction an attack takes: a new one if there is none.
Reserved(a) == IF economy[a] = 0 THEN economies[a] + 1 ELSE economy[a]

\* combat:use-action marks the reaction of whose turn it is by hand, spent or
\* not, for a reaction made elsewhere; there is an economy afterwards.
UseReaction(a) ==
  /\ fight # "none" /\ Reserved(a) <= MaxEconomies
  /\ economy' = [economy EXCEPT ![a] = Reserved(a)]
  /\ economies' = [economies EXCEPT ![a] = IF economy[a] = 0 THEN @ + 1 ELSE @]
  /\ spent' = spent \cup {<<a, Reserved(a)>>}
  /\ UNCHANGED <<fight, pending, expired, prompts, swing, dodges, attacks, over, reactions>>

\* Mutant: the reaction is looked at, and reserved only when the attack is made.
ReserveLater(r, p, k) ==
  LET a == p[1] IN
  /\ ~ReactionSpent(a) /\ Reserved(a) <= MaxEconomies
  /\ economy' = [economy EXCEPT ![a] = Reserved(a)]
  /\ economies' = [economies EXCEPT ![a] = IF economy[a] = 0 THEN @ + 1 ELSE @]
  /\ swing' = [swing EXCEPT ![r] = [on |-> <<p, k>>, with |-> <<a, Reserved(a)>>]]
  /\ UNCHANGED spent

\* Reserves the reaction before the query for the weapon.
Reserve(r, p, k) ==
  LET a == p[1] IN
  /\ ~ReactionSpent(a) /\ Reserved(a) <= MaxEconomies
  /\ economy' = [economy EXCEPT ![a] = Reserved(a)]
  /\ economies' = [economies EXCEPT ![a] = IF economy[a] = 0 THEN @ + 1 ELSE @]
  /\ spent' = spent \cup {<<a, Reserved(a)>>}
  /\ swing' = [swing EXCEPT ![r] = [on |-> <<p, k>>, with |-> <<a, Reserved(a)>>]]

\* An id that is not the registered one is refused; an expired claim and a
\* spent reaction end it, the record consumed.
Execute(r, p, k) ==
  /\ Free(r) /\ fight # "none"
  /\ \/ Claim(p, k) /\ p \notin expired /\ Reserve(r, p, k)
     \/ /\ Claim(p, k) /\ (p \in expired \/ ReactionSpent(p[1]))
        /\ UNCHANGED <<economy, economies, spent, swing>>
     \/ pending[p] # k /\ UNCHANGED <<pending, expired, economy, economies, spent, swing>>
  /\ UNCHANGED <<fight, prompts, dodges, attacks, over, reactions>>

\* Mutant: the reaction of the present economy is handed back.
HandBackCurrent(r) ==
  /\ swing[r] # NoSwing
  /\ LET a == swing[r].with[1] IN spent' = spent \ {<<a, economy[a]>>}
  /\ swing' = [swing EXCEPT ![r] = NoSwing]
  /\ UNCHANGED <<fight, pending, expired, prompts, economy, economies, dodges, attacks, over, reactions>>

\* There is no weapon to attack with: the reaction is handed back.
HandBack(r) ==
  /\ swing[r] # NoSwing
  /\ spent' = spent \ {swing[r].with}
  /\ swing' = [swing EXCEPT ![r] = NoSwing]
  /\ UNCHANGED <<fight, pending, expired, prompts, economy, economies, dodges, attacks, over, reactions>>

\* The attack is rolled, and hits or misses.
Attack(r) ==
  /\ swing[r] # NoSwing
  /\ swing' = [swing EXCEPT ![r] = NoSwing]
  /\ attacks' = [attacks EXCEPT ![swing[r].on] = @ + 1]
  /\ reactions' = [reactions EXCEPT ![swing[r].with] = @ + 1]
  /\ UNCHANGED <<fight, pending, expired, prompts, economy, economies, spent, dodges, over>>

\* The query for the weapon fails, and the reaction stays spent.
WeaponFails(r) ==
  /\ swing[r] # NoSwing
  /\ swing' = [swing EXCEPT ![r] = NoSwing]
  /\ UNCHANGED <<fight, pending, expired, prompts, economy, economies, spent, dodges, attacks, over, reactions>>

Next ==
  \/ StartCombat \/ CombatStarted \/ EndCombat
  \/ \E a \in Attackers : NewEconomy(a) \/ OtherReaction(a) \/ DodgeAsk(a) \/ UseReaction(a)
  \/ \E e \in Economies : Dodge(e)
  \/ \E p \in Pairs :
       \/ Provoke(p) \/ Expire(p)
       \/ \E k \in 1 .. prompts[p] : Decline(p, k) \/ \E r \in Requests : Execute(r, p, k)
  \/ \E r \in Requests : HandBack(r) \/ Attack(r) \/ WeaponFails(r)

Spec == Init /\ [][Next]_vars

----------------------------------------------------------------------------
(* Properties.                                                             *)

(* An opportunity is attacked on at most once, however often its prompt is *)
(* answered, and never after it was declined, expired or was replaced by a *)
(* later one while nobody had claimed it.                                  *)
OneAttackEach ==
  \A x \in Opportunities : attacks[x] <= 1 /\ (attacks[x] = 1 => x \notin over)

(* An economy, of which a combatant gets one per turn of its own, pays for *)
(* at most one of the attacks, checked chat commands and Uncanny Dodges    *)
(* that compete for it, some of which give it back.  It is not a bound on  *)
(* all reactions of a turn: a chat command without an economy marks none,  *)
(* Shield and Counterspell are passed on to the browsers unchecked and     *)
(* unmarked (reactionEvents.ts), and what a mark by hand stands for is not *)
(* known to the server.                                                    *)
OneReactionEach == \A e \in Economies : reactions[e] <= 1

(* The service implements the abstract reactions: however executes, chat   *)
(* commands, marks by hand, declines, expiry, new prompts, turns and ends  *)
(* of fights meet, whoever claims an opportunity, or dodges, stakes a      *)
(* reaction nobody else has, and gives back or uses exactly that one.      *)
Claimed == {swing[r] : r \in {q \in Requests : swing[q] # NoSwing}}

Promises == INSTANCE Reactions WITH
  offered <- {x \in Opportunities : x[2] <= prompts[x[1]]},
  open <- {x \in Opportunities : x[2] = pending[x[1]] /\ x[1] \notin expired},
  committed <- Claimed,
  struck <- {x \in Opportunities : attacks[x] > 0},
  braced <- dodges,
  used <- spent \ ({c.with : c \in Claimed} \cup dodges)

ImplementsReactions == Promises!Spec
=============================================================================
