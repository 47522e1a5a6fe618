# Atlas Bound: TLA+ models of the session server

Atlas Bound is a virtual tabletop for D&D: a React client per player, one
Node.js process with Socket.IO and a REST API, and PostgreSQL. The server keeps
a *room* per live session in memory (`server/src/utils/roomState.ts`) and treats
the database as its backing store. Node runs one handler at a time, but nearly
every handler awaits queries, and between two awaits any other handler may run
on the same room. The pool hands queries to several connections, so queries that
are in flight together are carried out in any order. That is where this code is
hard to test, and what the models here are about.

File names below are relative to `server/src/` unless they start with `client/`
or `shared/`.

## Contents

| module | what it is |
| --- | --- |
| `Presence` | abstract: a room is one set of tabs |
| `RoomPresence` | who is in a room: joins, heartbeats, closes, evictions, deletion |
| `RoomPresenceProofs` | its invariants and the refinement proved for all constants |
| `CombatTurns` | the initiative order and the turn pointer of a fight |
| `CombatTurnsProofs` | its invariants and four action properties proved |
| `CombatLifecycle` | ready check, start, end, the persisted row, restarts |
| `CombatLifecycleProofs` | its invariants proved |
| `CombatHp` | hit points of a fighting character, in memory and in its row |
| `CombatHpProofs` | memory and row agree, proved for any number of requests |
| `Reactions` | abstract: opportunities that are taken once, reactions that are staked |
| `OpportunityAttacks` | pending opportunities and the reactions they take |
| `OpportunityAttacksProofs` | one attack per opportunity, no economy pays twice, and the refinement, proved |
| `EventSync` | one browser keeping up with its room: frames, replay, snapshots |
| `EventSyncProofs` | replays without a hole, a board never wiped, proved |
| `Loot` | bags and inventories: transactions, locks and the rewrites without |
| `LootProofs` | no deadlock, items conserved, bags on the map while full and not after, proved |
| `Chronicle` | recaps as a job queue with two backends |
| `ChronicleProofs` | no stuck or overwritten recap, and what a cutoff may pass over, proved |
| `MC*` | constants, symmetry sets for TLC |

## Inventory

Sizes are lines of code without tests. "Hard" names the behaviours a test hardly
reaches.

**Room presence** (`utils/roomState.ts`, `socket/sessionEvents.ts`,
`routes/sessions.ts`; 2900). State: `rooms`, per room `players` (user ->
primary socket, role) and `userSockets` (user -> all sockets), `socketIndex`
(socket -> session and user), Socket.IO's own room, the rows `sessions` and
`session_players`. Operations: `session:join`, `session:heartbeat`,
`session:leave`, `session:kick`, disconnect; REST join, leave, ban, promote,
demote, delete. Hard: several tabs per user, a join in flight across a close or
an eviction, rooms dropped while handlers hold them. Correct when the maps agree,
a user stays while a tab is open, an evicted user is gone, and a connected client
is tracked in the end.

**Combat turns** (`services/CombatService.ts` 1051-1490 and 2392-2459,
`socket/combat/initiativeEvents.ts`, `lifecycleEvents.ts`). State: the array
`combatants`, `currentTurnIndex`, `roundNumber`, per combatant initiative and
surprise; token conditions with end-of-turn saves. Operations: start, add,
set/roll initiative, surprise, lock, next turn, remove token, end. Hard: the turn
is an index into an array that is sorted, grown and spliced; skip rules at the
end of the array; handlers that await between check and change. Correct when the
turn never changes hands by accident and goes to the next combatant who can act.

**Combat lifecycle** (`CombatService.ts` 412-1049 and 1165-1201,
`startCombatHelper.ts`, `lifecycleEvents.ts`, the end of `session:join`). State:
`combatState`, `combatStarting`, `readyCheck` with its timer, the row
`combat_state`, `sessions.combat_active`. Hard: three ways to start one fight, a
timer that outlives its room, awaited and unawaited writes racing a teardown,
rehydration after a restart. Correct when one start runs at a time, an ended
fight stays ended and a running one survives a restart.

**Combat HP** (`CombatService.ts` 1580-2251, `socket/combat/hpEvents.ts`,
`services/RestService.ts`, `CharacterUpdateService.ts`). State: HP, temporary HP
and death saves in memory and in the character row with its `version`.
Operations: damage, heal, stabilise, death save, sheet edits, rests and hit dice
that fan out to fights; a few chat commands that write one of the two places.
Hard: memory is changed before a version-guarded write
and restored after a conflict, while others change the row first. Correct when
memory and row agree once nothing is in flight.

**Event log and resync** (`utils/eventBroadcast.ts`, `utils/stateEtag.ts`, GET
`/state` and `/events` of `routes/sessions.ts`,
`client/src/socket/eventCursor.ts`, `stateSnapshot.ts`). State: `nextEventId`
and a ring of 500 events per room; the client's cursor, ETag and stores. Hard:
live events, replays and snapshots in flight together, reconnects, a counter that
starts again, rooms that are only half loaded. Correct when no gap goes unnoticed,
no answer wipes what is shown, and the client converges.

**Opportunity attacks** (`services/OpportunityAttackService.ts`,
`socket/combat/reactionEvents.ts`). State: `pendingOpportunities`, reactions in
`actionEconomies`, which chat commands and `combat:use-action` mark too. Hard:
executes, declines, expiry and a newer prompt for one pair race, and the weapon
is looked up between reserving the reaction and attacking. Correct when one
opportunity is executed at most once and an economy pays for one of the
reactions that look at it.

**Conditions and concentration** (`services/ConditionService.ts`,
`conditionEvents.ts`, `damageEffects.ts`). State: `conditionMeta`, token
conditions, `concentrating_on`. Correct when a concentration that drops takes its
conditions with it, and no condition outlives its duration.

**Character rows** (`routes/characters.ts`, `socket/characterEvents.ts`,
`services/CharacterUpdateService.ts`, `RestService.ts`). State: `characters` with
a version raised by a trigger. Correct when no committed edit is lost.

**Loot** (`routes/loot.ts`, `chatCommands/attuneHandlers.ts`). State:
`loot_entries`, `characters.inventory`, bags and their tokens. Transactions with
row locks, a guarded and an unguarded rewrite of a whole inventory. Correct when
items are neither lost nor doubled, no locks deadlock, a bag is on the map while
it holds something, and one that a take emptied goes.

**Chronicle** (`routes/chronicle.ts`, `routes/internalChronicle.ts`,
`dgx-worker/worker.mjs`). State: `chronicle_entries`, the worker's job. A job
queue between the server and an external worker that may crash or answer late.
Correct when no recap is stuck without a cause, nothing published is overwritten,
and chat is passed over in no way but the two that follow from the cutoff being
the time of publication.

**Scenes and the player ribbon** (`socket/sceneEvents.ts`, `mapEvents.ts`,
`routes/maps.ts`). State: `playerMapId`, `dmViewingMap`, `room.tokens`. Correct
when the tokens in memory are those of the ribbon's map.

**Fog, walls, zones, drawings** (`socket/fogEvents.ts` and its neighbours). One
JSON column per map, serialised by a promise chain or a row lock. Correct when no
stroke is lost.

**The rest**: chat and 27k lines of chat commands (rules text and dice over the
operations above), pure 5e rules and visibility filters, authentication, CRUD
routes (friends, tidings, notes, custom content, compendium, encounters,
feedback, uploads), imports (D&D Beyond, Open5e), Discord, the client's
components, the schema. They keep little shared protocol state of their own
(the chat commands mark reactions and some write hit points, which is in
`OpportunityAttacks` and `CombatHp`); `PROJECT.json` lists each with its reason.

How they interact: REST routes and socket handlers change the same room object;
joins hydrate a client from rows and from the room and may reinstall a persisted
fight; damage and token deletion reach into the order of the fight; broadcasts
that matter are logged with an id that clients use as a cursor.

## How code becomes actions

An action is the code of one handler between two awaits, with everything it calls
there. A handler with an await in the middle is split in an `...Ask` and an
`...Answer` (or in the named stages of `req` and `handler`), and whatever it
remembers across the await is part of the state. The early returns are the
guards; a handler that returns without doing anything has no step. One query is
atomic. Where the order in which the database carries out two queries matters
(`CombatLifecycle`), issue and execution are separate. Data that no property
tells apart (names, maps, characters' numbers) is left out.

### RoomPresence

| variable | code |
| --- | --- |
| `conn` | the transport of a socket |
| `joining` | `session:join` between its query and `addPlayerToRoom`, with the role it read |
| `obj`, `live` | room objects, and which one `rooms.get(sessionId)` returns |
| `index` | `socketIndex` |
| `ioRoom` | sockets that did `socket.join(sessionId)` |
| `sessionRow`, `member` | rows of `sessions` and `session_players` |
| `req` | a kick or a REST request with the stage it has reached |

`JoinRead`/`JoinEnter` are the two halves of `session:join`, `Heartbeat`,
`Leave`, `Disconnect` the other socket handlers. `KickStart` ... `KickEvict` are
`session:kick`; `RestStart`, `ReqCheck`, then `DeleteMembership`,
`InsertMembership`, `UpdateRole`, `SyncRole`, `RouteEvict`, `Detach`,
`DeleteRoom`, `DeleteRow` are the REST routes. Room objects have identities
because a kick keeps the one it found while the room may be dropped and made
again. Sessions share no state, so one is enough.

`ImplementsPresence` refines `Presence`: with `tracked <- index`, the four maps
kept by hand behave as one set of tabs from which presence and the room's
existence follow.

### CombatTurns

`order`, `turn` (1-based), `round` are the fight; `scene` and `gone` say which
tokens are still in `room.tokens`; `vital` is what the skip rules of `nextTurn`
look at (up, down, stable, failed, dead); `held` are tokens with an end-of-turn
save; `req` are handlers that wait for a query. `Sorted` is the stable sort of
JavaScript as a permutation, `Anchored` the re-anchoring by token id, `Advance`
the loop of `nextTurn` in closed form: the smallest number of increments, at most
n + 1, that lands on someone who takes their turn. `PointerAfter` is the splice
of `cleanupRemovedTokenFromCombat`. What else happens to a token's HP and markers
is `Fare`, unconstrained: `CombatHp` says what really can.

### CombatLifecycle

Rooms are numbered (`room[r]`, `live`): a dropped room lives on in the timers
(`armed`) and handlers (`handler`) that hold it. `row` and `flag` are
`combat_state` and `sessions.combat_active`; `writes` are the `UPDATE
combat_state` nobody awaits, carried out in any order. Fights are numbered, which
the code does not do: the number is what the properties need to tell an old fight
from a new one. `Restart` keeps only the database.

### CombatHp

`mem` is the combatant, `row` the row of `characters`, `stable` the condition of
the token. `req` is a request with what it awaits: `read` (the row and its
version), `strike` (it changes memory next), `write` (its UPDATE), `told` (the
answer). Damage and healing go `Read`, `Strike`, `Commit` or `Refuse`, then
`Succeed` or `Fail`, which restores `was`. Death saves go without a strike; sheet
edits, rests and hit dice write the row and copy to memory afterwards. `fresh`
stands for the comparison of versions: it is lost when anybody writes the row.
`mine`, `ok` and `crossed` record history for the properties. `Carry` may lose
the reply of a committed UPDATE. `ChatCommand` is any of the commands that write
hit points of the row without looking at its version (`!endurance`,
`!stonesendurance`) or of the combatant without the row; the trigger raises the
version for them too, so a guarded write in flight notices.

### OpportunityAttacks

`pending` is the map of the registry (attacker and mover to the id of the newest
prompt), `expired` the 90 seconds, `economy` the map `actionEconomies` by a number
per attacker, so that a request that holds an economy of an earlier turn keeps
it. `Execute` is everything up to the query for the weapon: `Claim` deletes the
record, `Reserve` spends the reaction. `Attack`, `HandBack` and `WeaponFails` are
the three ways on. `attacks`, `over` and `reactions` count for the properties.
`OtherReaction` is a chat command that checks and marks the economy, and reacts
unmarked if there is none. `DodgeAsk` and `Dodge` are `!uncanny`, which marks,
awaits its damage (`dodges`), and takes the mark back if that fails.
`UseReaction` is the mark by hand of `combat:use-action`.

An execute that consumes a record in vain meets an expired record or a spent
reaction. The other refusals of the service (no fight, a token that is gone, no
hostility) cannot happen: the socket handler looks at the same facts just before
the claim and leaves the record alone (`reactionEvents.ts:52-77`).

`ImplementsReactions` refines `Reactions`: what is registered and not too old is
`open`, what awaits its weapon is `committed`, and `used` are the reactions that
are spent and not staked by somebody on the way, be it a request or an Uncanny
Dodge (`braced`). An expired record, an economy
that a fight's end cleared and an execute that came too late are invisible there.

### EventSync

`truth` is what is in the table (the board) and in the room (the fight), as the
number of their changes; `said` are the events of the room, of which the log
keeps the last `MaxLog`. `wire` is the socket, in order. `join`, `pull` and `ask`
are a `session:join`, a GET state and a GET events in flight, each read at its
first query and stamped or applied later; `shown`, `cursor` and `etag` are the
browser. `Broadcast` goes through `broadcastEvent`; `EmitUnlogged` is an emit
that does not, and also stands for the kinds of events that `replayHandlers.ts`
drops. `Minute` is the time bucket of the ETag; an answer without the room brings none,
and the browser keeps the one it has. `old` marks a cursor of a former
room. A room is `bare` after a restart until somebody has loaded its fight.

### Loot

`inventory` and `entry` are the columns and rows, `bags` the characters of race
"loot", `token` those on the map. `req` is a request between two queries with what
it has read; from its stage follow the rows it has locked (`HoldsEntry`,
`HoldsRow`) and the one it waits for (`WaitsFor`). The last write of a transaction
and its COMMIT are one action. `Remains` and `Despawn` run after the response to
a take. `Fail` ends a request at any stage: a failed query or a stop of the
server rolls a transaction back, and after a COMMIT it is only logged
(`loot.ts:508-510`), so an emptied bag nobody else is looking after stays
(`spilled`). `token` is the table: when `Fail` deletes the tokens the room is not
told, and shows the bag until it loads them again. `Enrich` writes without
a guard, `Rewrite` only if the version is the one it read.

### Chronicle

`entry` are the rows in the order of creation, with the span of chat
(`since`, `upto`) their transcript covers; time is the number of messages. `task`
is a request or the background generation of the server, `worker` the external
one. With the backend "vertex" `Insert` and `Retry` start a generation that does
`Mark` and `Save` without looking at the status; the worker's `Result` looks.
`AnswerUnheard` is a post whose answer fails, after which `processOne` posts a
failure. `lost` are rows whose worker or task died, or whose post was refused.
`told`, `waited` and `passed` record for every message that a cutoff can pass over
how it got there: the transcript of a recap held it when that was published, it
was said between the reading of that transcript and the first publication, or
between that publication and a repeated one (`chronicle.ts:591-605` refuses none).

## The checks

| run | shows |
| --- | --- |
| `RoomPresence.cfg` | three tabs of two users, one request in flight: `IndexMatchesRoom`, `PrimaryIsTracked`, `LiveRoomIsOccupied`, `TrackedIsSubscribed`, `UserLeavesWithLastTab`, `ImplementsPresence` hold (1.7 million states) |
| `RoomPresenceLive.cfg` | `ConnectedGetsTracked` under fairness |
| `RoomPresenceEviction.cfg` | finding: a join in flight undoes a kick |
| `CombatTurns.cfg` | three tokens: `PointerInRange`, `TurnSurvivesCorrections`, `OrderIsKept`, `TurnGoesToNextFit`, `SurprisedLoseFirstTurn` hold |
| `CombatLifecycle.cfg` | two fights, two rooms, two handlers: `OneStart`, `CheckIsArmed`, `SurvivesRestart`, `EndedStaysEnded` hold (3.1 million states) |
| `CombatHp.cfg` | two requests and a fault or a chat command: `MatchesUnlessCrossed` holds (3.6 million states) |
| `CombatHpRestore.cfg` | finding: the restore after a conflict undoes what caused it |
| `OpportunityAttacks.cfg` | three executes, two movers, other reactions: `OneAttackEach`, `OneReactionEach`, `ImplementsReactions` hold (92 thousand states) |
| `EventSync.cfg` | one browser, two changes, one fault: `ReplayComplete`, `NothingWiped`, and `Converges` under fairness (550 thousand states) |
| `EventSyncRestart.cfg` | finding: after a restart the browser discards every snapshot |
| `Loot.cfg` | two requests that may fail, two characters, two bags: `NothingLostOrDoubled`, `LootKeepsItsToken`, `EmptiedBagGoes`, `NobodyWaitsInACircle` hold (1.9 million states) |
| `Chronicle.cfg` | two requests, one worker, two recaps: `GeneratingIsHeld`, `LateAnswerIsHarmless`, `NothingSlipsBy`, and `BacklogDrains` under fairness (1.0 million states) |

Every property of a passing run has a mutant in `PROJECT.json`: a change of one
definition, of the kind a slip in the code would be, that breaks it. The mutated
operators stand in the modules before the definitions they replace, marked
`Mutant`.

### Bounds, and why they are enough

*RoomPresence*: two users and three tabs give every relation of two sockets (same
user, different users) and the only case of `removeSocketFromRoom` that is not
symmetric, the primary among several tabs. Two room objects allow a room that is
held and one that is live. With one administrative request at a time every pair
of request and join, close or heartbeat is covered; two requests together are
covered by the proofs. A closed socket never comes back under its id, so three
tabs are also three connections over time.

*CombatTurns*: three tokens, one of them a player's character, are enough for
every relative position of current, edited, deleted and added token; duplicates
(through the race of `AddAsk`) make the order reach `MaxOrder`. Two initiative
totals, one of them the sentinel 0, and different bonuses give ties and all
orders. Two rounds cover the round in which surprise counts and one in which it
does not. One handler waits at a time; the proofs hold for any number. The two
monsters
(`ogre`, `wolf`) are interchangeable, so the run uses symmetry; it checks no liveness.

*CombatLifecycle*: two handlers in flight, two rooms (one restart or one lost
room), two fights (an old one and a new one), two timers, one persisted edit with
two unawaited writes, one failing query.

*CombatHp*: two requests are every pair of operations at every pair of awaits;
two hit points give hit, down, and healed in part or in full, one counted death
save the cap (three in the code). One fault is a failed query or a lost reply at
any of the awaits, or a chat command between any two of them. The violation needs no fault and one hit point.

*OpportunityAttacks*: one attacker has what races (its reaction), two movers give
it two opportunities at once, two prompts per pair a stale one, three economies
the one of before a turn, of after it, and one made by an execute. Three executes
are two for one opportunity and one for another.

*EventSync*: a log of one entry makes the cursor fall out of it, be just inside
it and be at its end; one event before the browser comes makes ids and changes
differ. Two changes are two events, or one logged and one not, about either part.
One fault is a lost socket, a lost answer or a restart anywhere.

*Loot*: one kind of item suffices because stacks of different kinds never meet.
One character has one of it and the other none; what the DM adds (or an edited
quantity, 1 or 2) makes stacks that are begun, grown, decremented and emptied.
Two entries are two bags, or a bag and an addition by the DM.
Two requests give every pair of transactions; a circle of more than two would
need a transaction that waits for an entry while it holds a character, and none
does. Once the enrichment went over a newer inventory (`blind`) the sums are not
compared, and `TwoRopes` follows what it doubles up to two ropes: without it there
are one rope and one addition or edit of the DM, so never more.

*Chronicle*: two recaps are one published before, or after, the other was
forged; two messages fall before, between or after them. Two tasks are a request
and a background generation. Two rare events (retry, edit, crash, restart,
recovery) give a reset by hand followed by a late answer. One worker runs; the
proofs hold for any number of them.

### Fairness

*RoomPresenceLive* needs only what the client and the driver do:
`useSocket.ts` sends a heartbeat every five seconds and joins when the
acknowledgement says so (weak fairness of a join of a socket the server does not
know), and a query that was sent is answered (weak fairness of `JoinEnter`).
Nothing is assumed of people: tabs need not open, close or leave. The bound on
room objects cannot block `JoinEnter`, because at most one object is held by a
request.

*EventSync* assumes that the keep-alive timer of `useSocket.ts` (every five
seconds) goes on pulling state and events and reconnecting, that handlers and
requests end, all but `MaxFaults` of them, that frames of an open socket arrive,
and that time passes (`Minute`). It assumes nothing of changes: the property is
about what the browser shows after the last one. The spacing of pulls by
`triggerSnapshot` needs no fairness of its own, because the timer pulls anyway.

*Chronicle* assumes of each worker that it keeps polling (`loop` in `worker.mjs`
ends only when it is told to) and that a model call ends in a recap or a failure,
which is posted; a post may fail, and a crash or a lost report, of which there
are at most `MaxRare`, leaves the job. It assumes nothing of the server's own
generation or of the DM.

### Provisos

`SurvivesRestart` and `EndedStaysEnded` hold under `clean`: no teardown met
another handler and no INSERT failed. Without it they are false: combat that is
ended while the INSERT of its start is still under way leaves the row behind.
What `clean` still lets meet in any order are joins, starts, timers, edits, unawaited writes, lost rooms and
restarts. `TurnGoesToNextFit` says nothing of slots the loop of `nextTurn` does
not reach: after n + 1 increments it stops wherever it is, possibly on someone
who cannot act, which happens only when nobody can act this round or next.

`MatchesUnlessCrossed` names what the code cannot keep memory and row together
against (`crossed`): a strike on memory that still lacks a committed change, a
restore over a later change, a copy of something outdated, a lost reply, and a
chat command that writes one of the two by itself. All five happen in the run;
what the property says is that nothing else of what is modelled does it.
`LootKeepsItsToken` leaves out bags that got something while they were being
removed (`late`), `EmptiedBagGoes` bags that were emptied by a transfer or by the
DM, where the code removes nothing, and bags whose last look failed (`spilled`).
`NothingLostOrDoubled` ends with the first enrichment over a newer inventory
(`blind`). `OneReactionEach` is about economies: reactions that leave no mark do
not count. `GeneratingIsHeld` leaves out rows
whose holder died or whose posts were refused (`lost`, by `LoseJob`, which is wide:
it may happen to any job at any moment): the worker's README tells the operator to
reset them by hand. `LateAnswerIsHarmless` does not cover a row that was reset, is
being generated again and gets the answer of the old worker. `NothingSlipsBy` names
its two gaps, `waited` and `passed`. `OrderIsKept` says nothing of an order with a
total of 0 in it. Where one of these provisos takes in just what a hazard of
`PROJECT.json` is about, the hazard has a note and lists no property. `ReplayComplete` and `Converges` leave out cursors of a former room,
which `EventSyncRestart.cfg` is about.

### What the code does otherwise

Besides the three findings, modelling met behaviour that no property can state as
correct. The models contain it, and the properties above are checked with it
happening.

- A join that is answered after its transport closed leaves a player in the room
  with no open tab (`RoomPresence.JoinEnter`).
- A player's End Turn that waits for a save ends whatever turn there is by then
  (`CombatTurns.EndTurnAnswer`).
- Two requests to add one token to a fight both pass the duplicate check
  (`CombatTurns.AddAnswer`).
- A fight that starts while a scene change awaits its queries loses its tokens
  (`CombatTurns.SceneAnswer`).
- A fight that is ended before the INSERT of its start was carried out comes back
  with the next join (`CombatLifecycle.Insert`, `End`).
- Enriching an inventory overwrites what a take, drop or attunement changed after
  the read (`Loot.Enrich`).
- An emptied bag stays on the map for good when the look into it after COMMIT
  fails, because the failure is only logged (`Loot.Fail`).
- Chat said after the transcript of a recap was read and before the recap was
  published is in no recap, and neither is chat said between its publication and a
  second one (`Chronicle.Publish`). The next transcript begins at the time of
  publication. What only a deleted recap told is told again just if no later recap
  was published.
- A chat command reacts without a mark when its combatant has no economy, and
  Shield and Counterspell are relayed without looking at one
  (`reactionEvents.ts:319-418`), so a combatant can react twice in a turn
  (`OpportunityAttacks.OtherReaction`; the spells are not modelled).
- `!endurance` (`miscClassHandlers.ts:150`) and `!stonesendurance`
  (`racesTier19Handler.ts:171`) UPDATE `hit_points` without a guard and do not
  copy the result to memory (`CombatHp.ChatCommand`).

## What is proved

TLAPS checks every safety invariant and every action property of the passing
runs, and the two refinements, for all values of the constants that satisfy the
assumptions of the modules (`PresenceAssumption`, `TurnsAssumption`,
`LifecycleAssumption`, `HpAssumption`, `OaAssumption`, `EventSyncAssumption`,
`LootAssumption`, `ChronicleAssumption`): any number of users, tabs, room
objects, handlers, requests, fights, bags, workers and recaps, any finite set of
tokens, any bonuses, totals, hit points and inventories, any length of the log.
Each module of proofs states its inductive invariant at the top or before the
theorem that needs it; TLC has checked the invariants on the runs' constants.

| module | theorem | property |
| --- | --- | --- |
| `RoomPresenceProofs` | `TypeCorrect`, `IndexConsistent`, `PrimaryTracked`, `LiveOccupied`, `Subscribed` | the five invariants of `RoomPresence.cfg` |
| | `LeavesWithLastTab` | `UserLeavesWithLastTab` |
| | `RoomImplementsPresence` | `ImplementsPresence` |
| `CombatTurnsProofs` | `TypeCorrect`, `PointerTracked` | `TypeOK`, `PointerInRange` |
| | `CorrectionsKeepTurn`, `SurpriseCostsTurn` | `TurnSurvivesCorrections`, `SurprisedLoseFirstTurn` |
| | `OrderKept`, `NobodyIsPassedOver` | `OrderIsKept`, `TurnGoesToNextFit` |
| `CombatLifecycleProofs` | `TypeCorrect`, `OneStartAtATime`, `CheckHasItsTimer` | `TypeOK`, `OneStart`, `CheckIsArmed` |
| | `RunningFightHasItsRow`, `EndedFightStaysEnded` | `SurvivesRestart`, `EndedStaysEnded` |
| `CombatHpProofs` | `TypeCorrect`, `MemoryAndRowMatch` | `TypeOK`, `MatchesUnlessCrossed` |
| `OpportunityAttacksProofs` | `TypeCorrect`, `AttackedOnce`, `ReactsOnce` | `TypeOK`, `OneAttackEach`, `OneReactionEach` |
| | `ServiceKeepsPromises` | `ImplementsReactions` |
| `EventSyncProofs` | `ReplayedOneByOne` | what `Replayed` means |
| | `TypeCorrect`, `ReplayLeavesNoHole`, `BoardNeverWiped` | `TypeOK`, `ReplayComplete`, `NothingWiped` |
| `LootProofs` | `TypeCorrect`, `NoDeadlock` | `TypeOK`, `NobodyWaitsInACircle` |
| | `ItemsAreConserved` | `NothingLostOrDoubled` |
| | `FullBagsAreOnTheMap`, `EmptyBagsAreGone` | `LootKeepsItsToken`, `EmptiedBagGoes` |
| `ChronicleProofs` | `TypeCorrect`, `NobodyLeavesARow`, `NothingForgotten`, `LateAnswersChangeNothing` | `TypeOK`, `GeneratingIsHeld`, `NothingSlipsBy`, `LateAnswerIsHarmless` |

*RoomPresence.* The argument goes
through one room at a time: `Tidy(room, tabs)` says that the two maps of a room
describe exactly the tabs in `tabs`, and every operation of `roomState.ts` maps a
tidy room to a tidy one. The inductive invariant `IInv` is the type invariant
with "the live room is tidy for `socketIndex` and occupied, or there is neither
room nor index". The three properties need each other: that an eviction drops the
right sockets from the index follows from the agreement of index and room, that
a close finds its player from index and primary, that the room it leaves is
occupied from both. `Subscribed` needs more history (`SubInv`): the sockets of a
room object belong to their user, a socket that never connected is unknown, and a
kick holds a room object, because the kick unsubscribes the sockets of the object
it found and evicts from the room of the moment.

The refinement rests on `Follows`, which `IInv` implies: who is present and
whether there is a room are functions of `index`. So a step that changes `index`
changes the rest accordingly, and what is left to show is how each step changes
it: a socket handler adds or removes one tab (`SocketStepTabs`), an eviction all
tabs of one user, a deletion all tabs (`EvictedTabs`, `ReqStepTabs`), anything
else none. These are the steps of `Presence`.

*CombatTurns.* The invariant `IInv` adds to `TypeOK` and `PointerInRange`
that a handler waiting to add a combatant holds a token. Most of the work is in
the sort: `Ahead` is a strict total order on the positions (`AheadIsTotalOrder`),
so `Rank` is a bijection (`RankBijective`), so `Sorted` is a permutation
(`SortedIsPermuted`) and the re-anchored pointer finds its token (`AnchorFound`);
`Spliced` and `Cyclic` do the same for the deletion and the loop. That the
result is in order (`SortedIsInOrder`) follows from the rank being monotonic
(`RankRises`); a splice leaves the order of the others (`SplicedInOrder`), waking
changes nothing the order looks at (`AwakeInOrder`). For `NobodyIsPassedOver`
the loop is read as a walk: `Wraps` and `WhereTo` say in which round and slot it
is after k increments, `Soon` and `Anew` which k are in this round and the next,
and `AdvanceFinds` that the least k that stops is the least slot of `later`, or
of `again` if there is none.

*CombatLifecycle.* `TypeInv` needs that a start that is loading has a number for
its fight (`Numbered`), which is a count of handlers against `MaxFights`.
`OneStarter` says what the flag `combatStarting` stands for: exactly one handler
that is starting in that room. `CheckIsArmed` is inductive by itself. The last
two properties need one invariant, `FightInv`: a room that is still to come has
no fight (`Unmade`), a clean teardown is alone until its DELETE is done
(`Alone`), whatever could install a fight finds its row there or on its way
(`Saved`), and nothing in flight carries a fight that is over (`Forgotten`).
`Alone` is what the others need: it is what a DELETE that meets an unawaited
UPDATE, or an INSERT, would break, and does break in the code without `clean`.

*CombatHp.* `HpInv` says that there is a value b, the last on which memory and
row agreed, such that memory is b with the strikes in flight on top of it
(`Stacked`), and the row is b, perhaps with one committed change that memory
still lacks (`RowMadeOf`). A committed strike makes its own result the new b, a
refused one gives memory back to b. The third case, `Hopeless`, is what more than
two requests need: a strike that will be refused under another one, or a copy
of something outdated, has not crossed yet but cannot end otherwise, and stays
so until it does (`HopelessStays`). The run with two requests could not have
shown that this is all. A chat command crosses, and ends the argument there.

*OpportunityAttacks.* `IInv` adds two
parts to `TypeOK`. `OpportunitiesOK`: an opportunity that is registered or still
to come is untouched (not attacked on, not held by a request, and over only if it
is registered and expired), and a claimed one belongs to one request, has not been
attacked on and is not over. That is why claiming must consume the record.
`ReactionsOK`: an economy whose reaction is not spent has made none and is
reserved by nobody, a reserved one belongs to one request or one dodge and has
made none, and economies still to come are unspent. That is why the reservation comes before the query, and why
handing it back restores exactly what was taken, even if the turn has passed.
`ServiceKeepsPromises` puts the same facts to use step by step: `OfferSeen` to
`SettleSeen` restate the abstract actions in terms of the six sets, and each
handler is shown to change the sets in one of these ways. That a request on its
way stakes a reaction of its own (`ReactionsOK`) is what makes the end of one
request (`ClaimEnds`) take away its commitment and no other.

*EventSync.* `Known`: every number in flight is one the server has said, because
a restart closes all that was under way. From it and the bound of the log
follows `ReplayLeavesNoHole`: a cursor of this room is not ahead of the log, and
one below its first entry is told so. `HasABoard`: an answer of GET `/state`
carries a board, or it is the answer of a server without the room, with the
number 0, which the guards of `pullStateSnapshot` discard; `OneSubject`: an event
tells of one part. Both are needed for `BoardNeverWiped`. `Replayed` is the loop
of `pullEventCursor` in closed form; `ReplayedOneByOne` proves the two equations
that define the loop.

*Loot.* `NoDeadlock` needs no invariant: it is about which stage of which
transaction holds and waits for which row, and its proof is the order of the
locks. `LootInv` says what the locks are for: a request that has an entry or a
character is the only one, and what it read is still there (`EntryLocks`,
`RowLocks`); what was read without a lock is there as long as it is fresh
(`Reads`); every drop has a number left for its bag (`Budget`). Conservation is
then a sum that each step moves between two terms. `SumFunctionOnSet` of the
community modules is a fold, defined by a recursive function over sets, so the
module first proves what a sum over a finite set is: it exists (`SumsExist`), two
of them agree (`SumsAgree`), one more element adds its value (`SumOfMore`). The
induction theorems of the library cannot be instantiated here, since they take a
predicate; instead `SmallestSet` gives for any set of finite sets one of least
size, and a smallest counterexample is refuted. `BagInv` is the invariant of the
two properties of bags: one that is off the map or about to be removed is empty
(`BagsFound`), and one that is empty and on the map has a request that is to
remove it (`BagsLeave`): the last take always looks again after its response, and
if it fails there, either another request is looking or the bag is among `spilled`
(`FailKeepsBags`).

The proofs found two mistakes in the type invariant of `Loot`, which no run had
met. The ledger of what the DM added and removed was typed as a natural number;
removing items that an enrichment doubled takes it below zero. And it said that
no inventory ever has two stacks of one item, which is true only of characters who
did not begin with two, which nothing in `loot.ts` rules out.

*Chronicle.* `IInv` adds to `TypeOK` that requests in flight fit
into the rows (`RequestsFit`), `GeneratingIsHeld` itself, and `SpansOK`: every
message up to the publication of a published row, and up to the start of any
transcript, was told, or waited, or was passed over by a repeated publication. The
last part carries the proof: a transcript starts at the cutoff of its time, so
what it tells, and what is said until it is published, continues what is accounted
for before; a repeated publication continues it from the former one; and the
cutoff moves only there. `Min` and `Max` of the
community modules are chosen elements; that they exist (`LeastElement`) follows
from the well-foundedness of the numbers.

Only model-checked are the three liveness properties, `ConnectedGetsTracked`,
`Converges` and `BacklogDrains`, since fairness and ENABLED are out of the
prover's reach, and the three violations, which TLC shows by a trace.

## What is not modelled

In the modelled components: bans and unbans as rows, ownership transfer,
settings, the payloads of hydration; recharge and legendary pools, per-combat
caches; announcements, XP and Discord; temporary hit points, Wild Shape and the
once-a-round mark of death saves; who may see which part of a snapshot; what
enrichment and attunement change in an item; transcripts typed by the DM or cut
off at 800 lines, and an end time sent with a recap, which moves the cutoff.

The pool of 20 database connections is not modelled. A handler that asks it for a
second connection while it holds one in a transaction (`characterEvents.ts:373`)
can deadlock with nineteen others of its kind.

The other components of the inventory are not modelled yet or not worth it, as
listed above and in `PROJECT.json`. Most of the code by lines is of the second
kind: React components, rules text and dice of the chat commands, compendium data
and CRUD routes over one table, which keep no state between two steps. The models
follow the state that is shared and the handlers that race for it, so they cover
a small share of the lines.

## Plan

Every safety property the runs check is proved. Next, in this order:

1. Abstract specifications, in the way of `Presence` and `Reactions`, with their
   refinement proved: holdings that move between places for `Loot`, one fight at a
   time for `CombatLifecycle`.
2. `MapEdits` (fog chain, wall lock) as an implementation of an atomic update.
3. `Conditions`: durations and the concentration cascade, composed with
   `CombatTurns`.
4. Bans and failing REST queries in `RoomPresence`; the scene ribbon; temporary
   hit points and Wild Shape in `CombatHp`.

Runs stay small (two or three actors, one or two rounds, one fault of each kind)
and one per question.
