------------------------------ MODULE EventSync ------------------------------
(***************************************************************************)
(* How one browser keeps up with its room: live frames over the socket,    *)
(* the replay of missed events (GET events), the snapshot of the state     *)
(* (GET state) with its ETag, and the hydration that answers session:join. *)
(* Server: utils/eventBroadcast.ts, utils/stateEtag.ts, routes/sessions.ts,*)
(* socket/sessionEvents.ts.  Browser: socket/eventCursor.ts,               *)
(* socket/stateSnapshot.ts, hooks/useSocket.ts.                            *)
(*                                                                         *)
(* What the browser shows has two parts: the board, which requests read    *)
(* from the database, and the fight, which they read from the room.  The   *)
(* value of a part is the number of its changes, 0 for nothing at all.     *)
(* Frames of a socket arrive in order.  One request of each kind is in     *)
(* flight; who may see what, and characters, are left out.                 *)
(***************************************************************************)
EXTENDS Naturals, Sequences, FiniteSetsExt

CONSTANTS
  MaxLog,       \* MAX_EVENT_LOG
  Before,       \* events of the room before the browser comes
  MaxChanges,   \* changes of the board or the fight (bound)
  MaxFaults     \* lost connections, lost answers and restarts (bound)

ASSUME EventSyncAssumption ==
  /\ {Before, MaxChanges, MaxFaults} \subseteq Nat
  /\ MaxLog \in Nat \ {0}

VARIABLES
  truth,        \* the board in its table, the fight in memory and in its row
  said,         \* the events of the room since it was created
  room,         \* none, without its fight, or with it
  up,           \* the browser has a socket
  member,       \* ... that is in the room of socket.io
  join,         \* the session:join in progress
  wire,         \* frames on their way to the browser
  pull,         \* the GET state in flight
  ask,          \* the GET events in flight
  shown,        \* what the browser shows
  cursor,       \* lastEventId
  etag,         \* lastStateEtag
  old,          \* the cursor is the number of an event of a former room
  changes, faults

server == <<truth, said, room, changes>>
socket == <<up, member, join, wire>>
browser == <<shown, cursor, etag, old>>
vars == <<truth, said, room, up, member, join, wire, pull, ask,
          shown, cursor, etag, old, changes, faults>>

Parts == {"board", "fight"}
Nothing == [p \in Parts |-> 0]

\* An ETag that matches nothing: none, or one of an earlier minute.
NoTag == [id |-> 0, fresh |-> FALSE]
NoJoin == [at |-> "idle", board |-> 0]
NoPull == [at |-> "idle", tag |-> NoTag, sees |-> Nothing, stamp |-> 0]
NoAsk == [at |-> "idle", events |-> <<>>, latest |-> 0]

nextEventId == Len(said)
\* The number of the oldest event in the log.
Oldest == IF said = <<>> THEN 0 ELSE Max({1, (nextEventId + 1) - MaxLog})
Logged(since) == SubSeq(said, Max({since + 1, Oldest}), nextEventId)

\* What is shown after a frame: 0 says nothing about a part, and an event
\* about the board nothing to a browser without one.
Apply(view, frame) ==
  LET news == frame["fight"] # 0 \/ view["board"] # 0
  IN  [p \in Parts |-> IF news /\ frame[p] # 0 THEN frame[p] ELSE view[p]]
About(p) == [Nothing EXCEPT ![p] = truth[p]]

Views == [Parts -> 0 .. MaxChanges + 1]
EventIds == 0 .. Before + MaxChanges
Tags == [id : EventIds, fresh : BOOLEAN]
Frames == [id : EventIds, sets : Views]
Joins == [at : {"idle", "asked", "read"}, board : 0 .. MaxChanges + 1]
Pulls == [at : {"idle", "stamp", "back"}, tag : Tags, sees : Views, stamp : EventIds]
Asks == [at : {"idle", "gone", "back"}, events : Seq(Views), latest : EventIds]

(* The invariant of types. *)
TypeOK ==
  /\ truth \in [Parts -> 1 .. MaxChanges + 1]
  /\ said \in Seq(Views) /\ nextEventId \in EventIds
  /\ room \in {"none", "bare", "full"} /\ (room = "none" => said = <<>>)
  /\ up \in BOOLEAN /\ member \in BOOLEAN /\ (member => up)
  /\ join \in Joins /\ wire \in Seq(Frames) /\ pull \in Pulls /\ ask \in Asks
  /\ shown \in Views /\ cursor \in EventIds /\ etag \in Tags /\ old \in BOOLEAN
  /\ (cursor <= nextEventId \/ old)
  /\ changes \in 0 .. MaxChanges /\ faults \in 0 .. MaxFaults

Init ==
  /\ truth = [p \in Parts |-> 1] /\ room = "full"
  /\ said = [i \in 1 .. Before |-> About("board")]
  /\ up = FALSE /\ member = FALSE /\ join = NoJoin /\ wire = <<>>
  /\ pull = NoPull /\ ask = NoAsk
  /\ shown = Nothing /\ cursor = 0 /\ etag = NoTag /\ old = FALSE
  /\ changes = 0 /\ faults = 0

Fault == faults < MaxFaults /\ faults' = faults + 1

\* Events of another room than the cursor's are not told from its own.
SetCursor(id) ==
  /\ cursor' = id
  /\ old' = (old /\ id = cursor)

Send(id, sets) ==
  wire' = IF member THEN Append(wire, [id |-> id, sets |-> sets]) ELSE wire

----------------------------------------------------------------------------
(* The room: handlers write first and broadcast after their queries.       *)

\* A part changes while the room is up.
Write(p) ==
  /\ changes < MaxChanges /\ changes' = changes + 1
  /\ room = "full"
  /\ truth' = [truth EXCEPT ![p] = @ + 1]
  /\ UNCHANGED <<room, up, member, join, pull, ask, browser, faults>>

\* Mutant: the event is numbered and sent, and not logged.
BroadcastOnly(p) ==
  /\ Write(p) /\ UNCHANGED said
  /\ Send(nextEventId + 1, About(p)')

\* broadcastEvent: the event is numbered, logged and sent.
Broadcast(p) ==
  /\ Write(p)
  /\ said' = Append(said, About(p)')
  /\ Send(nextEventId + 1, About(p)')

\* The emits that do not go through the log.
EmitUnlogged(p) ==
  /\ Write(p) /\ UNCHANGED said
  /\ Send(0, About(p)')

\* Somebody else joins: the room is created, and its fight loaded later.
OtherJoins ==
  /\ room \in {"none", "bare"}
  /\ room' = IF room = "none" THEN "bare" ELSE "full"
  /\ UNCHANGED <<truth, said, changes, socket, pull, ask, browser, faults>>

----------------------------------------------------------------------------
(* The socket.                                                             *)

Connect ==
  /\ ~up /\ up' = TRUE
  /\ join' = [NoJoin EXCEPT !.at = "asked"]
  /\ UNCHANGED <<server, member, wire, pull, ask, browser, faults>>

\* session:join makes the socket a member and reads the tokens ...
JoinRead ==
  /\ up /\ join.at = "asked"
  /\ member' = TRUE
  /\ room' = IF room = "none" THEN "bare" ELSE room
  /\ join' = [at |-> "read", board |-> truth["board"]]
  /\ UNCHANGED <<truth, said, changes, up, wire, pull, ask, browser, faults>>

\* ... then it sends them, and the fight.
JoinEmit ==
  /\ join.at = "read" /\ join' = NoJoin
  /\ room' = "full"
  /\ Send(0, [board |-> join.board, fight |-> truth["fight"]])
  /\ UNCHANGED <<truth, said, changes, up, member, pull, ask, browser, faults>>

\* A listener shows it, and triggerSnapshot forgets the ETag.
Deliver ==
  /\ wire # <<>> /\ wire' = Tail(wire)
  /\ shown' = Apply(shown, Head(wire).sets)
  /\ SetCursor(Max({cursor, Head(wire).id}))
  /\ etag' = NoTag
  /\ UNCHANGED <<server, up, member, join, pull, ask, faults>>

----------------------------------------------------------------------------
(* GET state, every keep-alive tick and after live frames.                 *)

\* The answer is 304 when the ETag is the one the server would give.
NotModified == etag = [id |-> nextEventId, fresh |-> TRUE]

\* What it reads it reads here, as early and as old as it can be.
AskState ==
  /\ pull.at = "idle"
  /\ IF room = "none"
       THEN pull' = [NoPull EXCEPT !.at = "back"]
       ELSE /\ ~NotModified
            /\ pull' = [at |-> "stamp", tag |-> [id |-> nextEventId, fresh |-> TRUE],
                        sees |-> [board |-> truth["board"],
                                  fight |-> IF room = "full" THEN truth["fight"] ELSE 0],
                        stamp |-> 0]
  /\ UNCHANGED <<server, socket, ask, browser, faults>>

\* The number of the last event is read when everything else has been.
Stamp ==
  /\ pull.at = "stamp"
  /\ pull' = [pull EXCEPT !.at = "back", !.stamp = nextEventId]
  /\ UNCHANGED <<server, socket, ask, browser, faults>>

\* Mutant: the answer of an instance without the room is not recognised.
DiscardedOld == pull.stamp < cursor

\* An answer older than the cursor, or of an instance without the room.
Discarded ==
  \/ pull.stamp < cursor
  \/ pull.stamp = 0 /\ pull.sees = Nothing /\ shown # Nothing

\* The board is replaced once the browser has a map.  The answer of an
\* instance without the room brings no ETag, and the old one stays.
ReceiveState ==
  /\ pull.at = "back" /\ pull' = NoPull
  /\ etag' = IF pull.sees = Nothing THEN etag ELSE pull.tag
  /\ IF Discarded
       THEN UNCHANGED <<shown, cursor, old>>
       ELSE /\ shown' = [pull.sees EXCEPT !["board"] =
                           IF shown["board"] = 0 THEN 0 ELSE @]
            /\ SetCursor(Max({cursor, pull.stamp}))
  /\ UNCHANGED <<server, socket, ask, faults>>

\* Mutant: the ETag has no time in it.
MinuteForgotten ==
  /\ etag.fresh \/ pull.tag.fresh
  /\ UNCHANGED vars

\* A minute later no ETag matches any more.
Minute ==
  /\ etag.fresh \/ pull.tag.fresh
  /\ etag' = NoTag /\ pull' = [pull EXCEPT !.tag = NoTag]
  /\ UNCHANGED <<server, socket, ask, shown, cursor, old, faults>>

----------------------------------------------------------------------------
(* GET events, every keep-alive tick, unless there is no cursor.           *)

\* Mutant: off by one, one event too many may have left the log.
FellOutLate(since) == since + 2 < Oldest

\* 410: the event after the cursor is no longer in the log.
FellOut(since) == since + 1 < Oldest

AskEvents ==
  /\ ask.at = "idle" /\ cursor # 0
  /\ ask' = IF FellOut(cursor)
              THEN [NoAsk EXCEPT !.at = "gone"]
              ELSE [at |-> "back", events |-> Logged(cursor), latest |-> nextEventId]
  /\ UNCHANGED <<server, socket, pull, browser, faults>>

\* Shown one after the other, the last event about a part is what stays.
Replayed(view, events) ==
  [p \in Parts |->
     LET about == {i \in DOMAIN events : events[i][p] # 0}
     IN  IF about = {} \/ (p = "board" /\ view["board"] = 0)
           THEN view[p] ELSE events[Max(about)][p]]

\* The events are replayed, whatever came meanwhile.
ReceiveEvents ==
  /\ ask.at = "back" /\ ask' = NoAsk
  /\ shown' = Replayed(shown, ask.events)
  /\ SetCursor(Max({cursor, ask.latest}))
  /\ UNCHANGED <<server, socket, pull, etag, faults>>

ReceiveGone ==
  /\ ask.at = "gone" /\ ask' = NoAsk
  /\ SetCursor(0)
  /\ join' = IF up /\ join.at = "idle" THEN [NoJoin EXCEPT !.at = "asked"] ELSE join
  /\ UNCHANGED <<server, up, member, wire, pull, shown, etag, faults>>

----------------------------------------------------------------------------
(* Faults.                                                                 *)

Offline ==
  /\ up' = FALSE /\ member' = FALSE /\ join' = NoJoin /\ wire' = <<>>

\* The socket dies with what is on it.
Drop ==
  /\ Fault /\ up /\ Offline
  /\ UNCHANGED <<server, pull, ask, browser>>

LoseAnswer ==
  /\ Fault
  /\ \/ pull.at # "idle" /\ pull' = NoPull /\ UNCHANGED ask
     \/ ask.at # "idle" /\ ask' = NoAsk /\ UNCHANGED pull
  /\ UNCHANGED <<server, socket, browser>>

\* A new server process: createRoom starts to count at 0 again.
Restart ==
  /\ Fault /\ room # "none"
  /\ room' = "none" /\ said' = <<>>
  /\ Offline /\ pull' = NoPull /\ ask' = NoAsk
  /\ old' = (cursor # 0)
  /\ UNCHANGED <<truth, changes, shown, cursor, etag>>

----------------------------------------------------------------------------
Change(p) == Broadcast(p) \/ EmitUnlogged(p)
Hydrate == Connect \/ JoinRead \/ JoinEmit
PullState == AskState \/ Stamp \/ ReceiveState
PullEvents == AskEvents \/ ReceiveEvents \/ ReceiveGone

Next ==
  \/ \E p \in Parts : Change(p)
  \/ OtherJoins \/ Hydrate \/ Deliver
  \/ PullState \/ Minute \/ PullEvents
  \/ Drop \/ LoseAnswer \/ Restart

\* Handlers come to an end, the browser's timer keeps ticking, requests are
\* answered (all but MaxFaults of them), and time passes.
Fairness ==
  /\ WF_vars(Hydrate) /\ WF_vars(Deliver)
  /\ WF_vars(PullState) /\ WF_vars(PullEvents) /\ WF_vars(Minute)

Spec == Init /\ [][Next]_vars
LiveSpec == Spec /\ Fairness

----------------------------------------------------------------------------
(* Properties.                                                             *)

(* An answer of GET events that is not a 410 has every event after the     *)
(* cursor up to the number it will move the cursor to, in order, unless    *)
(* the cursor is of a former room: the bounded log leaves no hole.         *)
ReplayComplete ==
  [][ask.at = "idle" /\ ask'.at = "back" /\ ~old =>
       ask'.events = SubSeq(said, cursor + 1, ask'.latest)]_vars

(* No answer empties the board of a browser that has one, however restarts *)
(* and rooms that are only half loaded meet its polling.                   *)
NothingWiped == [][shown["board"] # 0 => shown'["board"] # 0]_vars

(* Once changes and faults stop, what the browser shows becomes the truth  *)
(* and stays so, whatever was lost, reordered or answered from a half      *)
(* loaded room before: unless its cursor is ahead of a new room's count.   *)
Converges == <>[](shown = truth \/ cursor > nextEventId)

(* What the comment of stateSnapshot.ts says, "ANY drift ... self-heals     *)
(* inside one tick": the same without the exception.  The code does not    *)
(* keep it (see the findings).                                             *)
SelfHeals == <>[](shown = truth)
=============================================================================
