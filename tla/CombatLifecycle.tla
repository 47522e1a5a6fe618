-------------------------- MODULE CombatLifecycle --------------------------
(***************************************************************************)
(* How a fight comes into being and goes away: the ready check and its     *)
(* timer, the start that loads characters before it installs the fight,    *)
(* the teardown, the row in combat_state and the join that reads it back   *)
(* after a restart (services/CombatService.ts,                             *)
(* socket/combat/lifecycleEvents.ts, startCombatHelper.ts and the          *)
(* rehydration at the end of session:join).                                *)
(*                                                                         *)
(* A handler is split at its awaits; between them Node runs it alone.  A   *)
(* query is carried out by Postgres at some moment between its issue and   *)
(* the continuation: a write and its continuation are one action, a read   *)
(* and its continuation two.  Writes nobody awaits go through the          *)
(* connection pool in any order.                                           *)
(*                                                                         *)
(* A room object that is dropped lives on in the handlers and timers that  *)
(* hold it, so rooms are numbered; `live` is the one getRoom returns.      *)
(***************************************************************************)
EXTENDS Naturals, FiniteSets

CONSTANTS
  Handlers,     \* handlers in flight at a time (bound)
  MaxRooms,     \* rooms of the session, one after the other (bound)
  MaxFights,    \* fights that are installed (bound)
  MaxChecks,    \* ready checks with a timer at a time (bound)
  MaxEdits,     \* changes of one fight that are persisted (bound)
  MaxWrites,    \* writes nobody awaits in flight at a time (bound)
  MaxFails      \* queries that fail (bound)

ASSUME LifecycleAssumption ==
  /\ {MaxRooms, MaxFights, MaxChecks, MaxEdits, MaxWrites, MaxFails} \subseteq Nat
  /\ IsFiniteSet(Handlers)

Rooms == 1 .. MaxRooms

\* A fight as it is in memory or in the row: which one, and how far along.
Fights == [no : 0 .. MaxFights, edit : 0 .. MaxEdits]
NoFight == [no |-> 0, edit |-> 0]

VARIABLES
  live,      \* the room of the session in the server's map, or 0
  made,      \* rooms made so far
  room,      \* combatState, combatStarting and readyCheck of every room
  fights,    \* fights installed so far
  armed,     \* timers of ready with the room their closure holds
  handler,   \* handlers waiting for a query
  writes,    \* UPDATE combat_state queries that nobody awaits
  row,       \* the session's row in combat_state, or NoFight
  flag,      \* sessions.combat_active
  fails,     \* queries that failed so far
  over,      \* fights whose teardown has deleted the row
  clean      \* no teardown met another handler, and no fight went unsaved

vars == <<live, made, room, fights, armed, handler, writes, row, flag,
          fails, over, clean>>

NewRoom == [fight |-> NoFight, starting |-> FALSE, check |-> 0]
Idle == [does |-> "idle", in |-> 0, fight |-> NoFight]

Starts == {"load", "insert", "flag"}

\* A handler that waits for a query, and the fight it still has a use for.
Waiting ==
  LET in == 1 .. made
  IN  [does : {"load", "flag", "read", "unflag"}, in : in, fight : {NoFight}]
        \cup [does : {"insert", "resume"}, in : in, fight : Fights \ {NoFight}]
        \cup [does : {"delete"}, in : in, fight : Fights]

(* The invariant of types. *)
TypeOK ==
  /\ live \in 0 .. made /\ made \in 0 .. MaxRooms
  /\ room \in [Rooms -> [fight : Fights, starting : BOOLEAN, check : 0 .. MaxChecks]]
  /\ fights \in 0 .. MaxFights
  /\ armed \subseteq (1 .. made) \X (1 .. MaxChecks)
  /\ handler \in [Handlers -> {Idle} \cup Waiting]
  /\ writes \subseteq Fights /\ row \in Fights /\ flag \in BOOLEAN
  /\ fails \in 0 .. MaxFails
  /\ over \subseteq 1 .. fights /\ clean \in BOOLEAN

Free(h) == handler[h] = Idle
Busy(h, what) == handler[h].does = what
Quiet == writes = {} /\ \A h \in Handlers : Free(h)
Deleting == \E h \in Handlers : Busy(h, "delete")

Waits(h, what, r, f) ==
  handler' = [handler EXCEPT ![h] = [does |-> what, in |-> r, fight |-> f]]
Goes(h, what) ==
  handler' = [handler EXCEPT ![h] = [does |-> what, in |-> @.in, fight |-> NoFight]]
Ends(h) == handler' = [handler EXCEPT ![h] = Idle]

database == <<writes, row, flag>>
counts == <<fights, fails>>

Init ==
  /\ live = 0 /\ made = 0 /\ room = [r \in Rooms |-> NewRoom]
  /\ fights = 0 /\ armed = {}
  /\ handler = [h \in Handlers |-> Idle]
  /\ writes = {} /\ row = NoFight /\ flag = FALSE
  /\ fails = 0 /\ over = {} /\ clean = TRUE

----------------------------------------------------------------------------
(* The ready check, and the start of a fight.                              *)

Loading == Cardinality({h \in Handlers : Busy(h, "load")})

\* Mutant: the flag is not looked at.
MayStartAgain(r) == r.fight = NoFight

\* Nothing runs and nothing is being built.
MayStart(r) == r.fight = NoFight /\ ~r.starting

\* startCombat up to the first character query.  `rooms` and `timers` are
\* the room objects and timers as the caller leaves them.  It clears the
\* session's ready check even when it goes on to throw.
StartCombat(h, rooms, timers) ==
  /\ Free(h) /\ fights + Loading < MaxFights
  /\ clean' = (clean /\ ~Deleting)
  /\ IF live = 0
       THEN room' = rooms /\ armed' = timers /\ UNCHANGED handler
       ELSE /\ armed' = timers \ {<<live, rooms[live].check>>}
            /\ IF MayStart(rooms[live])
                 THEN /\ room' = [rooms EXCEPT ![live] =
                           [fight |-> @.fight, starting |-> TRUE, check |-> 0]]
                      /\ Waits(h, "load", live, NoFight)
                 ELSE /\ room' = [rooms EXCEPT ![live].check = 0]
                      /\ UNCHANGED handler
  /\ UNCHANGED <<live, made, counts, database, over>>

\* combat:start
Click(h) == live # 0 /\ StartCombat(h, room, armed)

\* Checks are told apart by a number that no timer and no room holds.
Unused ==
  {c \in 1 .. MaxChecks : \A r \in Rooms : room[r].check # c /\ <<r, c>> \notin armed}

\* Mutant: the timer of the check before keeps running.
ReadyCheckOnTop ==
  /\ live # 0 /\ Unused # {}
  /\ LET c == CHOOSE c \in Unused : TRUE
     IN  /\ armed' = armed \cup {<<live, c>>}
         /\ room' = [room EXCEPT ![live].check = c]
  /\ UNCHANGED <<live, made, counts, handler, database, over, clean>>

\* combat:ready-check, which replaces the one before.
ReadyCheck ==
  /\ live # 0 /\ Unused # {}
  /\ LET c == CHOOSE c \in Unused : TRUE
     IN  /\ armed' = (armed \ {<<live, room[live].check>>}) \cup {<<live, c>>}
         /\ room' = [room EXCEPT ![live].check = c]
  /\ UNCHANGED <<live, made, counts, handler, database, over, clean>>

\* combat:ready-response of the last player everybody was waiting for.
AllReady(h) ==
  /\ live # 0 /\ room[live].check # 0
  /\ StartCombat(h, [room EXCEPT ![live].check = 0],
                    armed \ {<<live, room[live].check>>})

\* The fifteen seconds are over.  The closure looks at the room it was made
\* in; the fight is started in the room the session has now.
TimeOut(h, r, c) ==
  /\ <<r, c>> \in armed
  /\ IF room[r].check = 0
       THEN /\ armed' = armed \ {<<r, c>>}
            /\ UNCHANGED <<live, made, room, counts, handler, database,
                           over, clean>>
       ELSE StartCombat(h, [room EXCEPT ![r].check = 0], armed \ {<<r, c>>})

\* Mutant: the fight is announced without waiting for the row.
BuildUnsaved(h) ==
  /\ Busy(h, "load")
  /\ fights' = fights + 1
  /\ room' = [room EXCEPT ![handler[h].in].fight = [no |-> fights + 1, edit |-> 0]]
  /\ Goes(h, "flag")
  /\ UNCHANGED <<live, made, armed, database, fails, over, clean>>

\* The characters are loaded: the fight is installed and INSERT is issued ...
Build(h) ==
  /\ Busy(h, "load")
  /\ fights' = fights + 1
  /\ room' = [room EXCEPT ![handler[h].in].fight = [no |-> fights + 1, edit |-> 0]]
  /\ Waits(h, "insert", handler[h].in, [no |-> fights + 1, edit |-> 0])
  /\ UNCHANGED <<live, made, armed, database, fails, over, clean>>

\* ... which writes over a row that is there.
Insert(h) ==
  /\ Busy(h, "insert")
  /\ row' = handler[h].fight
  /\ Goes(h, "flag")
  /\ UNCHANGED <<live, made, room, counts, armed, writes, flag, over, clean>>

\* The session is marked, the start is over, and the announcement sorts the
\* session's fight once more, which persists it, if everybody has rolled.
Flag(h) ==
  /\ Busy(h, "flag")
  /\ flag' = TRUE
  /\ room' = [room EXCEPT ![handler[h].in].starting = FALSE]
  /\ Ends(h)
  /\ Cardinality(writes) < MaxWrites
  /\ writes' \in {writes} \cup
       {writes \cup {room[r].fight} : r \in {r \in {live} \ {0} : room[r].fight # NoFight}}
  /\ UNCHANGED <<live, made, counts, armed, row, over, clean>>

----------------------------------------------------------------------------
(* The fight goes on, and ends.                                            *)

\* A turn, a hit, an initiative edit: changed in memory, written in passing.
Edit ==
  /\ live # 0 /\ room[live].fight # NoFight /\ room[live].fight.edit < MaxEdits
  /\ room' = [room EXCEPT ![live].fight.edit = @ + 1]
  /\ Cardinality(writes) < MaxWrites
  /\ writes' = writes \cup {room'[live].fight}
  /\ UNCHANGED <<live, made, counts, armed, handler, row, flag, over, clean>>

\* The UPDATE finds the row by session, if there is one.
Write(w) ==
  /\ w \in writes
  /\ writes' = writes \ {w}
  /\ row' = IF row = NoFight THEN NoFight ELSE w
  /\ UNCHANGED <<live, made, room, counts, armed, handler, flag, over, clean>>

\* Mutant: the teardown leaves the row to the next start.
EndInMemory(h) ==
  /\ live # 0 /\ Free(h)
  /\ room' = [room EXCEPT ![live].fight = NoFight]
  /\ Waits(h, "unflag", live, NoFight)
  /\ over' = over \cup ({room[live].fight.no} \ {0})
  /\ clean' = (clean /\ Quiet)
  /\ UNCHANGED <<live, made, counts, armed, database>>

\* combat:end and combat:cancel-review: the fight is gone from memory, and
\* DELETE is issued ...
End(h) ==
  /\ live # 0 /\ Free(h)
  /\ room' = [room EXCEPT ![live].fight = NoFight]
  /\ Waits(h, "delete", live, room[live].fight)
  /\ clean' = (clean /\ Quiet)
  /\ UNCHANGED <<live, made, counts, armed, database, over>>

Delete(h) ==
  /\ Busy(h, "delete")
  /\ row' = NoFight
  /\ over' = over \cup ({handler[h].fight.no} \ {0})
  /\ Goes(h, "unflag")
  /\ UNCHANGED <<live, made, room, counts, armed, writes, flag, clean>>

Unflag(h) ==
  /\ Busy(h, "unflag")
  /\ flag' = FALSE
  /\ Ends(h)
  /\ UNCHANGED <<live, made, room, counts, armed, writes, row, over, clean>>

\* A query fails and takes its handler with it; combatStarting is reset.
Fail(h) ==
  /\ ~Free(h) /\ ~Busy(h, "resume") /\ fails < MaxFails
  /\ fails' = fails + 1
  /\ room' = IF handler[h].does \in Starts
               THEN [room EXCEPT ![handler[h].in].starting = FALSE] ELSE room
  /\ Ends(h)
  /\ clean' = (clean /\ ~Busy(h, "insert"))
  /\ UNCHANGED <<live, made, fights, armed, database, over>>

----------------------------------------------------------------------------
(* Rooms come and go.                                                      *)

\* Somebody joins a session without a room.
Enter ==
  /\ live = 0 /\ made < MaxRooms
  /\ made' = made + 1 /\ live' = made + 1
  /\ UNCHANGED <<room, counts, armed, handler, database, over, clean>>

\* Every join ends by looking for a fight: SELECT is issued if the room has
\* none ...
Rehydrate(h) ==
  /\ live # 0 /\ Free(h) /\ room[live].fight = NoFight
  /\ Waits(h, "read", live, NoFight)
  /\ clean' = (clean /\ ~Deleting)
  /\ UNCHANGED <<live, made, room, counts, armed, database, over>>

\* Mutant: a missing row is taken for a fight.
ReadRowUnchecked(h) ==
  /\ Busy(h, "read")
  /\ Waits(h, "resume", handler[h].in, row)
  /\ UNCHANGED <<live, made, room, counts, armed, database, over, clean>>

ReadRow(h) ==
  /\ Busy(h, "read")
  /\ IF row = NoFight THEN Ends(h) ELSE Waits(h, "resume", handler[h].in, row)
  /\ UNCHANGED <<live, made, room, counts, armed, database, over, clean>>

\* ... and what it found is installed, whatever the room has by now.
Resume(h) ==
  /\ Busy(h, "resume")
  /\ room' = [room EXCEPT ![handler[h].in].fight = handler[h].fight]
  /\ Ends(h)
  /\ UNCHANGED <<live, made, counts, armed, database, over, clean>>

\* The last player leaves and the room is dropped; its timer goes on.
Empty ==
  /\ live # 0 /\ made < MaxRooms
  /\ live' = 0
  /\ UNCHANGED <<made, room, counts, armed, handler, database, over, clean>>

\* The server dies with everything it had in memory.
Restart ==
  /\ made > 0 /\ made < MaxRooms
  /\ live' = 0 /\ armed' = {} /\ writes' = {}
  /\ room' = [r \in Rooms |-> NewRoom]
  /\ handler' = [h \in Handlers |-> Idle]
  /\ UNCHANGED <<made, counts, row, flag, over, clean>>

----------------------------------------------------------------------------
Next ==
  \/ \E h \in Handlers :
       \/ Click(h) \/ AllReady(h)
       \/ \E r \in Rooms, c \in 1 .. MaxChecks : TimeOut(h, r, c)
       \/ Build(h) \/ Insert(h) \/ Flag(h)
       \/ End(h) \/ Delete(h) \/ Unflag(h)
       \/ Rehydrate(h) \/ ReadRow(h) \/ Resume(h)
       \/ Fail(h)
  \/ ReadyCheck
  \/ Edit
  \/ \E w \in Fights : Write(w)
  \/ Enter \/ Empty \/ Restart

Spec == Init /\ [][Next]_vars

----------------------------------------------------------------------------
(* Correctness.                                                            *)

StartsIn(r) ==
  {h \in Handlers : handler[h].does \in Starts /\ handler[h].in = r}

(* However the DM's click, the last answer and the timer of the ready      *)
(* check race, a room builds one fight at a time, and combatStarting is    *)
(* set exactly while it does: a start that fails does not wedge the next.  *)
OneStart ==
  \A r \in Rooms :
    Cardinality(StartsIn(r)) = IF room[r].starting THEN 1 ELSE 0

(* A ready check is open as long as its timer runs and no longer: one that *)
(* was answered, replaced or overtaken by a manual start cannot go off     *)
(* later, and an open one always will.                                     *)
CheckIsArmed ==
  \A r \in Rooms, c \in 1 .. MaxChecks :
    <<r, c>> \in armed <=> room[r].check = c

(* A fight that runs has a row to come back from after a restart, as soon  *)
(* as the queries in flight are done and if none of them failed.           *)
SurvivesRestart ==
  clean /\ Quiet /\ live # 0 /\ room[live].fight # NoFight => row # NoFight

(* A fight that was torn down stays down: not in the room, and not in the  *)
(* row a later join would read it back from, provided the teardown met     *)
(* nobody.  Joins, starts, edits, lost rooms and restarts may meet each    *)
(* other in any way.                                                       *)
EndedStaysEnded ==
  clean => /\ row.no \notin over
           /\ live # 0 => room[live].fight.no \notin over
=============================================================================
