---------------------------- MODULE RoomPresence ----------------------------
(***************************************************************************)
(* Who is in a live room: the presence half of utils/roomState.ts, the     *)
(* session:join / heartbeat / leave / kick / disconnect handlers of        *)
(* socket/sessionEvents.ts, and the REST routes of routes/sessions.ts that *)
(* evict, promote, demote or delete.                                       *)
(*                                                                         *)
(* Node runs one handler at a time, but every `await pool.query` lets      *)
(* others run before the handler goes on.  Each action below is the code   *)
(* between two awaits; a query and the purely local code after it (a       *)
(* check of the row that was read) are one action.                         *)
(*                                                                         *)
(* One session is modelled: a browser socket joins the one session of its  *)
(* page (client/src/hooks/useSocket.ts), so sessions share no state.       *)
(* Room objects are allocated from RoomIds, because a handler may still    *)
(* hold a room that was dropped from the `rooms` map in the meantime.      *)
(***************************************************************************)
EXTENDS Naturals, FiniteSets

CONSTANTS
  Users,       \* authenticated users
  Sockets,     \* every socket id the server ever issues; an id is not reused
  UserOf,      \* the user a socket authenticated as (socket.data.userId)
  Owner,       \* sessions.dm_user_id
  RoomIds,     \* room objects that exist at a time, live or still held (bound)
  Reqs,        \* administrative requests in flight at a time (bound)
  NoSocket, NoRoom

ASSUME PresenceAssumption ==
  /\ UserOf \in [Sockets -> Users]
  /\ Owner \in Users
  /\ NoSocket \notin Sockets
  /\ NoRoom \notin RoomIds

VARIABLES
  conn,        \* transport of each socket: "new", "up" or "down"
  joining,     \* session:join handlers between their membership read and the add
  obj,         \* room objects: RoomState.players and RoomState.userSockets
  live,        \* rooms.get(sessionId), or NoRoom
  index,       \* sockets that have an entry in socketIndex
  ioRoom,      \* sockets subscribed to the Socket.IO room of the session
  sessionRow,  \* the sessions row exists
  member,      \* session_players: the role of each user, or "none"
  req          \* administrative requests in flight

vars == <<conn, joining, obj, live, index, ioRoom,
          sessionRow, member, req>>

Roles == {"dm", "player"}
Kinds == {"kick", "ban", "leave", "join", "promote", "demote", "delete"}
Stages == {"idle", "asked", "checked", "written", "detached"}

RoomObjects ==
  [primary : [Users -> Sockets \cup {NoSocket}],
   role    : [Users -> Roles],
   socks   : [Users -> SUBSET Sockets]]

Requests ==
  [kind : Kinds, by : Users, target : Users, stage : Stages,
   room : RoomIds \cup {NoRoom}]

(* The invariant of types. *)
TypeOK ==
  /\ conn \in [Sockets -> {"new", "up", "down"}]
  /\ joining \in [Sockets -> Roles \cup {"idle"}]
  /\ obj \in [RoomIds -> RoomObjects]
  /\ live \in RoomIds \cup {NoRoom}
  /\ index \subseteq Sockets
  /\ ioRoom \subseteq Sockets
  /\ sessionRow \in BOOLEAN
  /\ member \in [Users -> Roles \cup {"none"}]
  /\ req \in [Reqs -> Requests]

NoReq == [kind |-> "kick", by |-> Owner, target |-> Owner,
          stage |-> "idle", room |-> NoRoom]

EmptyRoom ==
  [primary |-> [u \in Users |-> NoSocket],
   role    |-> [u \in Users |-> "player"],
   socks   |-> [u \in Users |-> {}]]

----------------------------------------------------------------------------
(* The operations of roomState.ts on one room object.                      *)

\* room.players.has(u)
Has(room, u) == room.primary[u] # NoSocket

\* players.size === 0
Vacant(room) == \A u \in Users : ~Has(room, u)

\* addPlayerToRoom: a second tab joins the first; the newest is the primary.
WithPlayer(room, s, r) ==
  [primary |-> [room.primary EXCEPT ![UserOf[s]] = s],
   role    |-> [room.role EXCEPT ![UserOf[s]] = r],
   socks   |-> [room.socks EXCEPT ![UserOf[s]] = @ \cup {s}]]

\* Mutant: the primary socket is not repointed.
WithoutTabOnly(room, s, p) ==
  [room EXCEPT !.socks = [@ EXCEPT ![UserOf[s]] = @ \ {s}]]

\* removeSocketFromRoom while another tab of the user is open: the primary is
\* repointed at p, one of the remaining sockets.
WithoutTab(room, s, p) ==
  [primary |-> [room.primary EXCEPT ![UserOf[s]] = p],
   role    |-> room.role,
   socks   |-> [room.socks EXCEPT ![UserOf[s]] = @ \ {s}]]

\* Mutant: players.delete(u) is forgotten.
WithoutSocketsOf(room, u) == [room EXCEPT !.socks = [@ EXCEPT ![u] = {}]]

\* players.delete(u) and userSockets.delete(u)
WithoutUser(room, u) ==
  [primary |-> [room.primary EXCEPT ![u] = NoSocket],
   role    |-> [room.role EXCEPT ![u] = "player"],
   socks   |-> [room.socks EXCEPT ![u] = {}]]

\* Every socket the eviction code collects for u: userSockets and the primary.
SocketsOf(room, u) ==
  room.socks[u] \cup (IF Has(room, u) THEN {room.primary[u]} ELSE {})

\* getPlayerBySocketId(s) finds a context.
HasCtx(s) ==
  /\ s \in index
  /\ live # NoRoom
  /\ Has(obj[live], UserOf[s])

\* Mutant: an empty room stays in the rooms map.
StoreOnly(room) ==
  /\ obj' = [obj EXCEPT ![live] = room]
  /\ UNCHANGED live

\* Writing back a room from which a user has gone: an empty one is dropped
\* from the rooms map.
StoreOrDrop(room) ==
  /\ obj' = [obj EXCEPT ![live] = room]
  /\ live' = IF Vacant(room) THEN NoRoom ELSE live

\* Mutant: any closing tab takes its user out of the room.
RemoveUserWithSocket(s) ==
  /\ index' = index \ {s}
  /\ StoreOrDrop(WithoutUser(obj[live], UserOf[s]))

\* removeSocketFromRoom(sessionId, s), called with a context for s.
RemoveSocketFromRoom(s) ==
  LET rest == obj[live].socks[UserOf[s]] \ {s}
  IN  /\ index' = index \ {s}
      /\ IF rest # {}
           THEN \E p \in rest :
                  /\ obj' = [obj EXCEPT ![live] = WithoutTab(@, s, p)]
                  /\ UNCHANGED live
           ELSE StoreOrDrop(WithoutUser(obj[live], UserOf[s]))

\* Mutant: only the primary socket of u is dropped from socketIndex.
RemovePrimaryFromRoom(u) ==
  IF live = NoRoom
    THEN UNCHANGED <<obj, live, index>>
    ELSE /\ index' = index \ {obj[live].primary[u]}
         /\ StoreOrDrop(WithoutUser(obj[live], u))

\* removePlayerFromRoom(sessionId, u)
RemovePlayerFromRoom(u) ==
  IF live = NoRoom
    THEN UNCHANGED <<obj, live, index>>
    ELSE /\ index' = index \ SocketsOf(obj[live], u)
         /\ StoreOrDrop(WithoutUser(obj[live], u))

----------------------------------------------------------------------------
Init ==
  /\ conn = [s \in Sockets |-> "new"]
  /\ joining = [s \in Sockets |-> "idle"]
  /\ obj = [r \in RoomIds |-> EmptyRoom]
  /\ live = NoRoom
  /\ index = {}
  /\ ioRoom = {}
  /\ sessionRow = TRUE
  /\ member = [u \in Users |-> IF u = Owner THEN "dm" ELSE "player"]
  /\ req = [q \in Reqs |-> NoReq]

memory == <<obj, live, index>>
database == <<sessionRow, member>>

\* The transport comes up.
Connect(s) ==
  /\ conn[s] = "new"
  /\ conn' = [conn EXCEPT ![s] = "up"]
  /\ UNCHANGED <<joining, memory, ioRoom, database, req>>

\* Mutant: the early return for a user without a row is missing.
JoinReadUnchecked(s) ==
  /\ conn[s] = "up" /\ joining[s] = "idle"
  /\ joining' = [joining EXCEPT ![s] = member[UserOf[s]]]
  /\ UNCHANGED <<conn, memory, ioRoom, database, req>>

\* session:join up to the membership query.  A client emits it when its
\* transport connects, when its tab comes to the front and when a heartbeat
\* is answered with rejoinRequired.  A user without a row gets an error and
\* the handler ends; otherwise the role that was read is kept.
JoinRead(s) ==
  /\ conn[s] = "up" /\ joining[s] = "idle" /\ member[UserOf[s]] # "none"
  /\ joining' = [joining EXCEPT ![s] = member[UserOf[s]]]
  /\ UNCHANGED <<conn, memory, ioRoom, database, req>>

\* Mutant: the socket is not subscribed when the room already exists.
JoinEnterDeaf(s) ==
  /\ joining[s] # "idle"
  /\ joining' = [joining EXCEPT ![s] = "idle"]
  /\ IF live # NoRoom
       THEN /\ obj' = [obj EXCEPT ![live] = WithPlayer(@, s, joining[s])]
            /\ UNCHANGED live
       ELSE \E r \in RoomIds \ {req[q].room : q \in Reqs} :
              /\ obj' = [obj EXCEPT ![r] = WithPlayer(EmptyRoom, s, joining[s])]
              /\ live' = r
  /\ index' = index \cup {s}
  /\ ioRoom' = IF live = NoRoom THEN ioRoom \cup {s} ELSE ioRoom
  /\ UNCHANGED <<conn, database, req>>

\* session:join after the query, in one go: the room is looked up or created,
\* the player added, the socket subscribed.  The transport may be gone by now;
\* nothing looks.
JoinEnter(s) ==
  /\ joining[s] # "idle"
  /\ joining' = [joining EXCEPT ![s] = "idle"]
  /\ IF live # NoRoom
       THEN /\ obj' = [obj EXCEPT ![live] = WithPlayer(@, s, joining[s])]
            /\ UNCHANGED live
       ELSE \E r \in RoomIds \ {req[q].room : q \in Reqs} :
              /\ obj' = [obj EXCEPT ![r] = WithPlayer(EmptyRoom, s, joining[s])]
              /\ live' = r
  /\ index' = index \cup {s}
  /\ ioRoom' = ioRoom \cup {s}
  /\ UNCHANGED <<conn, database, req>>

\* Mutant: any socket is fine as long as the room exists.
KnownByRoom(s) == live # NoRoom

\* refreshSocketPresence(s) is ok; otherwise the heartbeat-ack of s carries
\* rejoinRequired.
Known(s) == HasCtx(s)

\* session:heartbeat on a known socket: tracked and subscribed once more.
Heartbeat(s) ==
  /\ conn[s] = "up" /\ Known(s)
  /\ obj' = [obj EXCEPT ![live].socks[UserOf[s]] = @ \cup {s}]
  /\ ioRoom' = ioRoom \cup {s}
  /\ UNCHANGED <<conn, joining, live, index, database, req>>

\* handleDisconnect
HandleDisconnect(s) ==
  IF HasCtx(s) THEN RemoveSocketFromRoom(s) ELSE UNCHANGED <<obj, live, index>>

\* The transport closes: Socket.IO unsubscribes the socket, then the
\* disconnect handler runs.
Disconnect(s) ==
  /\ conn[s] = "up"
  /\ conn' = [conn EXCEPT ![s] = "down"]
  /\ ioRoom' = ioRoom \ {s}
  /\ HandleDisconnect(s)
  /\ UNCHANGED <<joining, database, req>>

\* session:leave on a socket that stays connected.
Leave(s) ==
  /\ conn[s] = "up"
  /\ HandleDisconnect(s)
  /\ ioRoom' = IF HasCtx(s) THEN ioRoom \ {s} ELSE ioRoom
  /\ UNCHANGED <<conn, joining, database, req>>

----------------------------------------------------------------------------
(* Administrative requests.                                                *)

Idle == <<conn, joining>>

At(q, stage) == req[q].stage = stage
GoTo(q, stage) == req' = [req EXCEPT ![q].stage = stage]
Finish(q) == req' = [req EXCEPT ![q] = NoReq]

\* session:kick up to its first query: the sender is a DM of the live room
\* and not the target.  The handler keeps the room object it found.
KickStart(q, s, t) ==
  /\ At(q, "idle")
  /\ conn[s] = "up" /\ HasCtx(s) /\ obj[live].role[UserOf[s]] = "dm"
  /\ t # UserOf[s]
  /\ req' = [req EXCEPT ![q] = [kind |-> "kick", by |-> UserOf[s], target |-> t,
                                stage |-> "asked", room |-> live]]
  /\ UNCHANGED <<Idle, memory, ioRoom, database>>

\* A REST route up to its first query.
RestStart(q, k, u, t) ==
  /\ At(q, "idle")
  /\ k \in Kinds \ {"kick"}
  /\ k \in {"leave", "join", "delete"} => t = u
  /\ req' = [req EXCEPT ![q] = [kind |-> k, by |-> u, target |-> t,
                                stage |-> "asked", room |-> NoRoom]]
  /\ UNCHANGED <<Idle, memory, ioRoom, database>>

\* The checks of each request, on the rows its first queries return.  The
\* owner is untouchable, and so is a co-DM until demoted.  A kick and a leave
\* take no row of the session for nothing against them, and go on.
KickAllowed(r) == sessionRow => r.target # Owner /\ member[r.target] # "dm"

BanAllowed(r) ==
  /\ member[r.by] = "dm"
  /\ r.target # r.by /\ r.target # Owner /\ member[r.target] # "dm"

LeaveAllowed(r) == sessionRow => r.by # Owner

PromoteAllowed(r) == r.by = Owner

DemoteAllowed(r) == r.by = Owner /\ r.target # r.by

DeleteAllowed(r) == r.by = Owner

Allowed(r) ==
  CASE r.kind = "kick"    -> KickAllowed(r)
    [] r.kind = "ban"     -> BanAllowed(r)
    [] r.kind = "leave"   -> LeaveAllowed(r)
    [] r.kind = "join"    -> TRUE
    [] r.kind = "promote" -> PromoteAllowed(r)
    [] r.kind = "demote"  -> DemoteAllowed(r)
    [] r.kind = "delete"  -> DeleteAllowed(r)

\* The queries that read what the request is checked against.
ReqCheck(q) ==
  /\ At(q, "asked")
  /\ IF /\ sessionRow \/ req[q].kind \in {"kick", "leave"}
        /\ Allowed(req[q])
       THEN GoTo(q, "checked") ELSE Finish(q)
  /\ UNCHANGED <<Idle, memory, ioRoom, database>>

\* kick, ban, leave: DELETE FROM session_players.
DeleteMembership(q) ==
  /\ req[q].kind \in {"kick", "ban", "leave"}
  /\ At(q, "checked") /\ GoTo(q, "written")
  /\ member' = [member EXCEPT ![req[q].target] = "none"]
  /\ UNCHANGED <<Idle, memory, ioRoom, sessionRow>>

\* join: the insert leaves an existing row alone, and fails on its foreign
\* key if the session is gone.
InsertMembership(q) ==
  /\ req[q].kind = "join"
  /\ At(q, "checked") /\ Finish(q)
  /\ member' = IF sessionRow /\ member[req[q].target] = "none"
                 THEN [member EXCEPT ![req[q].target] = "player"] ELSE member
  /\ UNCHANGED <<Idle, memory, ioRoom, sessionRow>>

RoleOf(r) == IF r.kind = "promote" THEN "dm" ELSE "player"

\* promote, demote: UPDATE ... RETURNING; no row, no further step.
UpdateRole(q) ==
  LET t == req[q].target
  IN  /\ req[q].kind \in {"promote", "demote"}
      /\ At(q, "checked")
      /\ IF member[t] = "none"
           THEN Finish(q) /\ UNCHANGED member
           ELSE GoTo(q, "written") /\ member' = [member EXCEPT ![t] = RoleOf(req[q])]
      /\ UNCHANGED <<Idle, memory, ioRoom, sessionRow>>

\* The end of session:kick: the sockets of the target are collected from the
\* room object found at the start; the target is removed from the room of the
\* moment.
KickEvict(q) ==
  LET t == req[q].target
  IN  /\ req[q].kind = "kick"
      /\ At(q, "written") /\ Finish(q)
      /\ ioRoom' = ioRoom \ SocketsOf(obj[req[q].room], t)
      /\ RemovePlayerFromRoom(t)
      /\ UNCHANGED <<Idle, database>>

\* The end of the ban and leave routes: both from the room of the moment.
RouteEvict(q) ==
  LET t == req[q].target
  IN  /\ req[q].kind \in {"ban", "leave"}
      /\ At(q, "written") /\ Finish(q)
      /\ ioRoom' = IF live = NoRoom THEN ioRoom
                                    ELSE ioRoom \ SocketsOf(obj[live], t)
      /\ RemovePlayerFromRoom(t)
      /\ UNCHANGED <<Idle, database>>

\* promote, demote: the live room learns the new role at once.
SyncRole(q) ==
  LET t == req[q].target
  IN  /\ req[q].kind \in {"promote", "demote"}
      /\ At(q, "written") /\ Finish(q)
      /\ IF live # NoRoom /\ Has(obj[live], t)
           THEN obj' = [obj EXCEPT ![live].role[t] = RoleOf(req[q])]
           ELSE UNCHANGED obj
      /\ UNCHANGED <<Idle, live, index, ioRoom, database>>

\* DELETE /:id: everyone is unsubscribed, then the module is imported.
Detach(q) ==
  /\ req[q].kind = "delete" /\ At(q, "checked")
  /\ GoTo(q, IF live = NoRoom THEN "written" ELSE "detached")
  /\ ioRoom' = IF live = NoRoom THEN ioRoom
               ELSE ioRoom \ UNION {SocketsOf(obj[live], u) : u \in Users}
  /\ UNCHANGED <<Idle, memory, database>>

\* deleteRoom(sessionId)
DeleteRoom(q) ==
  /\ At(q, "detached") /\ GoTo(q, "written")
  /\ IF live = NoRoom
       THEN UNCHANGED <<index, live>>
       ELSE /\ index' = index \ UNION {SocketsOf(obj[live], u) : u \in Users}
            /\ live' = NoRoom
  /\ UNCHANGED <<Idle, obj, ioRoom, database>>

\* DELETE FROM sessions, with its cascade.
DeleteRow(q) ==
  /\ req[q].kind = "delete"
  /\ At(q, "written") /\ Finish(q)
  /\ sessionRow' = FALSE
  /\ member' = [u \in Users |-> "none"]
  /\ UNCHANGED <<Idle, memory, ioRoom>>

----------------------------------------------------------------------------
SocketStep(s) ==
  \/ Connect(s) \/ JoinRead(s) \/ JoinEnter(s)
  \/ Heartbeat(s) \/ Disconnect(s) \/ Leave(s)

ReqStep(q) ==
  \/ \E s \in Sockets, t \in Users : KickStart(q, s, t)
  \/ \E k \in Kinds, u, t \in Users : RestStart(q, k, u, t)
  \/ ReqCheck(q) \/ DeleteMembership(q) \/ InsertMembership(q) \/ UpdateRole(q)
  \/ KickEvict(q) \/ RouteEvict(q) \/ SyncRole(q)
  \/ Detach(q) \/ DeleteRoom(q) \/ DeleteRow(q)

Next ==
  \/ \E s \in Sockets : SocketStep(s)
  \/ \E q \in Reqs : ReqStep(q)

Spec == Init /\ [][Next]_vars

(* A connected client sends a heartbeat every five seconds and, told to     *)
(* rejoin, emits session:join; a query that a join awaits is answered.      *)
(* Nothing forces a tab to connect, close, leave or come back to the front. *)
Fairness ==
  \A s \in Sockets : /\ WF_vars(~Known(s) /\ JoinRead(s))
                     /\ WF_vars(JoinEnter(s))

FairSpec == Spec /\ Fairness

----------------------------------------------------------------------------
(* Correctness.                                                            *)

Present(u) == live # NoRoom /\ Has(obj[live], u)

(* socketIndex and the live room agree in both directions: an indexed      *)
(* socket finds its player (so no event of it is dropped and its close     *)
(* will be noticed), and a tracked socket is indexed under its own user.   *)
(* Every operation of roomState.ts maintains the two maps separately.      *)
IndexMatchesRoom ==
  /\ index # {} => live # NoRoom
  /\ live # NoRoom => \A u \in Users :
       obj[live].socks[u] = {s \in index : UserOf[s] = u}

(* The primary socket, the one targeted unicasts go to, is one of the      *)
(* user's tracked sockets, and a user without sockets is not a player:     *)
(* no sequence of tabs opening and closing strands either.                 *)
PrimaryIsTracked ==
  live # NoRoom => \A u \in Users :
    IF Has(obj[live], u) THEN obj[live].primary[u] \in obj[live].socks[u]
                         ELSE obj[live].socks[u] = {}

(* A room in the rooms map has a player in it: the map does not leak rooms *)
(* and a stale room is never found by the next joiner.                     *)
LiveRoomIsOccupied == live # NoRoom => ~Vacant(obj[live])

DeletionInProgress ==
  \E q \in Reqs : req[q].kind = "delete" /\ req[q].stage = "detached"

(* A connected socket that the room tracks is subscribed to its broadcasts *)
(* (outside the instant in which the session is being torn down): no       *)
(* member is present but deaf.                                             *)
TrackedIsSubscribed ==
  (live # NoRoom /\ ~DeletionInProgress) =>
    \A s \in index : conn[s] = "up" => s \in ioRoom

(* Closing one tab never takes a user out of the room while another tab of *)
(* theirs is tracked; only an eviction or the deletion of the session may  *)
(* (handleDisconnect, "multi-tab-aware").                                  *)
UserLeavesWithLastTab ==
  [][\A u \in Users :
       (Present(u) /\ ~Present(u)') =>
         \/ req' # req
         \/ \E s \in index : index' = index \ {s} /\ obj[live].socks[u] = {s}]_vars

(* A connected tab of a member ends up tracked, however often its room was *)
(* dropped or it left: heartbeat-ack asks for a join as long as the server *)
(* does not know the socket.                                               *)
ConnectedGetsTracked ==
  \A s \in Sockets :
    conn[s] = "up" ~> \/ HasCtx(s)
                      \/ conn[s] = "down"
                      \/ member[UserOf[s]] = "none"

(* The room state implements the abstract presence: three maps kept by     *)
(* hand behave as one set of tabs, through every interleaving of joins,    *)
(* closes, evictions and the deletion of the session.                      *)
Rooms == INSTANCE Presence WITH
  tracked <- index,
  online <- {u \in Users : Present(u)},
  open <- (live # NoRoom)

ImplementsPresence == Rooms!Spec

(* What the comments of the eviction code promise: once a kick, ban or     *)
(* leave has deleted the membership and run to its end, the user is out of *)
(* the live room.  The code does not keep it (see the findings).           *)
EvictionSticks ==
  \A u \in Users :
    (/\ sessionRow /\ member[u] = "none"
     /\ \A q \in Reqs : At(q, "idle")
     /\ \A s \in Sockets : joining[s] = "idle") => ~Present(u)
=============================================================================
