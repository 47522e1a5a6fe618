------------------------- MODULE RoomPresenceProofs -------------------------
(***************************************************************************)
(* Proofs about RoomPresence for any number of users, sockets, rooms and   *)
(* administrative requests.                                                *)
(*                                                                         *)
(* The argument goes through one room at a time.  Tidy(room, tabs) says    *)
(* that the two maps of a room describe exactly the tabs in `tabs`; every  *)
(* operation of roomState.ts maps a tidy room to a tidy room.  The rest is *)
(* bookkeeping about which room is the live one.                           *)
(***************************************************************************)
EXTENDS RoomPresence, TLAPS

Tidy(room, tabs) ==
  \A u \in Users :
    /\ room.socks[u] = {s \in tabs : UserOf[s] = u}
    /\ Has(room, u) => room.primary[u] \in room.socks[u]
    /\ ~Has(room, u) => room.socks[u] = {}

\* What the maps say together: no room, no index; or a tidy occupied room.
RoomInv ==
  /\ live = NoRoom => index = {}
  /\ live # NoRoom => Tidy(obj[live], index) /\ ~Vacant(obj[live])

\* The inductive invariant.
IInv == TypeOK /\ RoomInv

----------------------------------------------------------------------------
(* The operations on one room: types.                                      *)

LEMMA RoomTypes ==
  ASSUME NEW room \in RoomObjects, NEW s \in Sockets, NEW r \in Roles,
         NEW u \in Users, NEW p \in Sockets
  PROVE  /\ WithPlayer(room, s, r) \in RoomObjects
         /\ WithoutTab(room, s, p) \in RoomObjects
         /\ WithoutUser(room, u) \in RoomObjects
         /\ EmptyRoom \in RoomObjects
<1>0. UserOf[s] \in Users
  BY PresenceAssumption
<1>1. WithPlayer(room, s, r) \in RoomObjects
  BY <1>0 DEF WithPlayer, RoomObjects
<1>2. WithoutTab(room, s, p) \in RoomObjects
  BY <1>0 DEF WithoutTab, RoomObjects
<1>3. WithoutUser(room, u) \in RoomObjects
  BY DEF WithoutUser, RoomObjects, Roles
<1>4. EmptyRoom \in RoomObjects
  BY DEF EmptyRoom, RoomObjects, Roles
<1> QED
  BY <1>1, <1>2, <1>3, <1>4

(* A tidy vacant room describes no tab.                                    *)
LEMMA VacantIsEmpty ==
  ASSUME NEW room, NEW tabs \in SUBSET Sockets, Tidy(room, tabs), Vacant(room)
  PROVE  tabs = {}
<1> SUFFICES ASSUME NEW s \in tabs PROVE FALSE
  OBVIOUS
<1>1. UserOf[s] \in Users
  BY PresenceAssumption
<1>2. room.socks[UserOf[s]] = {}
  BY <1>1 DEF Tidy, Vacant
<1> QED
  BY <1>1, <1>2 DEF Tidy

(* addPlayerToRoom keeps a room tidy and makes it occupied.                *)
LEMMA TidyEnter ==
  ASSUME NEW room \in RoomObjects, NEW tabs \in SUBSET Sockets,
         NEW s \in Sockets, NEW r \in Roles, Tidy(room, tabs)
  PROVE  /\ Tidy(WithPlayer(room, s, r), tabs \cup {s})
         /\ ~Vacant(WithPlayer(room, s, r))
<1> DEFINE new == WithPlayer(room, s, r)
<1>0. UserOf[s] \in Users /\ s # NoSocket
  BY PresenceAssumption
<1>1. /\ new.primary = [room.primary EXCEPT ![UserOf[s]] = s]
      /\ new.socks = [room.socks EXCEPT ![UserOf[s]] = @ \cup {s}]
  BY DEF WithPlayer
<1>2. Tidy(new, tabs \cup {s})
  <2> SUFFICES ASSUME NEW u \in Users
      PROVE /\ new.socks[u] = {t \in tabs \cup {s} : UserOf[t] = u}
            /\ Has(new, u) => new.primary[u] \in new.socks[u]
            /\ ~Has(new, u) => new.socks[u] = {}
    BY DEF Tidy
  <2>1. CASE u = UserOf[s]
    <3>1. new.primary[u] = s /\ new.socks[u] = room.socks[u] \cup {s}
      BY <1>1, <2>1 DEF RoomObjects
    <3> QED
      BY <1>0, <2>1, <3>1 DEF Tidy, Has
  <2>2. CASE u # UserOf[s]
    <3>1. new.primary[u] = room.primary[u] /\ new.socks[u] = room.socks[u]
      BY <1>1, <2>2 DEF RoomObjects
    <3> QED
      BY <2>2, <3>1 DEF Tidy, Has
  <2> QED
    BY <2>1, <2>2
<1>3. ~Vacant(new)
  BY <1>0, <1>1 DEF Vacant, Has, RoomObjects
<1> QED
  BY <1>2, <1>3

(* Closing a tab while another one is open keeps a room tidy, occupied.    *)
LEMMA TidyClose ==
  ASSUME NEW room \in RoomObjects, NEW tabs \in SUBSET Sockets,
         NEW s \in Sockets, Tidy(room, tabs),
         NEW p \in room.socks[UserOf[s]] \ {s}
  PROVE  /\ Tidy(WithoutTab(room, s, p), tabs \ {s})
         /\ ~Vacant(WithoutTab(room, s, p))
<1> DEFINE new == WithoutTab(room, s, p)
<1>0. UserOf[s] \in Users /\ p # NoSocket /\ p \in Sockets
  BY PresenceAssumption DEF RoomObjects
<1>1. /\ new.primary = [room.primary EXCEPT ![UserOf[s]] = p]
      /\ new.socks = [room.socks EXCEPT ![UserOf[s]] = @ \ {s}]
  BY DEF WithoutTab
<1>2. Tidy(new, tabs \ {s})
  <2> SUFFICES ASSUME NEW u \in Users
      PROVE /\ new.socks[u] = {t \in tabs \ {s} : UserOf[t] = u}
            /\ Has(new, u) => new.primary[u] \in new.socks[u]
            /\ ~Has(new, u) => new.socks[u] = {}
    BY DEF Tidy
  <2>1. CASE u = UserOf[s]
    <3>1. new.primary[u] = p /\ new.socks[u] = room.socks[u] \ {s}
      BY <1>1, <2>1 DEF RoomObjects
    <3> QED
      BY <1>0, <2>1, <3>1 DEF Tidy, Has
  <2>2. CASE u # UserOf[s]
    <3>1. new.primary[u] = room.primary[u] /\ new.socks[u] = room.socks[u]
      BY <1>1, <2>2 DEF RoomObjects
    <3> QED
      BY <2>2, <3>1 DEF Tidy, Has
  <2> QED
    BY <2>1, <2>2
<1>3. ~Vacant(new)
  BY <1>0, <1>1 DEF Vacant, Has, RoomObjects
<1> QED
  BY <1>2, <1>3

(* Taking a user out of a room keeps it tidy.                              *)
LEMMA TidyEvict ==
  ASSUME NEW room \in RoomObjects, NEW tabs \in SUBSET Sockets,
         NEW v \in Users, Tidy(room, tabs)
  PROVE  Tidy(WithoutUser(room, v), {s \in tabs : UserOf[s] # v})
<1> DEFINE new == WithoutUser(room, v)
           left == {s \in tabs : UserOf[s] # v}
<1>1. /\ new.primary = [room.primary EXCEPT ![v] = NoSocket]
      /\ new.socks = [room.socks EXCEPT ![v] = {}]
  BY DEF WithoutUser
<1> SUFFICES ASSUME NEW u \in Users
    PROVE /\ new.socks[u] = {t \in left : UserOf[t] = u}
          /\ Has(new, u) => new.primary[u] \in new.socks[u]
          /\ ~Has(new, u) => new.socks[u] = {}
  BY DEF Tidy
<1>2. CASE u = v
  <2>1. new.primary[u] = NoSocket /\ new.socks[u] = {}
    BY <1>1, <1>2 DEF RoomObjects
  <2> QED
    BY <1>2, <2>1 DEF Has
<1>3. CASE u # v
  <2>1. new.primary[u] = room.primary[u] /\ new.socks[u] = room.socks[u]
    BY <1>1, <1>3 DEF RoomObjects
  <2> QED
    BY <1>3, <2>1 DEF Tidy, Has
<1> QED
  BY <1>2, <1>3

(* In a tidy room the sockets the eviction code collects are exactly the   *)
(* user's tabs.                                                            *)
LEMMA TidySockets ==
  ASSUME NEW room, NEW tabs, NEW u \in Users, Tidy(room, tabs)
  PROVE  SocketsOf(room, u) = {s \in tabs : UserOf[s] = u}
BY DEF Tidy, SocketsOf

----------------------------------------------------------------------------
(* The operations on the room map.                                         *)

MemoryTypes ==
  /\ obj \in [RoomIds -> RoomObjects]
  /\ live \in RoomIds \cup {NoRoom}
  /\ index \subseteq Sockets

(* Writing back a tidy room keeps the maps consistent: an empty room is    *)
(* dropped, and then nothing is indexed any more.                          *)
LEMMA StoreKeeps ==
  ASSUME MemoryTypes, live # NoRoom, NEW room \in RoomObjects,
         index' \subseteq Sockets, Tidy(room, index'), StoreOrDrop(room)
  PROVE  MemoryTypes' /\ RoomInv'
<1>1. live \in RoomIds /\ NoRoom \notin RoomIds
  BY PresenceAssumption DEF MemoryTypes
<1>2. obj' \in [RoomIds -> RoomObjects] /\ obj'[live] = room
  BY <1>1 DEF MemoryTypes, StoreOrDrop
<1>3. CASE Vacant(room)
  <2>1. live' = NoRoom
    BY <1>3 DEF StoreOrDrop
  <2>2. index' = {}
    BY <1>3, VacantIsEmpty
  <2> QED
    BY <1>2, <2>1, <2>2 DEF MemoryTypes, RoomInv
<1>4. CASE ~Vacant(room)
  <2>1. live' = live
    BY <1>4 DEF StoreOrDrop
  <2> QED
    BY <1>1, <1>2, <1>4, <2>1 DEF MemoryTypes, RoomInv
<1> QED
  BY <1>3, <1>4

(* removePlayerFromRoom keeps the maps consistent.                         *)
LEMMA EvictKeeps ==
  ASSUME MemoryTypes, RoomInv, NEW u \in Users, RemovePlayerFromRoom(u)
  PROVE  MemoryTypes' /\ RoomInv'
<1>1. CASE live = NoRoom
  BY <1>1 DEF RemovePlayerFromRoom, MemoryTypes, RoomInv
<1>2. CASE live # NoRoom
  <2> DEFINE room == obj[live]
  <2>1. room \in RoomObjects /\ Tidy(room, index) /\ index \subseteq Sockets
    BY <1>2 DEF MemoryTypes, RoomInv
  <2>2. /\ index' = index \ SocketsOf(room, u)
        /\ StoreOrDrop(WithoutUser(room, u))
    BY <1>2 DEF RemovePlayerFromRoom
  <2>3. SocketsOf(room, u) = {s \in index : UserOf[s] = u}
    BY <2>1, TidySockets
  <2>4. index' = {s \in index : UserOf[s] # u}
    BY <2>2, <2>3
  <2>5. Tidy(WithoutUser(room, u), index')
    BY <2>1, <2>4, TidyEvict
  <2>6. WithoutUser(room, u) \in RoomObjects
    BY <2>1 DEF WithoutUser, RoomObjects, Roles
  <2>7. index' \subseteq Sockets
    BY <2>1, <2>4
  <2> QED
    BY <1>2, <2>2, <2>5, <2>6, <2>7, StoreKeeps
<1> QED
  BY <1>1, <1>2

(* removeSocketFromRoom keeps the maps consistent.                         *)
LEMMA CloseKeeps ==
  ASSUME MemoryTypes, RoomInv, NEW s \in Sockets, HasCtx(s),
         RemoveSocketFromRoom(s)
  PROVE  MemoryTypes' /\ RoomInv'
<1> DEFINE room == obj[live]
           u == UserOf[s]
           rest == room.socks[u] \ {s}
<1>1. /\ live # NoRoom /\ live \in RoomIds /\ s \in index
      /\ room \in RoomObjects /\ Tidy(room, index)
      /\ index \subseteq Sockets /\ u \in Users
  BY PresenceAssumption DEF HasCtx, MemoryTypes, RoomInv
<1>2. index' = index \ {s} /\ index' \subseteq Sockets
  BY <1>1 DEF RemoveSocketFromRoom
<1>3. CASE rest # {}
  <2>1. PICK p \in rest : obj' = [obj EXCEPT ![live] = WithoutTab(@, s, p)]
                          /\ live' = live
    BY <1>3 DEF RemoveSocketFromRoom
  <2>2. p \in Sockets
    BY <1>1 DEF RoomObjects
  <2>3. WithoutTab(room, s, p) \in RoomObjects
    BY <1>1, <2>2 DEF WithoutTab, RoomObjects
  <2>4. obj' \in [RoomIds -> RoomObjects] /\ obj'[live'] = WithoutTab(room, s, p)
    BY <1>1, <2>1, <2>3 DEF MemoryTypes
  <2>5. Tidy(obj'[live'], index') /\ ~Vacant(obj'[live'])
    BY <1>1, <1>2, <2>1, <2>4, TidyClose
  <2> QED
    BY <1>1, <1>2, <2>1, <2>4, <2>5 DEF MemoryTypes, RoomInv
<1>4. CASE rest = {}
  <2>1. StoreOrDrop(WithoutUser(room, u))
    BY <1>4 DEF RemoveSocketFromRoom
  <2>2. room.socks[u] = {t \in index : UserOf[t] = u}
    BY <1>1 DEF Tidy
  <2>3. index' = {t \in index : UserOf[t] # u}
    BY <1>1, <1>2, <1>4, <2>2
  <2>4. Tidy(WithoutUser(room, u), index')
    BY <1>1, <2>3, TidyEvict
  <2>5. WithoutUser(room, u) \in RoomObjects
    BY <1>1 DEF WithoutUser, RoomObjects, Roles
  <2> QED
    BY <1>1, <1>2, <2>1, <2>4, <2>5, StoreKeeps
<1> QED
  BY <1>3, <1>4

(* handleDisconnect, whether or not the socket is known.                   *)
LEMMA DisconnectKeeps ==
  ASSUME MemoryTypes, RoomInv, NEW s \in Sockets, HandleDisconnect(s)
  PROVE  MemoryTypes' /\ RoomInv'
<1>1. CASE HasCtx(s)
  BY <1>1, CloseKeeps DEF HandleDisconnect
<1>2. CASE ~HasCtx(s)
  BY <1>2 DEF HandleDisconnect, MemoryTypes, RoomInv
<1> QED
  BY <1>1, <1>2

(* The add of session:join: into the live room or into a new one.          *)
LEMMA EnterKeeps ==
  ASSUME MemoryTypes, RoomInv, NEW s \in Sockets, joining[s] \in Roles,
         JoinEnter(s)
  PROVE  MemoryTypes' /\ RoomInv'
<1>1. /\ index \subseteq Sockets
      /\ index' = index \cup {s} /\ index' \subseteq Sockets
      /\ NoRoom \notin RoomIds
  BY PresenceAssumption DEF JoinEnter, MemoryTypes
<1>2. CASE live # NoRoom
  <2>1. /\ live \in RoomIds /\ live' = live
        /\ obj' = [obj EXCEPT ![live] = WithPlayer(@, s, joining[s])]
        /\ obj[live] \in RoomObjects /\ Tidy(obj[live], index)
    BY <1>2 DEF JoinEnter, MemoryTypes, RoomInv
  <2>2. WithPlayer(obj[live], s, joining[s]) \in RoomObjects
    BY <2>1, PresenceAssumption DEF WithPlayer, RoomObjects
  <2>3. Tidy(obj'[live], index') /\ ~Vacant(obj'[live])
    BY <1>1, <2>1, <2>2, TidyEnter DEF MemoryTypes
  <2>4. obj' \in [RoomIds -> RoomObjects]
    BY <2>1, <2>2 DEF MemoryTypes
  <2> QED
    BY <1>1, <1>2, <2>1, <2>3, <2>4 DEF MemoryTypes, RoomInv
<1>3. CASE live = NoRoom
  <2>1. PICK r \in RoomIds :
          /\ obj' = [obj EXCEPT ![r] = WithPlayer(EmptyRoom, s, joining[s])]
          /\ live' = r
    BY <1>3 DEF JoinEnter
  <2>2. index = {}
    BY <1>3 DEF RoomInv
  <2>3. EmptyRoom \in RoomObjects /\ Tidy(EmptyRoom, {})
    BY DEF EmptyRoom, RoomObjects, Roles, Tidy, Has
  <2>4. WithPlayer(EmptyRoom, s, joining[s]) \in RoomObjects
    BY <2>3, PresenceAssumption DEF WithPlayer, RoomObjects
  <2>5. obj' \in [RoomIds -> RoomObjects]
        /\ obj'[r] = WithPlayer(EmptyRoom, s, joining[s])
    BY <2>1, <2>4 DEF MemoryTypes
  <2>6. Tidy(obj'[r], {} \cup {s}) /\ ~Vacant(obj'[r])
    BY <2>3, <2>5, TidyEnter
  <2> QED
    BY <1>1, <2>1, <2>2, <2>5, <2>6 DEF MemoryTypes, RoomInv
<1> QED
  BY <1>2, <1>3

----------------------------------------------------------------------------
(* The inductive invariant.                                                *)

OtherTypes ==
  /\ conn \in [Sockets -> {"new", "up", "down"}]
  /\ joining \in [Sockets -> Roles \cup {"idle"}]
  /\ ioRoom \subseteq Sockets
  /\ sessionRow \in BOOLEAN
  /\ member \in [Users -> Roles \cup {"none"}]
  /\ req \in [Reqs -> Requests]

LEMMA TypeSplit == TypeOK <=> MemoryTypes /\ OtherTypes
BY DEF TypeOK, MemoryTypes, OtherTypes

LEMMA TypeSplitNext == TypeOK' <=> MemoryTypes' /\ OtherTypes'
BY DEF TypeOK, MemoryTypes, OtherTypes

\* A step of a request keeps the type of req.
LEMMA ReqTypes ==
  ASSUME NEW q \in Reqs, req \in [Reqs -> Requests],
         Finish(q) \/ \E stage \in Stages : GoTo(q, stage)
  PROVE  req' \in [Reqs -> Requests]
<1>1. NoReq \in Requests
  BY PresenceAssumption DEF NoReq, Requests, Kinds, Stages
<1>2. CASE Finish(q)
  BY <1>1, <1>2 DEF Finish
<1>3. CASE \E stage \in Stages : GoTo(q, stage)
  <2>1. PICK stage \in Stages : req' = [req EXCEPT ![q].stage = stage]
    BY <1>3 DEF GoTo
  <2> QED
    BY <2>1 DEF Requests
<1> QED
  BY <1>2, <1>3

LEMMA InitIInv == Init => IInv
<1> SUFFICES ASSUME Init PROVE IInv
  OBVIOUS
<1>1. NoReq \in Requests /\ EmptyRoom \in RoomObjects
  BY PresenceAssumption DEF NoReq, Requests, Kinds, Stages, EmptyRoom,
                            RoomObjects, Roles
<1>2. TypeOK
  BY <1>1 DEF Init, TypeOK, Roles
<1>3. RoomInv
  BY DEF Init, RoomInv
<1> QED
  BY <1>2, <1>3 DEF IInv

(* A step that leaves the room map alone.                                  *)
LEMMA MemoryUnchanged ==
  ASSUME MemoryTypes, RoomInv, UNCHANGED memory
  PROVE  MemoryTypes' /\ RoomInv'
BY DEF memory, MemoryTypes, RoomInv

LEMMA SocketStepIInv ==
  ASSUME IInv, NEW s \in Sockets, SocketStep(s)
  PROVE  IInv'
<1>0. MemoryTypes /\ OtherTypes /\ RoomInv
  BY TypeSplit DEF IInv
<1> SUFFICES MemoryTypes' /\ OtherTypes' /\ RoomInv'
  BY TypeSplitNext DEF IInv
<1>1. CASE Connect(s)
  <2>1. OtherTypes'
    BY <1>0, <1>1 DEF Connect, OtherTypes, database
  <2> QED
    BY <1>0, <1>1, <2>1, MemoryUnchanged DEF Connect
<1>2. CASE JoinRead(s)
  <2>1. member[UserOf[s]] \in Roles
    BY <1>0, <1>2, PresenceAssumption DEF JoinRead, OtherTypes
  <2>2. OtherTypes'
    BY <1>0, <1>2, <2>1 DEF JoinRead, OtherTypes, database
  <2> QED
    BY <1>0, <1>2, <2>2, MemoryUnchanged DEF JoinRead
<1>3. CASE JoinEnter(s)
  <2>1. joining[s] \in Roles
    BY <1>0, <1>3 DEF JoinEnter, OtherTypes
  <2>2. OtherTypes'
    BY <1>0, <1>3 DEF JoinEnter, OtherTypes, database
  <2> QED
    BY <1>0, <1>3, <2>1, <2>2, EnterKeeps
<1>4. CASE Heartbeat(s)
  <2>1. OtherTypes'
    BY <1>0, <1>4 DEF Heartbeat, OtherTypes, database
  <2>2. /\ live # NoRoom /\ live \in RoomIds /\ s \in index
        /\ obj[live] \in RoomObjects /\ Tidy(obj[live], index)
        /\ UserOf[s] \in Users
    BY <1>0, <1>4, PresenceAssumption
    DEF Heartbeat, Known, HasCtx, MemoryTypes, RoomInv
  <2>3. obj[live].socks[UserOf[s]] \cup {s} = obj[live].socks[UserOf[s]]
    BY <2>2 DEF Tidy
  <2>4. obj' = obj
    BY <1>0, <1>4, <2>2, <2>3 DEF Heartbeat, MemoryTypes, RoomObjects
  <2> QED
    BY <1>0, <1>4, <2>1, <2>4, MemoryUnchanged DEF Heartbeat, memory
<1>5. CASE Disconnect(s)
  <2>1. OtherTypes'
    BY <1>0, <1>5 DEF Disconnect, OtherTypes, database
  <2> QED
    BY <1>0, <1>5, <2>1, DisconnectKeeps DEF Disconnect
<1>6. CASE Leave(s)
  <2>1. OtherTypes'
    BY <1>0, <1>6 DEF Leave, OtherTypes, database
  <2> QED
    BY <1>0, <1>6, <2>1, DisconnectKeeps DEF Leave
<1> QED
  BY <1>1, <1>2, <1>3, <1>4, <1>5, <1>6 DEF SocketStep

LEMMA ReqStepIInv ==
  ASSUME IInv, NEW q \in Reqs, ReqStep(q)
  PROVE  IInv'
<1>0. MemoryTypes /\ OtherTypes /\ RoomInv
  BY TypeSplit DEF IInv
<1>t. /\ req \in [Reqs -> Requests] /\ req[q].target \in Users
      /\ {"idle", "asked", "checked", "written", "detached"} \subseteq Stages
  BY <1>0 DEF OtherTypes, Requests, Stages
<1> SUFFICES MemoryTypes' /\ OtherTypes' /\ RoomInv'
  BY TypeSplitNext DEF IInv
<1>1. ASSUME NEW s \in Sockets, NEW t \in Users, KickStart(q, s, t)
      PROVE  MemoryTypes' /\ OtherTypes' /\ RoomInv'
  <2>1. [kind |-> "kick", by |-> UserOf[s], target |-> t,
         stage |-> "asked", room |-> live] \in Requests
    BY <1>0, PresenceAssumption DEF MemoryTypes, Requests, Kinds, Stages
  <2>2. OtherTypes'
    BY <1>0, <1>1, <2>1 DEF KickStart, OtherTypes, Idle, database
  <2> QED
    BY <1>0, <1>1, <2>2, MemoryUnchanged DEF KickStart
<1>2. ASSUME NEW k \in Kinds, NEW u \in Users, NEW t \in Users,
             RestStart(q, k, u, t)
      PROVE  MemoryTypes' /\ OtherTypes' /\ RoomInv'
  <2>1. [kind |-> k, by |-> u, target |-> t,
         stage |-> "asked", room |-> NoRoom] \in Requests
    BY DEF Requests, Stages
  <2>2. OtherTypes'
    BY <1>0, <1>2, <2>1 DEF RestStart, OtherTypes, Idle, database
  <2> QED
    BY <1>0, <1>2, <2>2, MemoryUnchanged DEF RestStart
<1>3. CASE ReqCheck(q)
  <2>1. req' \in [Reqs -> Requests]
    BY <1>t, <1>3, ReqTypes DEF ReqCheck
  <2>2. OtherTypes'
    BY <1>0, <1>3, <2>1 DEF ReqCheck, OtherTypes, Idle, database
  <2> QED
    BY <1>0, <1>3, <2>2, MemoryUnchanged DEF ReqCheck
<1>4. CASE DeleteMembership(q)
  <2>1. req' \in [Reqs -> Requests]
    BY <1>t, <1>4, ReqTypes DEF DeleteMembership
  <2>2. OtherTypes'
    BY <1>0, <1>4, <2>1 DEF DeleteMembership, OtherTypes, Idle
  <2> QED
    BY <1>0, <1>4, <2>2, MemoryUnchanged DEF DeleteMembership
<1>5. CASE InsertMembership(q)
  <2>1. req' \in [Reqs -> Requests]
    BY <1>t, <1>5, ReqTypes DEF InsertMembership
  <2>2. OtherTypes'
    BY <1>0, <1>5, <2>1 DEF InsertMembership, OtherTypes, Idle, Roles
  <2> QED
    BY <1>0, <1>5, <2>2, MemoryUnchanged DEF InsertMembership
<1>6. CASE UpdateRole(q)
  <2>1. req' \in [Reqs -> Requests]
    BY <1>t, <1>6, ReqTypes DEF UpdateRole
  <2>2. member' \in [Users -> Roles \cup {"none"}]
    BY <1>0, <1>6 DEF UpdateRole, OtherTypes, RoleOf, Roles
  <2>3. OtherTypes'
    BY <1>0, <1>6, <2>1, <2>2 DEF UpdateRole, OtherTypes, Idle
  <2> QED
    BY <1>0, <1>6, <2>3, MemoryUnchanged DEF UpdateRole
<1>7. CASE KickEvict(q)
  <2>1. req' \in [Reqs -> Requests]
    BY <1>t, <1>7, ReqTypes DEF KickEvict
  <2>2. OtherTypes'
    BY <1>0, <1>7, <2>1 DEF KickEvict, OtherTypes, Idle, database
  <2> QED
    BY <1>0, <1>t, <1>7, <2>2, EvictKeeps DEF KickEvict
<1>8. CASE RouteEvict(q)
  <2>1. req' \in [Reqs -> Requests]
    BY <1>t, <1>8, ReqTypes DEF RouteEvict
  <2>2. OtherTypes'
    BY <1>0, <1>8, <2>1 DEF RouteEvict, OtherTypes, Idle, database
  <2> QED
    BY <1>0, <1>t, <1>8, <2>2, EvictKeeps DEF RouteEvict
<1>9. CASE SyncRole(q)
  <2>1. req' \in [Reqs -> Requests]
    BY <1>t, <1>9, ReqTypes DEF SyncRole
  <2>2. OtherTypes'
    BY <1>0, <1>9, <2>1 DEF SyncRole, OtherTypes, Idle, database
  <2>3. CASE live # NoRoom /\ Has(obj[live], req[q].target)
    <3> DEFINE t == req[q].target
               new == [obj[live] EXCEPT !.role[t] = RoleOf(req[q])]
    <3>1. /\ obj[live] \in RoomObjects /\ live \in RoomIds
          /\ Tidy(obj[live], index) /\ ~Vacant(obj[live])
      BY <1>0, <2>3 DEF MemoryTypes, RoomInv
    <3>2. new \in RoomObjects
          /\ new.primary = obj[live].primary /\ new.socks = obj[live].socks
      BY <1>t, <3>1 DEF RoomObjects, RoleOf, Roles
    <3>3. obj' \in [RoomIds -> RoomObjects] /\ obj'[live] = new
          /\ live' = live /\ index' = index
      BY <1>0, <1>9, <2>3, <3>1, <3>2 DEF SyncRole, MemoryTypes
    <3>4. Tidy(new, index) /\ ~Vacant(new)
      BY <3>1, <3>2 DEF Tidy, Vacant, Has
    <3> QED
      BY <1>0, <2>2, <2>3, <3>3, <3>4 DEF MemoryTypes, RoomInv
  <2>4. CASE ~(live # NoRoom /\ Has(obj[live], req[q].target))
    <3>1. UNCHANGED memory
      BY <1>9, <2>4 DEF SyncRole, memory
    <3> QED
      BY <1>0, <2>2, <3>1, MemoryUnchanged
  <2> QED
    BY <2>3, <2>4
<1>10. CASE Detach(q)
  <2>1. req' \in [Reqs -> Requests]
    BY <1>t, <1>10, ReqTypes DEF Detach
  <2>2. OtherTypes'
    BY <1>0, <1>10, <2>1 DEF Detach, OtherTypes, Idle, database
  <2> QED
    BY <1>0, <1>10, <2>2, MemoryUnchanged DEF Detach
<1>11. CASE DeleteRoom(q)
  <2>1. req' \in [Reqs -> Requests]
    BY <1>t, <1>11, ReqTypes DEF DeleteRoom
  <2>2. OtherTypes'
    BY <1>0, <1>11, <2>1 DEF DeleteRoom, OtherTypes, Idle, database
  <2>3. CASE live = NoRoom
    <3>1. UNCHANGED memory
      BY <1>11, <2>3 DEF DeleteRoom, memory
    <3> QED
      BY <1>0, <2>2, <3>1, MemoryUnchanged
  <2>4. CASE live # NoRoom
    <3>1. /\ index' = index \ UNION {SocketsOf(obj[live], u) : u \in Users}
          /\ live' = NoRoom /\ obj' = obj
      BY <1>11, <2>4 DEF DeleteRoom
    <3>2. Tidy(obj[live], index) /\ index \subseteq Sockets
      BY <1>0, <2>4 DEF MemoryTypes, RoomInv
    <3>3. ASSUME NEW s \in index PROVE s \in SocketsOf(obj[live], UserOf[s])
      BY <3>2, TidySockets, PresenceAssumption
    <3>4. index' = {}
      BY <3>1, <3>2, <3>3, PresenceAssumption
    <3> QED
      BY <1>0, <2>2, <3>1, <3>4 DEF MemoryTypes, RoomInv
  <2> QED
    BY <2>3, <2>4
<1>12. CASE DeleteRow(q)
  <2>1. req' \in [Reqs -> Requests]
    BY <1>t, <1>12, ReqTypes DEF DeleteRow
  <2>2. OtherTypes'
    BY <1>0, <1>12, <2>1 DEF DeleteRow, OtherTypes, Idle
  <2> QED
    BY <1>0, <1>12, <2>2, MemoryUnchanged DEF DeleteRow
<1> QED
  BY <1>1, <1>2, <1>3, <1>4, <1>5, <1>6, <1>7, <1>8, <1>9, <1>10, <1>11, <1>12
  DEF ReqStep

LEMMA NextIInv == IInv /\ [Next]_vars => IInv'
<1> SUFFICES ASSUME IInv, [Next]_vars PROVE IInv'
  OBVIOUS
<1>1. CASE \E s \in Sockets : SocketStep(s)
  BY <1>1, SocketStepIInv
<1>2. CASE \E q \in Reqs : ReqStep(q)
  BY <1>2, ReqStepIInv
<1>3. CASE UNCHANGED vars
  <2>1. TypeOK'
    BY <1>3 DEF IInv, TypeOK, vars
  <2>2. RoomInv'
    BY <1>3 DEF IInv, RoomInv, vars
  <2> QED
    BY <2>1, <2>2 DEF IInv
<1> QED
  BY <1>1, <1>2, <1>3 DEF Next

\* The live room and socketIndex describe the same tabs, and a room that nobody
\* is in is not kept (roomState.ts): the invariant behind the theorems below.
THEOREM Invariance == Spec => []IInv
BY InitIInv, NextIInv, PTL DEF Spec

----------------------------------------------------------------------------
(* What follows from the invariant.                                        *)

(* Every reachable state of the presence code has the types of TypeOK: in  *)
(* particular no player entry survives with a role or socket of nobody.    *)
THEOREM TypeCorrect == Spec => []TypeOK
<1>1. IInv => TypeOK
  BY DEF IInv
<1> QED
  BY <1>1, Invariance, PTL

(* socketIndex and the live room agree (addPlayerToRoom,                   *)
(* removeSocketFromRoom, removePlayerFromRoom, deleteRoom and every await  *)
(* between them).                                                          *)
THEOREM IndexConsistent == Spec => []IndexMatchesRoom
<1>1. IInv => IndexMatchesRoom
  <2> SUFFICES ASSUME IInv PROVE IndexMatchesRoom
    OBVIOUS
  <2>1. RoomInv
    BY DEF IInv
  <2> QED
    BY <2>1 DEF RoomInv, IndexMatchesRoom, Tidy
<1> QED
  BY <1>1, Invariance, PTL

(* The primary socket of a present user is one of their tracked tabs.      *)
THEOREM PrimaryTracked == Spec => []PrimaryIsTracked
<1>1. IInv => PrimaryIsTracked
  BY DEF IInv, RoomInv, PrimaryIsTracked, Tidy
<1> QED
  BY <1>1, Invariance, PTL

(* No empty room stays in the rooms map.                                   *)
THEOREM LiveOccupied == Spec => []LiveRoomIsOccupied
<1>1. IInv => LiveRoomIsOccupied
  BY DEF IInv, RoomInv, LiveRoomIsOccupied
<1> QED
  BY <1>1, Invariance, PTL

----------------------------------------------------------------------------
(* Subscriptions.  A kick collects the sockets to unsubscribe from a room  *)
(* object it found two queries ago.  That this cannot silence a socket     *)
(* that stays tracked needs a fact about every room object, stale ones     *)
(* included: what it holds under a user belongs to that user.              *)

OwnSockets ==
  \A r \in RoomIds, u \in Users :
    \A s \in SocketsOf(obj[r], u) : UserOf[s] = u

\* The fact for one room.
Own(room) == \A u \in Users : \A s \in SocketsOf(room, u) : UserOf[s] = u

LEMMA OwnOperations ==
  ASSUME NEW room \in RoomObjects, Own(room), NEW s \in Sockets, NEW u \in Users,
         NEW r \in Roles
  PROVE  /\ Own(WithPlayer(room, s, r))
         /\ \A p \in room.socks[UserOf[s]] : Own(WithoutTab(room, s, p))
         /\ Own(WithoutUser(room, u))
         /\ Own(EmptyRoom)
<1>0. UserOf[s] \in Users
  BY PresenceAssumption
<1>1. Own(WithPlayer(room, s, r))
  <2> DEFINE new == WithPlayer(room, s, r)
  <2> SUFFICES ASSUME NEW v \in Users, NEW x \in SocketsOf(new, v)
               PROVE  UserOf[x] = v
    BY DEF Own
  <2>1. (x = s /\ v = UserOf[s]) \/ x \in SocketsOf(room, v)
    BY <1>0 DEF WithPlayer, RoomObjects, SocketsOf, Has
  <2> QED
    BY <2>1 DEF Own
<1>2. ASSUME NEW p \in room.socks[UserOf[s]] PROVE Own(WithoutTab(room, s, p))
  <2> DEFINE new == WithoutTab(room, s, p)
  <2> SUFFICES ASSUME NEW v \in Users, NEW x \in SocketsOf(new, v)
               PROVE  UserOf[x] = v
    BY DEF Own
  <2>1. x \in SocketsOf(room, v)
    BY <1>0 DEF WithoutTab, RoomObjects, SocketsOf, Has
  <2> QED
    BY <2>1 DEF Own
<1>3. Own(WithoutUser(room, u))
  <2> DEFINE new == WithoutUser(room, u)
  <2> SUFFICES ASSUME NEW v \in Users, NEW x \in SocketsOf(new, v)
               PROVE  UserOf[x] = v
    BY DEF Own
  <2>1. x \in SocketsOf(room, v)
    BY DEF WithoutUser, RoomObjects, SocketsOf, Has
  <2> QED
    BY <2>1 DEF Own
<1>4. Own(EmptyRoom)
  BY DEF Own, EmptyRoom, SocketsOf, Has
<1> QED
  BY <1>1, <1>2, <1>3, <1>4

LEMMA StoreOwn ==
  ASSUME MemoryTypes, OwnSockets, live # NoRoom, NEW room, Own(room),
         StoreOrDrop(room)
  PROVE  OwnSockets'
BY DEF StoreOrDrop, MemoryTypes, OwnSockets, Own

LEMMA EvictOwn ==
  ASSUME MemoryTypes, OwnSockets, NEW u \in Users, RemovePlayerFromRoom(u)
  PROVE  OwnSockets'
<1>1. CASE live = NoRoom
  BY <1>1 DEF RemovePlayerFromRoom, OwnSockets
<1>2. CASE live # NoRoom
  <2>1. obj[live] \in RoomObjects /\ Own(obj[live])
    BY <1>2 DEF MemoryTypes, OwnSockets, Own
  <2>2. Own(WithoutUser(obj[live], u))
    <3> SUFFICES ASSUME NEW v \in Users,
                        NEW x \in SocketsOf(WithoutUser(obj[live], u), v)
                 PROVE  UserOf[x] = v
      BY DEF Own
    <3>1. x \in SocketsOf(obj[live], v)
      BY <2>1 DEF WithoutUser, RoomObjects, SocketsOf, Has
    <3> QED
      BY <2>1, <3>1 DEF Own
  <2> QED
    BY <1>2, <2>2, StoreOwn DEF RemovePlayerFromRoom
<1> QED
  BY <1>1, <1>2

LEMMA DisconnectOwn ==
  ASSUME MemoryTypes, OwnSockets, NEW s \in Sockets, HandleDisconnect(s)
  PROVE  OwnSockets'
<1>1. CASE ~HasCtx(s)
  BY <1>1 DEF HandleDisconnect, OwnSockets
<1>2. CASE HasCtx(s)
  <2> DEFINE u == UserOf[s]
             rest == obj[live].socks[u] \ {s}
  <2>1. /\ live # NoRoom /\ live \in RoomIds /\ RemoveSocketFromRoom(s)
        /\ obj[live] \in RoomObjects /\ Own(obj[live]) /\ u \in Users
    BY <1>2, PresenceAssumption
    DEF HandleDisconnect, HasCtx, MemoryTypes, OwnSockets, Own
  <2>2. "player" \in Roles
    BY DEF Roles
  <2>3. CASE rest = {}
    <3>1. Own(WithoutUser(obj[live], u))
      BY <2>1, <2>2, OwnOperations
    <3> QED
      BY <2>1, <2>3, <3>1, StoreOwn DEF RemoveSocketFromRoom
  <2>4. CASE rest # {}
    <3>1. PICK p \in rest : obj' = [obj EXCEPT ![live] = WithoutTab(@, s, p)]
      BY <2>1, <2>4 DEF RemoveSocketFromRoom
    <3>2. Own(WithoutTab(obj[live], s, p))
      BY <2>1, <2>2, OwnOperations
    <3> QED
      BY <2>1, <3>1, <3>2 DEF MemoryTypes, OwnSockets, Own
  <2> QED
    BY <2>3, <2>4
<1> QED
  BY <1>1, <1>2

LEMMA InitOwn == Init => OwnSockets
BY DEF Init, OwnSockets, EmptyRoom, SocketsOf, Has

LEMMA NextOwn == IInv /\ OwnSockets /\ [Next]_vars => OwnSockets'
<1> SUFFICES ASSUME IInv, OwnSockets, [Next]_vars PROVE OwnSockets'
  OBVIOUS
<1>0. MemoryTypes /\ OtherTypes /\ RoomInv
  BY TypeSplit DEF IInv
<1>1. CASE UNCHANGED obj
  BY <1>1 DEF OwnSockets
<1>2. ASSUME NEW s \in Sockets, JoinEnter(s) PROVE OwnSockets'
  <2>1. joining[s] \in Roles
    BY <1>0, <1>2 DEF JoinEnter, OtherTypes
  <2>2. PICK r \in RoomIds, room \in RoomObjects :
          Own(room) /\ obj' = [obj EXCEPT ![r] = WithPlayer(room, s, joining[s])]
    <3>1. CASE live # NoRoom
      BY <1>0, <1>2, <3>1 DEF JoinEnter, MemoryTypes, OwnSockets, Own
    <3>2. CASE live = NoRoom
      <4>1. EmptyRoom \in RoomObjects /\ Own(EmptyRoom)
        BY DEF EmptyRoom, RoomObjects, Roles, Own, SocketsOf, Has
      <4> QED
        BY <1>2, <3>2, <4>1 DEF JoinEnter
    <3> QED
      BY <3>1, <3>2
  <2>3. UserOf[s] \in Users
    BY PresenceAssumption
  <2>4. Own(WithPlayer(room, s, joining[s]))
    BY <2>1, <2>2, <2>3, OwnOperations
  <2> QED
    BY <1>0, <2>2, <2>4 DEF MemoryTypes, OwnSockets, Own
<1>3. ASSUME NEW s \in Sockets, Heartbeat(s) PROVE OwnSockets'
  <2>1. /\ live \in RoomIds /\ obj[live] \in RoomObjects /\ s \in index
        /\ Tidy(obj[live], index) /\ UserOf[s] \in Users
        /\ obj' = [obj EXCEPT ![live].socks[UserOf[s]] = @ \cup {s}]
    BY <1>0, <1>3, PresenceAssumption
    DEF Heartbeat, Known, HasCtx, MemoryTypes, RoomInv
  <2>2. obj[live].socks[UserOf[s]] \cup {s} = obj[live].socks[UserOf[s]]
    BY <2>1 DEF Tidy
  <2>3. obj' = obj
    BY <1>0, <2>1, <2>2 DEF MemoryTypes, RoomObjects
  <2> QED
    BY <2>3, <1>1
<1>4. ASSUME NEW s \in Sockets, Disconnect(s) \/ Leave(s) PROVE OwnSockets'
  BY <1>0, <1>4, DisconnectOwn DEF Disconnect, Leave
<1>5. ASSUME NEW q \in Reqs, KickEvict(q) \/ RouteEvict(q) PROVE OwnSockets'
  <2>1. req[q].target \in Users
    BY <1>0 DEF OtherTypes, Requests
  <2> QED
    BY <1>0, <1>5, <2>1, EvictOwn DEF KickEvict, RouteEvict
<1>6. ASSUME NEW q \in Reqs, SyncRole(q) PROVE OwnSockets'
  <2> DEFINE t == req[q].target
  <2>1. CASE live # NoRoom /\ Has(obj[live], t)
    <3>1. live \in RoomIds /\ obj[live] \in RoomObjects
          /\ obj' = [obj EXCEPT ![live].role[t] = RoleOf(req[q])]
      BY <1>0, <1>6, <2>1 DEF SyncRole, MemoryTypes
    <3>2. \A r \in RoomIds : obj'[r].primary = obj[r].primary
                              /\ obj'[r].socks = obj[r].socks
      BY <1>0, <3>1 DEF MemoryTypes, RoomObjects
    <3> QED
      BY <3>2 DEF OwnSockets, SocketsOf, Has
  <2>2. CASE ~(live # NoRoom /\ Has(obj[live], t))
    BY <1>1, <1>6, <2>2 DEF SyncRole
  <2> QED
    BY <2>1, <2>2
<1>7. ASSUME NEW s \in Sockets, Connect(s) \/ JoinRead(s) PROVE UNCHANGED obj
  BY <1>7 DEF Connect, JoinRead, memory
<1>8. ASSUME NEW q \in Reqs,
             \/ \E s \in Sockets, t \in Users : KickStart(q, s, t)
             \/ \E k \in Kinds, u, t \in Users : RestStart(q, k, u, t)
             \/ ReqCheck(q) \/ DeleteMembership(q) \/ InsertMembership(q)
             \/ UpdateRole(q) \/ Detach(q) \/ DeleteRoom(q) \/ DeleteRow(q)
      PROVE  UNCHANGED obj
  BY <1>8 DEF KickStart, RestStart, ReqCheck, DeleteMembership, InsertMembership,
     UpdateRole, Detach, DeleteRoom, DeleteRow, memory
<1>9. CASE UNCHANGED vars
  BY <1>1, <1>9 DEF vars
<1>10. ASSUME NEW s \in Sockets, SocketStep(s) PROVE OwnSockets'
  BY <1>1, <1>2, <1>3, <1>4, <1>7, <1>10 DEF SocketStep
<1>11. ASSUME NEW q \in Reqs, ReqStep(q) PROVE OwnSockets'
  BY <1>1, <1>5, <1>6, <1>8, <1>11 DEF ReqStep
<1> QED
  BY <1>9, <1>10, <1>11 DEF Next

\* A socket is unknown to the room code until its transport has come up.
NewIsUnknown ==
  \A s \in Sockets : conn[s] = "new" => s \notin index /\ joining[s] = "idle"

LEMMA NextNew == IInv /\ NewIsUnknown /\ [Next]_vars => NewIsUnknown'
<1> SUFFICES ASSUME IInv, NewIsUnknown, [Next]_vars,
                    NEW x \in Sockets, conn'[x] = "new"
             PROVE  x \notin index' /\ joining'[x] = "idle"
  BY DEF NewIsUnknown
<1>0. MemoryTypes /\ OtherTypes
  BY TypeSplit DEF IInv
<1>1. CASE UNCHANGED vars
  BY <1>1 DEF vars, NewIsUnknown
<1>2. ASSUME NEW s \in Sockets, SocketStep(s)
      PROVE  x \notin index' /\ joining'[x] = "idle"
  <2>1. conn[x] = "new" /\ x \notin index /\ joining[x] = "idle"
    BY <1>0, <1>2 DEF SocketStep, Connect, JoinRead, JoinEnter, Heartbeat,
       Disconnect, Leave, OtherTypes, NewIsUnknown
  <2>2. CASE Connect(s) \/ Heartbeat(s)
    BY <2>1, <2>2 DEF Connect, Heartbeat, memory
  <2>3. CASE JoinRead(s)
    BY <1>0, <2>1, <2>3 DEF JoinRead, memory, OtherTypes
  <2>4. CASE JoinEnter(s)
    BY <1>0, <2>1, <2>4 DEF JoinEnter, OtherTypes
  <2>5. CASE Disconnect(s) \/ Leave(s)
    <3>1. HandleDisconnect(s) /\ joining' = joining
      BY <2>5 DEF Disconnect, Leave
    <3>2. index' \subseteq index
      BY <3>1 DEF HandleDisconnect, RemoveSocketFromRoom
    <3> QED
      BY <2>1, <3>1, <3>2
  <2> QED
    BY <1>2, <2>2, <2>3, <2>4, <2>5 DEF SocketStep
<1>3. ASSUME NEW q \in Reqs, ReqStep(q)
      PROVE  x \notin index' /\ joining'[x] = "idle"
  <2>1. conn' = conn /\ joining' = joining
    BY <1>3 DEF ReqStep, KickStart, RestStart, ReqCheck, DeleteMembership,
       InsertMembership, UpdateRole, KickEvict, RouteEvict, SyncRole, Detach,
       DeleteRoom, DeleteRow, Idle
  <2>2. index' \subseteq index
    BY <1>3 DEF ReqStep, KickStart, RestStart, ReqCheck, DeleteMembership,
       InsertMembership, UpdateRole, KickEvict, RouteEvict, SyncRole, Detach,
       DeleteRoom, DeleteRow, memory, RemovePlayerFromRoom
  <2> QED
    BY <2>1, <2>2 DEF NewIsUnknown
<1> QED
  BY <1>1, <1>2, <1>3 DEF Next

\* A kick in flight holds the room object it started from.
KickHoldsRoom ==
  \A q \in Reqs :
    req[q].kind = "kick" /\ req[q].stage # "idle" => req[q].room \in RoomIds

LEMMA NextKick == IInv /\ KickHoldsRoom /\ [Next]_vars => KickHoldsRoom'
<1> SUFFICES ASSUME IInv, KickHoldsRoom, [Next]_vars, NEW p \in Reqs,
                    req'[p].kind = "kick", req'[p].stage # "idle"
             PROVE  req'[p].room \in RoomIds
  BY DEF KickHoldsRoom
<1>0. MemoryTypes /\ req \in [Reqs -> Requests]
  BY TypeSplit DEF IInv, OtherTypes
<1>1. CASE UNCHANGED req
  BY <1>1 DEF KickHoldsRoom
<1>2. CASE UNCHANGED vars
  BY <1>1, <1>2 DEF vars
<1>3. ASSUME NEW s \in Sockets, SocketStep(s) PROVE UNCHANGED req
  BY <1>3 DEF SocketStep, Connect, JoinRead, JoinEnter, Heartbeat, Disconnect,
     Leave
<1>4. ASSUME NEW q \in Reqs, ReqStep(q) PROVE req'[p].room \in RoomIds
  <2>1. ASSUME Finish(q) PROVE req'[p].room \in RoomIds
    <3>1. p # q
      BY <1>0, <2>1 DEF Finish, NoReq
    <3> QED
      BY <1>0, <2>1, <3>1 DEF Finish, KickHoldsRoom
  <2>2. ASSUME NEW stage, GoTo(q, stage), ~At(q, "idle")
        PROVE  req'[p].room \in RoomIds
    BY <1>0, <2>2 DEF GoTo, At, KickHoldsRoom, Requests
  <2>3. ASSUME NEW s \in Sockets, NEW t \in Users, KickStart(q, s, t)
        PROVE  req'[p].room \in RoomIds
    <3>1. live \in RoomIds
      BY <1>0, <2>3 DEF KickStart, HasCtx, MemoryTypes
    <3> QED
      BY <1>0, <2>3, <3>1 DEF KickStart, KickHoldsRoom
  <2>4. ASSUME NEW k \in Kinds, NEW u \in Users, NEW t \in Users,
               RestStart(q, k, u, t)
        PROVE  req'[p].room \in RoomIds
    BY <1>0, <2>4 DEF RestStart, KickHoldsRoom
  <2>5. CASE ReqCheck(q) \/ UpdateRole(q)
    BY <2>1, <2>2, <2>5 DEF ReqCheck, UpdateRole, At
  <2>6. CASE DeleteMembership(q) \/ Detach(q) \/ DeleteRoom(q)
    BY <2>2, <2>6 DEF DeleteMembership, Detach, DeleteRoom, At
  <2>7. CASE \/ InsertMembership(q) \/ KickEvict(q) \/ RouteEvict(q)
             \/ SyncRole(q) \/ DeleteRow(q)
    BY <2>1, <2>7 DEF InsertMembership, KickEvict, RouteEvict, SyncRole, DeleteRow
  <2> QED
    BY <1>4, <2>3, <2>4, <2>5, <2>6, <2>7 DEF ReqStep
<1> QED
  BY <1>1, <1>2, <1>3, <1>4 DEF Next

SubInv ==
  OwnSockets /\ NewIsUnknown /\ KickHoldsRoom /\ TrackedIsSubscribed

\* Evicting a user drops from the index every socket that may lose its
\* subscription on the way.
LEMMA EvictSubscribed ==
  ASSUME IInv, SubInv, NEW u \in Users, RemovePlayerFromRoom(u),
         NEW x \in index', live' # NoRoom
  PROVE  live # NoRoom /\ x \in index /\ UserOf[x] # u
<1>1. MemoryTypes /\ RoomInv
  BY TypeSplit DEF IInv
<1>2. live # NoRoom
  BY DEF RemovePlayerFromRoom
<1>3. SocketsOf(obj[live], u) = {s \in index : UserOf[s] = u}
  BY <1>1, <1>2, TidySockets DEF RoomInv
<1> QED
  BY <1>2, <1>3 DEF RemovePlayerFromRoom

LEMMA NextSubscribed == IInv /\ SubInv /\ [Next]_vars => TrackedIsSubscribed'
<1> SUFFICES ASSUME IInv, SubInv, [Next]_vars, live' # NoRoom,
                    ~DeletionInProgress',
                    NEW x \in index', conn'[x] = "up"
             PROVE  x \in ioRoom'
  BY DEF TrackedIsSubscribed
<1>0. MemoryTypes /\ OtherTypes /\ RoomInv
  BY TypeSplit DEF IInv
<1>1. ASSUME live # NoRoom, ~DeletionInProgress, x \in index, conn[x] = "up"
      PROVE  x \in ioRoom
  BY <1>1 DEF SubInv, TrackedIsSubscribed
<1>2. x \in index => live # NoRoom
  BY <1>0 DEF RoomInv
<1>3. CASE UNCHANGED vars
  BY <1>1, <1>2, <1>3 DEF vars, DeletionInProgress
<1>4. ASSUME NEW s \in Sockets, SocketStep(s) PROVE x \in ioRoom'
  <2>1. ~DeletionInProgress
    BY <1>4 DEF SocketStep, Connect, JoinRead, JoinEnter, Heartbeat,
       Disconnect, Leave, DeletionInProgress
  <2>2. CASE Connect(s)
    BY <1>0, <1>1, <1>2, <2>1, <2>2
    DEF Connect, memory, SubInv, NewIsUnknown, OtherTypes
  <2>3. CASE JoinRead(s)
    BY <1>1, <1>2, <2>1, <2>3 DEF JoinRead, memory
  <2>4. CASE JoinEnter(s)
    BY <1>1, <1>2, <2>1, <2>4 DEF JoinEnter
  <2>5. CASE Heartbeat(s)
    BY <1>1, <1>2, <2>1, <2>5 DEF Heartbeat
  <2>6. CASE Disconnect(s)
    <3>1. x \in index /\ x # s
      BY <1>0, <2>6
      DEF Disconnect, HandleDisconnect, RemoveSocketFromRoom, OtherTypes
    <3> QED
      BY <1>0, <1>1, <1>2, <2>1, <2>6, <3>1 DEF Disconnect, OtherTypes
  <2>7. CASE Leave(s)
    <3>1. x \in index /\ (HasCtx(s) => x # s)
      BY <2>7 DEF Leave, HandleDisconnect, RemoveSocketFromRoom
    <3> QED
      BY <1>1, <1>2, <2>1, <2>7, <3>1 DEF Leave
  <2> QED
    BY <1>4, <2>2, <2>3, <2>4, <2>5, <2>6, <2>7 DEF SocketStep
<1>5. ASSUME NEW q \in Reqs, ReqStep(q) PROVE x \in ioRoom'
  <2>0. /\ req \in [Reqs -> Requests] /\ req[q].target \in Users
        /\ conn' = conn
    BY <1>0, <1>5 DEF OtherTypes, Requests, ReqStep, KickStart, RestStart,
       ReqCheck, DeleteMembership, InsertMembership, UpdateRole, KickEvict,
       RouteEvict, SyncRole, Detach, DeleteRoom, DeleteRow, Idle
  <2>1. CASE DeleteRoom(q)
    BY <2>1 DEF DeleteRoom
  <2>2. CASE ~DeleteRoom(q)
    <3>1. ~DeletionInProgress
      <4> SUFFICES ASSUME NEW p \in Reqs, req[p].kind = "delete",
                          req[p].stage = "detached"
                   PROVE  FALSE
        BY DEF DeletionInProgress
      <4>1. CASE p = q
        BY <1>5, <2>2, <4>1 DEF ReqStep, KickStart, RestStart, ReqCheck,
           DeleteMembership, InsertMembership, UpdateRole, KickEvict,
           RouteEvict, SyncRole, Detach, DeleteRow, At
      <4>2. CASE p # q
        <5>1. req'[p] = req[p]
          BY <1>5, <2>0, <2>2, <4>2 DEF ReqStep, KickStart, RestStart, ReqCheck,
             DeleteMembership, InsertMembership, UpdateRole, KickEvict,
             RouteEvict, SyncRole, Detach, DeleteRow, GoTo, Finish
        <5> QED
          BY <5>1 DEF DeletionInProgress
      <4> QED
        BY <4>1, <4>2
    <3>2. CASE KickEvict(q)
      <4>1. x \in index /\ UserOf[x] # req[q].target
        BY <2>0, <3>2, EvictSubscribed DEF KickEvict
      <4>2. x \notin SocketsOf(obj[req[q].room], req[q].target)
        <5>1. req[q].room \in RoomIds
          BY <3>2 DEF SubInv, KickHoldsRoom, KickEvict, At
        <5> QED
          BY <2>0, <4>1, <5>1 DEF SubInv, OwnSockets
      <4> QED
        BY <1>1, <1>2, <2>0, <3>1, <3>2, <4>1, <4>2 DEF KickEvict
    <3>3. CASE RouteEvict(q)
      <4>1. x \in index /\ UserOf[x] # req[q].target /\ live # NoRoom
        BY <2>0, <3>3, EvictSubscribed DEF RouteEvict
      <4>2. x \notin SocketsOf(obj[live], req[q].target)
        BY <1>0, <2>0, <4>1 DEF SubInv, OwnSockets, MemoryTypes
      <4> QED
        BY <1>1, <1>2, <2>0, <3>1, <3>3, <4>1, <4>2 DEF RouteEvict
    <3>4. CASE Detach(q)
      <4>1. At(q, "checked") /\ req[q].kind = "delete" /\ live = live'
            /\ (live # NoRoom => req'[q].stage = "detached")
            /\ req'[q].kind = "delete"
        BY <2>0, <3>4 DEF Detach, GoTo, memory, Requests
      <4> QED
        BY <4>1 DEF DeletionInProgress
    <3>5. CASE ~(KickEvict(q) \/ RouteEvict(q) \/ Detach(q))
      <4>1. index' = index /\ ioRoom' = ioRoom
        BY <1>5, <2>2, <3>5 DEF ReqStep, KickStart, RestStart, ReqCheck,
           DeleteMembership, InsertMembership, UpdateRole, SyncRole,
           DeleteRow, memory
      <4> QED
        BY <1>1, <1>2, <2>0, <3>1, <4>1
    <3> QED
      BY <3>2, <3>3, <3>4, <3>5
  <2> QED
    BY <2>1, <2>2
<1> QED
  BY <1>3, <1>4, <1>5 DEF Next

LEMMA InitSub == Init => SubInv
<1>1. Init => OwnSockets
  BY InitOwn
<1>2. Init => NewIsUnknown /\ KickHoldsRoom /\ TrackedIsSubscribed
  BY DEF Init, NewIsUnknown, KickHoldsRoom, TrackedIsSubscribed, NoReq
<1> QED
  BY <1>1, <1>2 DEF SubInv

(* A connected tab that the room tracks hears the room's broadcasts, even  *)
(* though a kick unsubscribes sockets it collected from a room object that *)
(* may have been replaced since (session:kick, the ban, leave and delete   *)
(* routes, session:join and the heartbeat).                                *)
THEOREM Subscribed == Spec => []TrackedIsSubscribed
<1>1. IInv /\ SubInv /\ [Next]_vars => SubInv'
  BY NextOwn, NextNew, NextKick, NextSubscribed DEF SubInv
<1>2. SubInv => TrackedIsSubscribed
  BY DEF SubInv
<1> QED
  BY <1>1, <1>2, InitSub, Invariance, PTL DEF Spec
----------------------------------------------------------------------------
(* Presence is a function of the set of tracked tabs.                      *)

Follows ==
  /\ index \subseteq Sockets
  /\ {u \in Users : Present(u)} = {UserOf[s] : s \in index}
  /\ (live # NoRoom) = (index # {})

LEMMA PresenceFollows == IInv => Follows
<1> SUFFICES ASSUME IInv PROVE Follows
  OBVIOUS
<1>1. /\ index \subseteq Sockets /\ UserOf \in [Sockets -> Users]
      /\ live = NoRoom => index = {}
      /\ live # NoRoom => Tidy(obj[live], index) /\ ~Vacant(obj[live])
  BY PresenceAssumption DEF IInv, TypeOK, RoomInv
<1>2. CASE live = NoRoom
  BY <1>1, <1>2 DEF Follows, Present
<1>3. CASE live # NoRoom
  <2>1. ASSUME NEW u \in Users
        PROVE  Present(u) <=> \E s \in index : UserOf[s] = u
    BY <1>1, <1>3 DEF Present, Tidy
  <2>2. {u \in Users : Present(u)} = {UserOf[s] : s \in index}
    BY <1>1, <2>1
  <2>3. PICK u \in Users : Present(u)
    BY <1>1, <1>3 DEF Vacant, Present
  <2>4. index # {}
    BY <2>1, <2>3
  <2> QED
    BY <1>1, <1>3, <2>2, <2>4 DEF Follows
<1> QED
  BY <1>2, <1>3

LEMMA PresenceFollowsNext == IInv' => Follows'
BY PresenceFollows, PTL

\* What a step may do to the set of tabs.
TabEnters(s) == index' = index \cup {s}
TabCloses(s) == s \in index /\ index' = index \ {s}
UserEvicted(u) == index' = {s \in index : UserOf[s] # u}

LEMMA SocketStepTabs ==
  ASSUME IInv, NEW s \in Sockets, SocketStep(s)
  PROVE  index' = index \/ TabEnters(s) \/ TabCloses(s)
<1>1. HandleDisconnect(s) => index' = index \/ TabCloses(s)
  BY DEF HandleDisconnect, HasCtx, RemoveSocketFromRoom, TabCloses
<1> QED
  BY <1>1 DEF SocketStep, Connect, JoinRead, JoinEnter, Heartbeat, Disconnect, Leave, memory, TabEnters

LEMMA EvictedTabs ==
  ASSUME IInv, NEW u \in Users, RemovePlayerFromRoom(u)
  PROVE  UserEvicted(u)
<1>1. CASE live = NoRoom
  BY <1>1 DEF IInv, RoomInv, RemovePlayerFromRoom, UserEvicted
<1>2. CASE live # NoRoom
  <2>1. Tidy(obj[live], index)
    BY <1>2 DEF IInv, RoomInv
  <2>2. SocketsOf(obj[live], u) = {s \in index : UserOf[s] = u}
    BY <2>1 DEF Tidy, SocketsOf
  <2> QED
    BY <1>2, <2>2 DEF RemovePlayerFromRoom, UserEvicted
<1> QED
  BY <1>1, <1>2

LEMMA ReqStepTabs ==
  ASSUME IInv, NEW q \in Reqs, ReqStep(q)
  PROVE  \/ index' = index
         \/ req' # req /\ \/ \E u \in Users : UserEvicted(u)
                          \/ index' = {}
<1>1. req \in [Reqs -> Requests]
  BY DEF IInv, TypeOK
<1>2. req[q].target \in Users
  BY <1>1 DEF Requests
<1>3. ASSUME At(q, "written"), Finish(q) PROVE req' # req
  BY <1>1, <1>3 DEF At, Finish, NoReq
<1>4. CASE KickEvict(q) \/ RouteEvict(q)
  <2>1. At(q, "written") /\ Finish(q) /\ RemovePlayerFromRoom(req[q].target)
    BY <1>4 DEF KickEvict, RouteEvict
  <2>2. PICK t \in Users : t = req[q].target
    BY <1>2
  <2> QED
    BY <1>3, <2>1, <2>2, EvictedTabs
<1>5. CASE DeleteRoom(q)
  <2>1. req'[q].stage = "written" /\ req[q].stage = "detached"
    BY <1>1, <1>5 DEF DeleteRoom, At, GoTo, Requests
  <2>2. CASE live = NoRoom
    BY <1>5, <2>2 DEF DeleteRoom
  <2>3. CASE live # NoRoom
    <3>1. Tidy(obj[live], index) /\ UserOf \in [Sockets -> Users] /\ index \subseteq Sockets
      BY <2>3, PresenceAssumption DEF IInv, RoomInv, TypeOK
    <3>2. \A s \in index : s \in SocketsOf(obj[live], UserOf[s])
      BY <3>1 DEF Tidy, SocketsOf
    <3>3. index \subseteq UNION {SocketsOf(obj[live], u) : u \in Users}
      BY <3>1, <3>2
    <3>4. index' = {}
      BY <1>5, <2>3, <3>3 DEF DeleteRoom
    <3> QED
      BY <2>1, <3>4
  <2> QED
    BY <2>2, <2>3
<1>6. CASE ~(KickEvict(q) \/ RouteEvict(q) \/ DeleteRoom(q))
  BY <1>6 DEF ReqStep, KickStart, RestStart, ReqCheck, DeleteMembership, InsertMembership,
     UpdateRole, SyncRole, Detach, DeleteRow, memory
<1> QED
  BY <1>4, <1>5, <1>6

(* Closing one tab never takes a user out of the room while another tab of *)
(* theirs is tracked: only the close of the last tab does, or a request of *)
(* an administrator.                                                       *)
THEOREM LeavesWithLastTab == Spec => UserLeavesWithLastTab
<1> DEFINE Leaves(u) == Present(u) /\ ~Present(u)'
           Last(u) == \E s \in index : index' = index \ {s} /\ obj[live].socks[u] = {s}
<1>1. ASSUME IInv, IInv', [Next]_vars, NEW u \in Users, Leaves(u), req' = req
      PROVE  Last(u)
  <2>1. /\ {x \in Users : Present(x)} = {UserOf[s] : s \in index}
        /\ {x \in Users : Present(x)'} = {UserOf[s] : s \in index'}
    BY <1>1, PresenceFollows, PresenceFollowsNext DEF Follows
  <2>2. u \in {UserOf[s] : s \in index} /\ u \notin {UserOf[s] : s \in index'}
    BY <1>1, <2>1
  <2>3. index' # index
    BY <2>2
  <2>4. PICK s \in Sockets : TabEnters(s) \/ TabCloses(s)
    <3>1. CASE \E s \in Sockets : SocketStep(s)
      BY <1>1, <2>3, <3>1, SocketStepTabs
    <3>2. CASE \E q \in Reqs : ReqStep(q)
      BY <1>1, <2>3, <3>2, ReqStepTabs
    <3>3. CASE UNCHANGED vars
      BY <2>3, <3>3 DEF vars
    <3> QED
      BY <1>1, <3>1, <3>2, <3>3 DEF Next
  <2>5. s \in index /\ index' = index \ {s}
    BY <2>2, <2>4 DEF TabEnters, TabCloses
  <2>6. {x \in index : UserOf[x] = u} = {s}
    BY <2>2, <2>5
  <2>7. live # NoRoom /\ Tidy(obj[live], index)
    BY <1>1 DEF Present, IInv, RoomInv
  <2> QED
    BY <2>5, <2>6, <2>7 DEF Tidy
<1>2. IInv /\ IInv' /\ [Next]_vars =>
        [\A u \in Users :
           (Present(u) /\ ~Present(u)') =>
             \/ req' # req
             \/ \E s \in index : index' = index \ {s} /\ obj[live].socks[u] = {s}]_vars
  BY <1>1
<1> QED
  BY <1>2, Invariance, PTL DEF Spec, UserLeavesWithLastTab

(* The room state implements Presence: from one tab set, who is online and *)
(* whether the room exists follow, and every step of every handler enters  *)
(* a tab, closes one, evicts a user, tears the room down or changes        *)
(* nothing of the three.                                                   *)
THEOREM RoomImplementsPresence == Spec => ImplementsPresence
<1>1. Init => Rooms!Init
  BY DEF Init, Rooms!Init, Present
<1>2. ASSUME IInv, IInv', [Next]_vars
      PROVE  [Rooms!Next]_(Rooms!pvars)
  <2>1. Follows /\ Follows'
    BY <1>2, PresenceFollows, PresenceFollowsNext
  <2>2. ASSUME NEW tabs, index' = tabs PROVE Rooms!Becomes(tabs)
    BY <2>1, <2>2 DEF Follows, Rooms!Becomes
  <2>3. CASE index' = index
    BY <2>1, <2>3 DEF Follows, Rooms!pvars
  <2>4. ASSUME NEW s \in Sockets, TabEnters(s) PROVE Rooms!Next
    BY <2>2, <2>4 DEF TabEnters, Rooms!Next, Rooms!Enter
  <2>5. ASSUME NEW s \in Sockets, TabCloses(s) PROVE Rooms!Next
    BY <2>2, <2>5 DEF TabCloses, Rooms!Next, Rooms!Close
  <2>6. ASSUME NEW u \in Users, UserEvicted(u) PROVE Rooms!Next
    BY <2>2, <2>6 DEF UserEvicted, Rooms!Next, Rooms!Evict
  <2>7. CASE index' = {}
    BY <2>2, <2>7 DEF Rooms!Next, Rooms!TearDown
  <2>8. CASE \E s \in Sockets : SocketStep(s)
    BY <1>2, <2>3, <2>4, <2>5, <2>8, SocketStepTabs
  <2>9. CASE \E q \in Reqs : ReqStep(q)
    BY <1>2, <2>3, <2>6, <2>7, <2>9, ReqStepTabs
  <2>10. CASE UNCHANGED vars
    BY <2>3, <2>10 DEF vars
  <2> QED
    BY <1>2, <2>8, <2>9, <2>10 DEF Next
<1> QED
  BY <1>1, <1>2, Invariance, PTL DEF Spec, ImplementsPresence, Rooms!Spec
=============================================================================
