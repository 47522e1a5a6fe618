----------------------- MODULE CombatLifecycleProofs -----------------------
(***************************************************************************)
(* Proofs about CombatLifecycle for any number of handlers, rooms, fights, *)
(* ready checks, edits, writes and failures.                               *)
(***************************************************************************)
EXTENDS CombatLifecycle, TLAPS, FiniteSetTheorems

Loads == {h \in Handlers : Busy(h, "load")}

(* A fight is numbered when it is installed, and MaxFights leaves a number *)
(* for every start that is loading.                                        *)
Numbered ==
  /\ fights + Loading <= MaxFights
  /\ \A r \in Rooms : room[r].fight.no <= fights
  /\ \A h \in Handlers : handler[h].fight.no <= fights
  /\ \A w \in writes : w.no <= fights
  /\ row.no <= fights

TypeInv == TypeOK /\ Numbered

(* What makes OneStart inductive: the start that combatStarting stands for *)
(* is one handler, which is there as long as the flag is set.              *)
OneStarter ==
  \A r \in Rooms :
    /\ \A g, h \in StartsIn(r) : g = h
    /\ room[r].starting <=> StartsIn(r) # {}

(* A room that has not been made yet has no fight.                         *)
Unmade == \A r \in Rooms : r > made => room[r].fight = NoFight

(* A teardown that met nobody is alone until its DELETE is done.           *)
Alone ==
  clean => \A h \in Handlers : Busy(h, "delete") =>
    /\ writes = {}
    /\ \A g \in Handlers \ {h} : Free(g)
    /\ live # 0 => room[live].fight = NoFight

(* A write carries a fight, and whatever could install one finds its row:  *)
(* there, or on its way there.                                             *)
Saved ==
  /\ \A w \in writes : w # NoFight
  /\ clean /\ ((live # 0 /\ room[live].fight # NoFight) \/ \E h \in Handlers : Busy(h, "resume"))
       => row # NoFight \/ \E h \in Handlers : Busy(h, "insert")

(* Nothing in flight still carries a fight that was torn down.             *)
Forgotten ==
  clean => /\ row.no \notin over
           /\ live # 0 => room[live].fight.no \notin over
           /\ \A w \in writes : w.no \notin over
           /\ \A h \in Handlers : handler[h].fight.no \notin over

FightInv == Unmade /\ Alone /\ Saved /\ Forgotten

----------------------------------------------------------------------------
(* A start, in whichever of the three ways it is triggered.                *)

Start(h) ==
  Click(h) \/ AllReady(h) \/ \E r \in Rooms, c \in 1 .. MaxChecks : TimeOut(h, r, c)

RoomState == [fight : Fights, starting : BOOLEAN, check : 0 .. MaxChecks]

\* What any of them does to the room, the timers and the handler h: nothing
\* that starts, or a load in the live room, which neither fights nor starts.
Started(h) ==
  /\ UNCHANGED <<live, made, fights, fails, writes, row, flag, over>>
  /\ room' \in [Rooms -> RoomState] /\ armed' \subseteq armed
  /\ clean' \in BOOLEAN /\ (clean' => clean)
  /\ \A q \in Rooms : room'[q].fight = room[q].fight
  /\ \/ /\ handler' = handler
        /\ \A q \in Rooms : room'[q].starting = room[q].starting
     \/ /\ live # 0 /\ Free(h) /\ Waits(h, "load", live, NoFight)
        /\ room[live].fight = NoFight /\ ~room[live].starting
        /\ fights + Loading < MaxFights
        /\ clean' => ~Deleting
        /\ \A q \in Rooms : room'[q].starting = (room[q].starting \/ q = live)

LEMMA StartCombatEffect ==
  ASSUME TypeOK, NEW h \in Handlers, NEW rooms \in [Rooms -> RoomState], NEW timers,
         timers \subseteq armed,
         \A q \in Rooms : /\ rooms[q].fight = room[q].fight
                          /\ rooms[q].starting = room[q].starting,
         StartCombat(h, rooms, timers)
  PROVE  Started(h)
<1> USE LifecycleAssumption
<1>1. /\ UNCHANGED <<live, made, fights, fails, writes, row, flag, over>>
      /\ clean' \in BOOLEAN /\ (clean' => clean)
  BY DEF StartCombat, counts, database
<1>2. live # 0 => live \in Rooms
  BY DEF TypeOK, Rooms
<1>3. CASE live = 0
  BY <1>1, <1>3 DEF StartCombat, Started
<1>4. CASE live # 0 /\ MayStart(rooms[live])
  <2>1. room' = [rooms EXCEPT ![live] =
                   [fight |-> @.fight, starting |-> TRUE, check |-> 0]]
    BY <1>4 DEF StartCombat
  <2>2. room' \in [Rooms -> RoomState]
    BY <2>1, <1>2, <1>4 DEF RoomState
  <2>3. \A q \in Rooms : /\ room'[q].fight = room[q].fight
                         /\ room'[q].starting = (room[q].starting \/ q = live)
    BY <2>1, <1>2, <1>4 DEF RoomState
  <2>4. /\ Free(h) /\ Waits(h, "load", live, NoFight) /\ fights + Loading < MaxFights
        /\ (clean' => ~Deleting) /\ armed' \subseteq armed
    BY <1>4 DEF StartCombat
  <2>5. room[live].fight = NoFight /\ ~room[live].starting
    BY <1>2, <1>4 DEF MayStart
  <2> QED
    BY <1>1, <1>4, <2>2, <2>3, <2>4, <2>5 DEF Started
<1>5. CASE live # 0 /\ ~MayStart(rooms[live])
  <2>1. room' = [rooms EXCEPT ![live].check = 0] /\ handler' = handler /\ armed' \subseteq armed
    BY <1>5 DEF StartCombat
  <2>2. room' \in [Rooms -> RoomState]
    BY <2>1, <1>2, <1>5 DEF RoomState
  <2>3. \A q \in Rooms : /\ room'[q].fight = room[q].fight
                         /\ room'[q].starting = room[q].starting
    BY <2>1, <1>2, <1>5 DEF RoomState
  <2> QED
    BY <1>1, <2>1, <2>2, <2>3 DEF Started
<1> QED
  BY <1>3, <1>4, <1>5

LEMMA StartEffect ==
  ASSUME TypeOK, NEW h \in Handlers, Start(h)
  PROVE  Started(h)
<1> USE LifecycleAssumption
<1>1. room \in [Rooms -> RoomState]
  BY DEF TypeOK, RoomState
<1>2. ASSUME NEW r \in Rooms, NEW timers, timers \subseteq armed,
             StartCombat(h, [room EXCEPT ![r].check = 0], timers)
      PROVE  Started(h)
  <2> DEFINE rooms == [room EXCEPT ![r].check = 0]
  <2>1. rooms \in [Rooms -> RoomState]
    BY <1>1 DEF RoomState
  <2>2. \A q \in Rooms : /\ rooms[q].fight = room[q].fight
                         /\ rooms[q].starting = room[q].starting
    BY <1>1 DEF RoomState
  <2>3. StartCombat(h, rooms, timers)
    BY <1>2
  <2> HIDE DEF rooms
  <2> QED
    BY <1>2, <2>1, <2>2, <2>3, StartCombatEffect
<1>3. CASE Click(h)
  BY <1>1, <1>3, StartCombatEffect DEF Click
<1>4. CASE AllReady(h)
  <2>1. live \in Rooms
    BY <1>4 DEF AllReady, TypeOK, Rooms
  <2>2. StartCombat(h, [room EXCEPT ![live].check = 0], armed \ {<<live, room[live].check>>})
    BY <1>4 DEF AllReady
  <2> QED
    BY <1>2, <2>1, <2>2
<1>5. ASSUME NEW r \in Rooms, NEW c \in 1 .. MaxChecks, TimeOut(h, r, c), room[r].check # 0
      PROVE  StartCombat(h, [room EXCEPT ![r].check = 0], armed \ {<<r, c>>})
  BY <1>5 DEF TimeOut
<1>6. ASSUME NEW r \in Rooms, NEW c \in 1 .. MaxChecks, TimeOut(h, r, c), room[r].check = 0
      PROVE  /\ armed' \subseteq armed
             /\ UNCHANGED <<live, made, room, fights, fails, handler, writes, row, flag,
                            over, clean>>
  BY <1>6 DEF TimeOut, counts, database
<1>7. ASSUME NEW r \in Rooms, NEW c \in 1 .. MaxChecks, TimeOut(h, r, c)
      PROVE  Started(h)
  <2>1. CASE room[r].check = 0
    BY <1>1, <1>6, <1>7, <2>1 DEF Started, TypeOK
  <2>2. CASE room[r].check # 0
    <3>1. StartCombat(h, [room EXCEPT ![r].check = 0], armed \ {<<r, c>>})
      BY <1>5, <1>7, <2>2
    <3> QED
      BY <1>2, <3>1
  <2> QED
    BY <2>1, <2>2
<1> QED
  BY <1>3, <1>4, <1>7 DEF Start

----------------------------------------------------------------------------
(* Types.                                                                  *)

HandlerState == {Idle} \cup Waiting

\* The bound on fights holds when nothing more is loading than before.
LEMMA LoadsShrink ==
  ASSUME Loads' \subseteq Loads, Loading \in Nat
  PROVE  Loading' \in Nat /\ Loading' <= Loading
<1>1. IsFiniteSet(Loads)
  BY LifecycleAssumption, FS_Subset DEF Loads
<1>2. Cardinality(Loads') <= Cardinality(Loads) /\ Cardinality(Loads') \in Nat
  BY <1>1, FS_Subset, FS_CardinalityType
<1> QED
  BY <1>2 DEF Loading, Loads, Busy

LEMMA LoadingIsNat == Loading \in Nat
<1>1. IsFiniteSet(Loads)
  BY LifecycleAssumption, FS_Subset DEF Loads
<1> QED
  BY <1>1, FS_CardinalityType DEF Loading, Loads

\* One handler starts to load, or is done with it.
LEMMA OneLoadMore ==
  ASSUME NEW h \in Handlers, h \notin Loads, Loads' = Loads \cup {h}
  PROVE  Loading' = Loading + 1
<1>1. IsFiniteSet(Loads)
  BY LifecycleAssumption, FS_Subset DEF Loads
<1>2. Cardinality(Loads') = Cardinality(Loads) + 1
  BY <1>1, FS_AddElement
<1> QED
  BY <1>2 DEF Loading, Loads, Busy

LEMMA OneLoadLess ==
  ASSUME NEW h \in Handlers, h \in Loads, Loads' = Loads \ {h}
  PROVE  Loading' = Loading - 1
<1>1. IsFiniteSet(Loads)
  BY LifecycleAssumption, FS_Subset DEF Loads
<1>2. Cardinality(Loads') = Cardinality(Loads) - 1
  BY <1>1, FS_RemoveElement
<1> QED
  BY <1>2 DEF Loading, Loads, Busy

LEMMA TypeInit == Init => TypeInv
<1> SUFFICES ASSUME Init PROVE TypeInv
  OBVIOUS
<1> USE LifecycleAssumption
<1>1. NoFight \in Fights /\ NewRoom \in RoomState
  BY DEF NoFight, Fights, NewRoom, RoomState
<1>2. TypeOK
  <2> USE DEF Init
  <2>1. /\ live \in 0 .. made /\ made \in 0 .. MaxRooms
        /\ fights \in 0 .. MaxFights /\ fails \in 0 .. MaxFails
    OBVIOUS
  <2>5. armed \subseteq (1 .. made) \X (1 .. MaxChecks) /\ over \subseteq 1 .. fights
    OBVIOUS
  <2>6. flag \in BOOLEAN /\ clean \in BOOLEAN
    OBVIOUS
  <2>2. room \in [Rooms -> RoomState]
    BY <1>1
  <2>3. handler \in [Handlers -> {Idle} \cup Waiting]
    OBVIOUS
  <2>4. writes \subseteq Fights /\ row \in Fights
    BY <1>1
  <2> QED
    BY <2>1, <2>2, <2>3, <2>4, <2>5, <2>6 DEF TypeOK, RoomState
<1>3. Loads = {}
  BY DEF Init, Loads, Busy, Idle
<1>4. Loading = 0
  BY <1>3, FS_EmptySet DEF Loading, Loads
<1> QED
  BY <1>2, <1>4 DEF TypeInv, Numbered, Init, NewRoom, NoFight, Idle

\* What a handler that waits for a query has in its hands.
LEMMA InFlight ==
  ASSUME TypeInv, NEW h \in Handlers
  PROVE  /\ handler[h] \in HandlerState
         /\ handler[h].fight \in Fights /\ handler[h].fight.no <= fights
         /\ Free(h) => /\ handler[h].does = "idle" /\ handler[h].in = 0
                       /\ handler[h].fight = NoFight
         /\ ~Free(h) => /\ handler[h].in \in Rooms /\ handler[h].in \in 1 .. made
                        /\ handler[h].does # "idle"
         /\ handler[h].does \in {"load", "flag", "read", "unflag"} => handler[h].fight = NoFight
         /\ handler[h].does \in {"insert", "resume"} => handler[h].fight # NoFight
<1>1. handler[h] \in HandlerState /\ made \in 0 .. MaxRooms
  BY DEF TypeInv, TypeOK, HandlerState
<1>2. NoFight \in Fights /\ MaxRooms \in Nat
  BY LifecycleAssumption DEF NoFight, Fights
<1>3. handler[h].fight.no <= fights
  BY DEF TypeInv, Numbered
<1>4. CASE handler[h] = Idle
  BY <1>1, <1>2, <1>3, <1>4 DEF Idle, Free
<1>5. CASE handler[h] \in Waiting
  BY <1>1, <1>2, <1>3, <1>5 DEF Waiting, Idle, Free, Rooms
<1> QED
  BY <1>1, <1>4, <1>5 DEF HandlerState

\* The variables with a structure of their own, one by one.
LEMMA TypeByParts ==
  ASSUME TypeOK, made' = made,
         room' \in [Rooms -> RoomState], handler' \in [Handlers -> HandlerState],
         live' \in 0 .. made, fights' \in 0 .. MaxFights, fails' \in 0 .. MaxFails,
         armed' \subseteq (1 .. made) \X (1 .. MaxChecks),
         writes' \subseteq Fights, row' \in Fights,
         flag' \in BOOLEAN, clean' \in BOOLEAN, over' \subseteq 1 .. fights',
         fights' + Loading' <= MaxFights,
         \A r \in Rooms : room'[r].fight.no <= fights',
         \A g \in Handlers : handler'[g].fight.no <= fights',
         \A w \in writes' : w.no <= fights',
         row'.no <= fights'
  PROVE  TypeInv'
<1>1. TypeOK'
  BY DEF TypeOK, RoomState, HandlerState, Waiting
<1> QED
  BY <1>1 DEF TypeInv, Numbered

LEMMA TypeStep == TypeInv /\ [Next]_vars => TypeInv'
<1> SUFFICES ASSUME TypeInv, [Next]_vars PROVE TypeInv'
  OBVIOUS
<1> USE LifecycleAssumption
<1>1. /\ NoFight \in Fights /\ NoFight.no = 0 /\ NewRoom \in RoomState /\ Idle \in HandlerState
      /\ Loading \in Nat /\ fights \in Nat /\ made \in Nat
  BY LoadingIsNat DEF NoFight, Fights, NewRoom, RoomState, HandlerState, TypeInv, TypeOK
<1>2. /\ TypeOK
      /\ room \in [Rooms -> RoomState] /\ handler \in [Handlers -> HandlerState]
      /\ live \in 0 .. made /\ (live # 0 => live \in Rooms)
      /\ fights \in 0 .. MaxFights /\ fails \in 0 .. MaxFails
      /\ armed \subseteq (1 .. made) \X (1 .. MaxChecks)
      /\ writes \subseteq Fights /\ row \in Fights
      /\ flag \in BOOLEAN /\ clean \in BOOLEAN /\ over \subseteq 1 .. fights
  BY SMTT(20) DEF TypeInv, TypeOK, RoomState, HandlerState, Rooms
<1>3. /\ fights + Loading <= MaxFights
      /\ \A r \in Rooms : room[r].fight.no <= fights
      /\ \A h \in Handlers : handler[h].fight.no <= fights
      /\ \A w \in writes : w.no <= fights
      /\ row.no <= fights
  BY DEF TypeInv, Numbered
<1>4. ASSUME NEW h \in Handlers, Insert(h)
      PROVE  TypeInv'
  <2>1. handler[h] \in HandlerState /\ handler[h].fight \in Fights /\ handler[h].fight.no <= fights
    BY InFlight
  <2>2. handler[h].in \in Rooms /\ handler[h].in \in 1 .. made
    BY <1>4, InFlight DEF Insert, Busy
  <2>3. [does |-> "flag", in |-> handler[h].in, fight |-> NoFight] \in HandlerState
    BY <2>2 DEF HandlerState, Waiting
  <2>4. /\ made' = made /\ live' \in 0 .. made /\ fights' = fights
        /\ fails' \in 0 .. MaxFails /\ over' \subseteq 1 .. fights
        /\ armed' \subseteq (1 .. made) \X (1 .. MaxChecks)
    BY <1>1, <1>2, <1>4, <2>1, <2>2, <2>3 DEF Insert, Goes, counts, database
  <2>5. flag' \in BOOLEAN /\ clean' \in BOOLEAN
    BY <1>2, <1>4 DEF Insert, Goes, counts, database
  <2>6. room' \in [Rooms -> RoomState] /\ \A r \in Rooms : room'[r].fight.no <= fights
    BY <1>1, <1>2, <1>3, <1>4, <2>1, <2>2, <2>3 DEF Insert, Goes, RoomState
  <2>7. handler' \in [Handlers -> HandlerState] /\ \A g \in Handlers : handler'[g].fight.no <= fights
    BY <1>1, <1>2, <1>3, <1>4, <2>1, <2>2, <2>3 DEF Insert, Goes, NoFight, Fights
  <2>8. /\ writes' \subseteq Fights /\ row' \in Fights
        /\ row'.no <= fights /\ \A w \in writes' : w.no <= fights
    BY <1>1, <1>2, <1>3, <1>4, <2>1, <2>2, <2>3 DEF Insert, Goes, database
  <2>9. Loads' \subseteq Loads
    BY <1>1, <1>2, <1>4 DEF Insert, Goes, Loads, Busy, Idle
  <2> QED
    BY <1>1, <1>2, <1>3, <2>4, <2>5, <2>6, <2>7, <2>8, <2>9, LoadsShrink, TypeByParts
<1>5. ASSUME NEW h \in Handlers, Flag(h)
      PROVE  TypeInv'
  <2>1. handler[h] \in HandlerState /\ handler[h].fight \in Fights /\ handler[h].fight.no <= fights
    BY InFlight
  <2>2. handler[h].in \in Rooms /\ handler[h].in \in 1 .. made
    BY <1>5, InFlight DEF Flag, Busy
  <2>3. /\ made' = made /\ live' \in 0 .. made /\ fights' = fights
        /\ fails' \in 0 .. MaxFails /\ over' \subseteq 1 .. fights
        /\ armed' \subseteq (1 .. made) \X (1 .. MaxChecks)
    BY <1>1, <1>2, <1>5, <2>1, <2>2 DEF Flag, Ends, counts, database
  <2>4. flag' \in BOOLEAN /\ clean' \in BOOLEAN
    BY <1>2, <1>5 DEF Flag, Ends, counts, database
  <2>5. room' \in [Rooms -> RoomState] /\ \A r \in Rooms : room'[r].fight.no <= fights
    BY <1>1, <1>2, <1>3, <1>5, <2>1, <2>2 DEF Flag, Ends, RoomState
  <2>6. handler' \in [Handlers -> HandlerState] /\ \A g \in Handlers : handler'[g].fight.no <= fights
    BY <1>1, <1>2, <1>3, <1>5, <2>1, <2>2 DEF Flag, Ends, NoFight, Fights, Idle
  <2>7. /\ writes' \subseteq Fights /\ row' \in Fights
        /\ row'.no <= fights /\ \A w \in writes' : w.no <= fights
    BY <1>1, <1>2, <1>3, <1>5, <2>1, <2>2 DEF Flag, Ends, database, RoomState
  <2>8. Loads' \subseteq Loads
    BY <1>1, <1>2, <1>5 DEF Flag, Ends, Loads, Busy, Idle
  <2> QED
    BY <1>1, <1>2, <1>3, <2>3, <2>4, <2>5, <2>6, <2>7, <2>8, LoadsShrink, TypeByParts
<1>6. ASSUME NEW h \in Handlers, End(h)
      PROVE  TypeInv'
  <2>1. [does |-> "delete", in |-> live, fight |-> room[live].fight] \in HandlerState
    BY <1>2, <1>6 DEF End, HandlerState, Waiting, RoomState
  <2>2. /\ made' = made /\ live' \in 0 .. made /\ fights' = fights
        /\ fails' \in 0 .. MaxFails /\ over' \subseteq 1 .. fights
        /\ armed' \subseteq (1 .. made) \X (1 .. MaxChecks)
    BY <1>1, <1>2, <1>6, <2>1 DEF End, Waits, counts, database
  <2>3. flag' \in BOOLEAN /\ clean' \in BOOLEAN
    BY <1>2, <1>6 DEF End, Waits, counts, database
  <2>4. room' \in [Rooms -> RoomState] /\ \A r \in Rooms : room'[r].fight.no <= fights
    BY <1>1, <1>2, <1>3, <1>6, <2>1 DEF End, Waits, RoomState
  <2>5. handler' \in [Handlers -> HandlerState] /\ \A g \in Handlers : handler'[g].fight.no <= fights
    BY <1>1, <1>2, <1>3, <1>6, <2>1 DEF End, Waits
  <2>6. /\ writes' \subseteq Fights /\ row' \in Fights
        /\ row'.no <= fights /\ \A w \in writes' : w.no <= fights
    BY <1>1, <1>2, <1>3, <1>6, <2>1 DEF End, Waits, database
  <2>7. Loads' \subseteq Loads
    BY <1>1, <1>2, <1>6 DEF End, Waits, Loads, Busy, Idle
  <2> QED
    BY <1>1, <1>2, <1>3, <2>2, <2>3, <2>4, <2>5, <2>6, <2>7, LoadsShrink, TypeByParts
<1>7. ASSUME NEW h \in Handlers, Delete(h)
      PROVE  TypeInv'
  <2>1. handler[h] \in HandlerState /\ handler[h].fight \in Fights /\ handler[h].fight.no <= fights
    BY InFlight
  <2>2. handler[h].in \in Rooms /\ handler[h].in \in 1 .. made
    BY <1>7, InFlight DEF Delete, Busy
  <2>3. [does |-> "unflag", in |-> handler[h].in, fight |-> NoFight] \in HandlerState
    BY <2>2 DEF HandlerState, Waiting
  <2>4. {handler[h].fight.no} \ {0} \subseteq 1 .. fights
    BY <1>1, <2>1 DEF Fights
  <2>5. /\ made' = made /\ live' \in 0 .. made /\ fights' = fights
        /\ fails' \in 0 .. MaxFails /\ over' \subseteq 1 .. fights
        /\ armed' \subseteq (1 .. made) \X (1 .. MaxChecks)
    BY <1>1, <1>2, <1>7, <2>1, <2>2, <2>3, <2>4 DEF Delete, Goes, counts, database
  <2>6. flag' \in BOOLEAN /\ clean' \in BOOLEAN
    BY <1>2, <1>7 DEF Delete, Goes, counts, database
  <2>7. room' \in [Rooms -> RoomState] /\ \A r \in Rooms : room'[r].fight.no <= fights
    BY <1>1, <1>2, <1>3, <1>7, <2>1, <2>2, <2>3, <2>4 DEF Delete, Goes, RoomState
  <2>8. handler' \in [Handlers -> HandlerState] /\ \A g \in Handlers : handler'[g].fight.no <= fights
    BY <1>1, <1>2, <1>3, <1>7, <2>1, <2>2, <2>3, <2>4 DEF Delete, Goes, NoFight, Fights
  <2>9. /\ writes' \subseteq Fights /\ row' \in Fights
        /\ row'.no <= fights /\ \A w \in writes' : w.no <= fights
    BY <1>1, <1>2, <1>3, <1>7, <2>1, <2>2, <2>3, <2>4 DEF Delete, Goes, database, NoFight
  <2>10. Loads' \subseteq Loads
    BY <1>1, <1>2, <1>7 DEF Delete, Goes, Loads, Busy, Idle
  <2> QED
    BY <1>1, <1>2, <1>3, <2>5, <2>6, <2>7, <2>8, <2>9, <2>10, LoadsShrink, TypeByParts
<1>8. ASSUME NEW h \in Handlers, Unflag(h)
      PROVE  TypeInv'
  <2>1. /\ made' = made /\ live' \in 0 .. made /\ fights' = fights
        /\ fails' \in 0 .. MaxFails /\ over' \subseteq 1 .. fights
        /\ armed' \subseteq (1 .. made) \X (1 .. MaxChecks)
    BY <1>1, <1>2, <1>8 DEF Unflag, Ends, counts, database
  <2>2. flag' \in BOOLEAN /\ clean' \in BOOLEAN
    BY <1>2, <1>8 DEF Unflag, Ends, counts, database
  <2>3. room' \in [Rooms -> RoomState] /\ \A r \in Rooms : room'[r].fight.no <= fights
    BY <1>1, <1>2, <1>3, <1>8 DEF Unflag, Ends, RoomState
  <2>4. handler' \in [Handlers -> HandlerState] /\ \A g \in Handlers : handler'[g].fight.no <= fights
    BY <1>1, <1>2, <1>3, <1>8 DEF Unflag, Ends, NoFight, Fights, Idle
  <2>5. /\ writes' \subseteq Fights /\ row' \in Fights
        /\ row'.no <= fights /\ \A w \in writes' : w.no <= fights
    BY <1>1, <1>2, <1>3, <1>8 DEF Unflag, Ends, database
  <2>6. Loads' \subseteq Loads
    BY <1>1, <1>2, <1>8 DEF Unflag, Ends, Loads, Busy, Idle
  <2> QED
    BY <1>1, <1>2, <1>3, <2>1, <2>2, <2>3, <2>4, <2>5, <2>6, LoadsShrink, TypeByParts
<1>9. ASSUME NEW h \in Handlers, Rehydrate(h)
      PROVE  TypeInv'
  <2>1. [does |-> "read", in |-> live, fight |-> NoFight] \in HandlerState
    BY <1>2, <1>9 DEF Rehydrate, HandlerState, Waiting
  <2>2. /\ made' = made /\ live' \in 0 .. made /\ fights' = fights
        /\ fails' \in 0 .. MaxFails /\ over' \subseteq 1 .. fights
        /\ armed' \subseteq (1 .. made) \X (1 .. MaxChecks)
    BY <1>1, <1>2, <1>9, <2>1 DEF Rehydrate, Waits, counts, database
  <2>3. flag' \in BOOLEAN /\ clean' \in BOOLEAN
    BY <1>2, <1>9 DEF Rehydrate, Waits, counts, database
  <2>4. room' \in [Rooms -> RoomState] /\ \A r \in Rooms : room'[r].fight.no <= fights
    BY <1>1, <1>2, <1>3, <1>9, <2>1 DEF Rehydrate, Waits, RoomState
  <2>5. handler' \in [Handlers -> HandlerState] /\ \A g \in Handlers : handler'[g].fight.no <= fights
    BY <1>1, <1>2, <1>3, <1>9, <2>1 DEF Rehydrate, Waits, NoFight, Fights
  <2>6. /\ writes' \subseteq Fights /\ row' \in Fights
        /\ row'.no <= fights /\ \A w \in writes' : w.no <= fights
    BY <1>1, <1>2, <1>3, <1>9, <2>1 DEF Rehydrate, Waits, database
  <2>7. Loads' \subseteq Loads
    BY <1>1, <1>2, <1>9 DEF Rehydrate, Waits, Loads, Busy, Idle
  <2> QED
    BY <1>1, <1>2, <1>3, <2>2, <2>3, <2>4, <2>5, <2>6, <2>7, LoadsShrink, TypeByParts
<1>10. ASSUME NEW h \in Handlers, ReadRow(h)
      PROVE  TypeInv'
  <2>1. handler[h] \in HandlerState /\ handler[h].fight \in Fights /\ handler[h].fight.no <= fights
    BY InFlight
  <2>2. handler[h].in \in Rooms /\ handler[h].in \in 1 .. made
    BY <1>10, InFlight DEF ReadRow, Busy
  <2>3. row # NoFight => [does |-> "resume", in |-> handler[h].in, fight |-> row] \in HandlerState
    BY <1>2, <2>2 DEF HandlerState, Waiting
  <2>4. /\ made' = made /\ live' \in 0 .. made /\ fights' = fights
        /\ fails' \in 0 .. MaxFails /\ over' \subseteq 1 .. fights
        /\ armed' \subseteq (1 .. made) \X (1 .. MaxChecks)
    BY <1>1, <1>2, <1>10, <2>1, <2>2, <2>3 DEF ReadRow, Waits, Ends, counts, database
  <2>5. flag' \in BOOLEAN /\ clean' \in BOOLEAN
    BY <1>2, <1>10 DEF ReadRow, Waits, Ends, counts, database
  <2>6. room' \in [Rooms -> RoomState] /\ \A r \in Rooms : room'[r].fight.no <= fights
    BY <1>1, <1>2, <1>3, <1>10, <2>1, <2>2, <2>3 DEF ReadRow, Waits, Ends, RoomState
  <2>7. handler' \in [Handlers -> HandlerState] /\ \A g \in Handlers : handler'[g].fight.no <= fights
    BY <1>1, <1>2, <1>3, <1>10, <2>1, <2>2, <2>3 DEF ReadRow, Waits, Ends, Idle, NoFight, Fights
  <2>8. /\ writes' \subseteq Fights /\ row' \in Fights
        /\ row'.no <= fights /\ \A w \in writes' : w.no <= fights
    BY <1>1, <1>2, <1>3, <1>10, <2>1, <2>2, <2>3 DEF ReadRow, Waits, Ends, database
  <2>9. Loads' \subseteq Loads
    BY <1>1, <1>2, <1>10 DEF ReadRow, Waits, Ends, Loads, Busy, Idle
  <2> QED
    BY <1>1, <1>2, <1>3, <2>4, <2>5, <2>6, <2>7, <2>8, <2>9, LoadsShrink, TypeByParts
<1>11. ASSUME NEW h \in Handlers, Resume(h)
      PROVE  TypeInv'
  <2>1. handler[h] \in HandlerState /\ handler[h].fight \in Fights /\ handler[h].fight.no <= fights
    BY InFlight
  <2>2. handler[h].in \in Rooms /\ handler[h].in \in 1 .. made
    BY <1>11, InFlight DEF Resume, Busy
  <2>3. /\ made' = made /\ live' \in 0 .. made /\ fights' = fights
        /\ fails' \in 0 .. MaxFails /\ over' \subseteq 1 .. fights
        /\ armed' \subseteq (1 .. made) \X (1 .. MaxChecks)
    BY <1>1, <1>2, <1>11, <2>1, <2>2 DEF Resume, Ends, counts, database
  <2>4. flag' \in BOOLEAN /\ clean' \in BOOLEAN
    BY <1>2, <1>11 DEF Resume, Ends, counts, database
  <2>5. room' \in [Rooms -> RoomState] /\ \A r \in Rooms : room'[r].fight.no <= fights
    BY <1>1, <1>2, <1>3, <1>11, <2>1, <2>2 DEF Resume, Ends, RoomState
  <2>6. handler' \in [Handlers -> HandlerState] /\ \A g \in Handlers : handler'[g].fight.no <= fights
    BY <1>1, <1>2, <1>3, <1>11, <2>1, <2>2 DEF Resume, Ends, Idle, NoFight, Fights
  <2>7. /\ writes' \subseteq Fights /\ row' \in Fights
        /\ row'.no <= fights /\ \A w \in writes' : w.no <= fights
    BY <1>1, <1>2, <1>3, <1>11, <2>1, <2>2 DEF Resume, Ends, database
  <2>8. Loads' \subseteq Loads
    BY <1>1, <1>2, <1>11 DEF Resume, Ends, Loads, Busy, Idle
  <2> QED
    BY <1>1, <1>2, <1>3, <2>3, <2>4, <2>5, <2>6, <2>7, <2>8, LoadsShrink, TypeByParts
<1>12. ASSUME NEW h \in Handlers, Fail(h)
      PROVE  TypeInv'
  <2>1. handler[h].in \in Rooms
    BY <1>12, InFlight DEF Fail
  <2>2. /\ made' = made /\ live' \in 0 .. made /\ fights' = fights
        /\ fails' \in 0 .. MaxFails /\ over' \subseteq 1 .. fights
        /\ armed' \subseteq (1 .. made) \X (1 .. MaxChecks)
    BY <1>1, <1>2, <1>12, <2>1 DEF Fail, Ends, counts, database
  <2>3. flag' \in BOOLEAN /\ clean' \in BOOLEAN
    BY <1>2, <1>12 DEF Fail, Ends, counts, database
  <2>4. room' \in [Rooms -> RoomState] /\ \A r \in Rooms : room'[r].fight.no <= fights
    BY <1>1, <1>2, <1>3, <1>12, <2>1 DEF Fail, Ends, RoomState
  <2>5. handler' \in [Handlers -> HandlerState] /\ \A g \in Handlers : handler'[g].fight.no <= fights
    BY <1>1, <1>2, <1>3, <1>12, <2>1 DEF Fail, Ends, Idle, NoFight, Fights
  <2>6. /\ writes' \subseteq Fights /\ row' \in Fights
        /\ row'.no <= fights /\ \A w \in writes' : w.no <= fights
    BY <1>1, <1>2, <1>3, <1>12, <2>1 DEF Fail, Ends, database
  <2>7. Loads' \subseteq Loads
    BY <1>1, <1>2, <1>12 DEF Fail, Ends, Loads, Busy, Idle
  <2> QED
    BY <1>1, <1>2, <1>3, <2>2, <2>3, <2>4, <2>5, <2>6, <2>7, LoadsShrink, TypeByParts
<1>13. ASSUME ReadyCheck
      PROVE  TypeInv'
  <2>1. /\ made' = made /\ live' \in 0 .. made /\ fights' = fights
        /\ fails' \in 0 .. MaxFails /\ over' \subseteq 1 .. fights
        /\ armed' \subseteq (1 .. made) \X (1 .. MaxChecks)
    BY <1>1, <1>2, <1>13 DEF ReadyCheck, Unused, counts, database
  <2>2. flag' \in BOOLEAN /\ clean' \in BOOLEAN
    BY <1>2, <1>13 DEF ReadyCheck, Unused, counts, database
  <2>3. room' \in [Rooms -> RoomState] /\ \A r \in Rooms : room'[r].fight.no <= fights
    BY <1>1, <1>2, <1>3, <1>13 DEF ReadyCheck, Unused, RoomState
  <2>4. handler' \in [Handlers -> HandlerState] /\ \A g \in Handlers : handler'[g].fight.no <= fights
    BY <1>1, <1>2, <1>3, <1>13 DEF ReadyCheck, Unused
  <2>5. /\ writes' \subseteq Fights /\ row' \in Fights
        /\ row'.no <= fights /\ \A w \in writes' : w.no <= fights
    BY <1>1, <1>2, <1>3, <1>13 DEF ReadyCheck, Unused, database
  <2>6. Loads' \subseteq Loads
    BY <1>1, <1>2, <1>13 DEF ReadyCheck, Unused, Loads, Busy, Idle
  <2> QED
    BY <1>1, <1>2, <1>3, <2>1, <2>2, <2>3, <2>4, <2>5, <2>6, LoadsShrink, TypeByParts
<1>14. ASSUME Edit
      PROVE  TypeInv'
  <2>1. live \in Rooms
    BY <1>2, <1>14 DEF Edit
  <2>2. /\ room[live].fight \in Fights /\ [room[live].fight EXCEPT !.edit = @ + 1] \in Fights
        /\ [room[live].fight EXCEPT !.edit = @ + 1].no = room[live].fight.no
    BY <1>2, <2>1, <1>14 DEF Edit, RoomState, Fights
  <2>3. PICK f \in Fights : f.no = room[live].fight.no /\ room' = [room EXCEPT ![live].fight = f]
    BY <1>2, <2>1, <2>2, <1>14 DEF Edit, RoomState
  <2>4. /\ made' = made /\ live' \in 0 .. made /\ fights' = fights
        /\ fails' \in 0 .. MaxFails /\ over' \subseteq 1 .. fights
        /\ armed' \subseteq (1 .. made) \X (1 .. MaxChecks)
    BY <1>1, <1>2, <1>14, <2>1, <2>2, <2>3 DEF Edit, counts, database
  <2>5. flag' \in BOOLEAN /\ clean' \in BOOLEAN
    BY <1>2, <1>14 DEF Edit, counts, database
  <2>6. room' \in [Rooms -> RoomState] /\ \A r \in Rooms : room'[r].fight.no <= fights
    BY <1>2, <1>3, <2>1, <2>2, <2>3 DEF RoomState
  <2>7. handler' \in [Handlers -> HandlerState] /\ \A g \in Handlers : handler'[g].fight.no <= fights
    BY <1>1, <1>2, <1>3, <1>14, <2>1, <2>2, <2>3 DEF Edit
  <2>8. /\ writes' \subseteq Fights /\ row' \in Fights
        /\ row'.no <= fights /\ \A w \in writes' : w.no <= fights
    BY <1>1, <1>2, <1>3, <1>14, <2>1, <2>2, <2>3 DEF Edit, database, RoomState
  <2>9. Loads' \subseteq Loads
    BY <1>1, <1>2, <1>14 DEF Edit, Loads, Busy, Idle
  <2> QED
    BY <1>1, <1>2, <1>3, <2>4, <2>5, <2>6, <2>7, <2>8, <2>9, LoadsShrink, TypeByParts
<1>15. ASSUME NEW data \in Fights, Write(data)
      PROVE  TypeInv'
  <2>1. /\ made' = made /\ live' \in 0 .. made /\ fights' = fights
        /\ fails' \in 0 .. MaxFails /\ over' \subseteq 1 .. fights
        /\ armed' \subseteq (1 .. made) \X (1 .. MaxChecks)
    BY <1>1, <1>2, <1>15 DEF Write, counts, database
  <2>2. flag' \in BOOLEAN /\ clean' \in BOOLEAN
    BY <1>2, <1>15 DEF Write, counts, database
  <2>3. room' \in [Rooms -> RoomState] /\ \A r \in Rooms : room'[r].fight.no <= fights
    BY <1>1, <1>2, <1>3, <1>15 DEF Write, RoomState
  <2>4. handler' \in [Handlers -> HandlerState] /\ \A g \in Handlers : handler'[g].fight.no <= fights
    BY <1>1, <1>2, <1>3, <1>15 DEF Write
  <2>5. /\ writes' \subseteq Fights /\ row' \in Fights
        /\ row'.no <= fights /\ \A w \in writes' : w.no <= fights
    BY <1>1, <1>2, <1>3, <1>15 DEF Write, database, NoFight
  <2>6. Loads' \subseteq Loads
    BY <1>1, <1>2, <1>15 DEF Write, Loads, Busy, Idle
  <2> QED
    BY <1>1, <1>2, <1>3, <2>1, <2>2, <2>3, <2>4, <2>5, <2>6, LoadsShrink, TypeByParts
<1>16. ASSUME Empty
      PROVE  TypeInv'
  <2>1. /\ made' = made /\ live' \in 0 .. made /\ fights' = fights
        /\ fails' \in 0 .. MaxFails /\ over' \subseteq 1 .. fights
        /\ armed' \subseteq (1 .. made) \X (1 .. MaxChecks)
    BY <1>1, <1>2, <1>16 DEF Empty, counts, database
  <2>2. flag' \in BOOLEAN /\ clean' \in BOOLEAN
    BY <1>2, <1>16 DEF Empty, counts, database
  <2>3. room' \in [Rooms -> RoomState] /\ \A r \in Rooms : room'[r].fight.no <= fights
    BY <1>1, <1>2, <1>3, <1>16 DEF Empty, RoomState
  <2>4. handler' \in [Handlers -> HandlerState] /\ \A g \in Handlers : handler'[g].fight.no <= fights
    BY <1>1, <1>2, <1>3, <1>16 DEF Empty
  <2>5. /\ writes' \subseteq Fights /\ row' \in Fights
        /\ row'.no <= fights /\ \A w \in writes' : w.no <= fights
    BY <1>1, <1>2, <1>3, <1>16 DEF Empty, database
  <2>6. Loads' \subseteq Loads
    BY <1>1, <1>2, <1>16 DEF Empty, Loads, Busy, Idle
  <2> QED
    BY <1>1, <1>2, <1>3, <2>1, <2>2, <2>3, <2>4, <2>5, <2>6, LoadsShrink, TypeByParts
<1>17. ASSUME Restart
      PROVE  TypeInv'
  <2>1. /\ made' = made /\ live' \in 0 .. made /\ fights' = fights
        /\ fails' \in 0 .. MaxFails /\ over' \subseteq 1 .. fights
        /\ armed' \subseteq (1 .. made) \X (1 .. MaxChecks)
    BY <1>1, <1>2, <1>17 DEF Restart, counts, database
  <2>2. flag' \in BOOLEAN /\ clean' \in BOOLEAN
    BY <1>2, <1>17 DEF Restart, counts, database
  <2>3. room' \in [Rooms -> RoomState] /\ \A r \in Rooms : room'[r].fight.no <= fights
    BY <1>1, <1>2, <1>3, <1>17 DEF Restart, RoomState, NewRoom, NoFight, Fights
  <2>4. handler' \in [Handlers -> HandlerState] /\ \A g \in Handlers : handler'[g].fight.no <= fights
    BY <1>1, <1>2, <1>3, <1>17 DEF Restart, Idle, NoFight, Fights
  <2>5. /\ writes' \subseteq Fights /\ row' \in Fights
        /\ row'.no <= fights /\ \A w \in writes' : w.no <= fights
    BY <1>1, <1>2, <1>3, <1>17 DEF Restart, database
  <2>6. Loads' \subseteq Loads
    BY <1>1, <1>2, <1>17 DEF Restart, Loads, Busy, Idle
  <2> QED
    BY <1>1, <1>2, <1>3, <2>1, <2>2, <2>3, <2>4, <2>5, <2>6, LoadsShrink, TypeByParts
<1>18. ASSUME NEW h \in Handlers, Build(h)
      PROVE  TypeInv'
  <2> DEFINE next == [no |-> fights + 1, edit |-> 0]
  <2>1. h \in Loads /\ Loads' = Loads \ {h}
    BY <1>2, <1>18 DEF Build, Loads, Busy, Waits
  <2>2. Loading' = Loading - 1 /\ Loading' \in Nat /\ fights' = fights + 1
    BY <1>1, <1>18, <2>1, OneLoadLess, LoadsShrink DEF Build
  <2>3. next \in Fights \ {NoFight} /\ fights' \in 0 .. MaxFights
    BY <1>1, <1>3, <2>2 DEF Fights, NoFight
  <2>4. handler[h].in \in Rooms /\ handler[h].in \in 1 .. made
    BY <1>18, InFlight DEF Build, Busy
  <2>5. [does |-> "insert", in |-> handler[h].in, fight |-> next] \in HandlerState
    BY <2>3, <2>4 DEF HandlerState, Waiting
  <2>6. room' \in [Rooms -> RoomState] /\ \A r \in Rooms : room'[r].fight.no <= fights'
    BY <1>1, <1>2, <1>3, <1>18, <2>2, <2>3, <2>4 DEF Build, RoomState, Fights
  <2>7. handler' \in [Handlers -> HandlerState]
    BY <1>2, <1>18, <2>5 DEF Build, Waits
  <2>8. \A g \in Handlers : handler'[g].fight.no <= fights'
    BY <1>1, <1>2, <1>3, <1>18, <2>2, InFlight DEF Build, Waits, Fights
  <2>9. row'.no <= fights' /\ \A w \in writes' : w.no <= fights'
    BY <1>1, <1>2, <1>3, <1>18, <2>2 DEF Build, database, Fights
  <2>10. /\ UNCHANGED <<made, live, armed, writes, row, flag, fails, over, clean>>
         /\ over' \subseteq 1 .. fights'
    BY <1>1, <1>2, <1>18, <2>2 DEF Build, database
  <2> QED
    BY <1>1, <1>2, <1>3, <2>2, <2>3, <2>6, <2>7, <2>8, <2>9, <2>10, TypeByParts
<1>19. ASSUME NEW h \in Handlers, Start(h)
      PROVE  TypeInv'
  <2>1. Started(h)
    BY <1>2, <1>19, StartEffect
  <2>2. CASE handler' = handler
    <3>1. Loads' \subseteq Loads
      BY <2>2 DEF Loads, Busy
    <3> QED
      BY <1>1, <1>2, <1>3, <2>1, <2>2, <3>1, LoadsShrink, TypeByParts DEF Started
  <2>3. CASE handler' # handler
    <3>1. /\ live # 0 /\ Free(h) /\ Waits(h, "load", live, NoFight)
          /\ fights + Loading < MaxFights
      BY <2>1, <2>3 DEF Started
    <3>2. h \notin Loads /\ Loads' = Loads \cup {h}
      BY <1>2, <3>1 DEF Loads, Busy, Free, Waits, Idle
    <3>3. [does |-> "load", in |-> live, fight |-> NoFight] \in HandlerState
      BY <1>2, <3>1 DEF HandlerState, Waiting
    <3>4. /\ handler' \in [Handlers -> HandlerState]
          /\ \A g \in Handlers : handler'[g].fight.no <= fights
      BY <1>1, <1>2, <1>3, <3>1, <3>3 DEF Waits, NoFight
    <3>5. fights + Loading' <= MaxFights
      BY <1>1, <1>2, <3>1, <3>2, OneLoadMore
    <3> QED
      BY <1>1, <1>2, <1>3, <2>1, <3>4, <3>5, TypeByParts DEF Started
  <2> QED
    BY <2>2, <2>3
<1>20. ASSUME Enter
      PROVE  TypeInv'
  <2>1. Loading' = Loading
    BY <1>20 DEF Enter, Loading, Busy
  <2>2. made \in 0 .. MaxRooms /\ made' \in 0 .. MaxRooms /\ live' \in 0 .. made'
    BY <1>1, <1>2, <1>20 DEF Enter, TypeOK
  <2>3. Waiting \subseteq Waiting'
    BY <1>1, <1>20 DEF Waiting, Enter
  <2>4. armed' \subseteq (1 .. made') \X (1 .. MaxChecks)
    BY <1>1, <1>2, <1>20 DEF Enter
  <2>5. handler' \in [Handlers -> {Idle} \cup Waiting']
    BY <1>2, <1>20, <2>3 DEF Enter, HandlerState
  <2>6. TypeOK'
    BY <1>2, <1>20, <2>2, <2>4, <2>5 DEF Enter, TypeOK, counts, database
  <2> QED
    BY <1>3, <1>20, <2>1, <2>6 DEF Enter, TypeInv, Numbered, counts, database
<1>21. CASE UNCHANGED vars
  <2>1. TypeOK'
    BY <1>2, <1>21 DEF TypeOK, vars, Waiting
  <2>2. Numbered'
    BY <1>3, <1>21 DEF Numbered, Loading, Busy, vars
  <2> QED
    BY <2>1, <2>2 DEF TypeInv
<1> QED
  BY <1>4, <1>5, <1>6, <1>7, <1>8, <1>9, <1>10, <1>11, <1>12, <1>13, <1>14, <1>15, <1>16, <1>17, <1>18, <1>19, <1>20, <1>21 DEF Next, Start

(* The types, and with them that MaxFights is a bound of the model and not *)
(* of its behaviour: a start that is let in always finds a number for its  *)
(* fight (startCombat, services/CombatService.ts).                         *)
THEOREM TypeCorrect == Spec => []TypeOK
<1>1. TypeInv => TypeOK
  BY DEF TypeInv
<1> QED
  BY <1>1, TypeInit, TypeStep, PTL DEF Spec

----------------------------------------------------------------------------
(* One start at a time.                                                    *)

\* Steps that leave every start where it is.
LEMMA StartsKept ==
  ASSUME OneStarter,
         \A r \in Rooms : room'[r].starting = room[r].starting,
         \A g \in Handlers :
           /\ handler'[g].does \in Starts <=> handler[g].does \in Starts
           /\ handler[g].does \in Starts => handler'[g].in = handler[g].in
  PROVE  OneStarter'
<1>1. \A r \in Rooms : StartsIn(r)' = StartsIn(r)
  BY DEF StartsIn
<1> QED
  BY <1>1 DEF OneStarter

\* A start, or anything else, that ends and takes the flag along.
LEMMA StartOver ==
  ASSUME OneStarter, handler \in [Handlers -> HandlerState],
         NEW h \in Handlers, handler' = [handler EXCEPT ![h] = Idle],
         \A r \in Rooms :
           room'[r].starting = (room[r].starting /\ h \notin StartsIn(r))
  PROVE  OneStarter'
<1>1. \A r \in Rooms : StartsIn(r)' = StartsIn(r) \ {h}
  BY DEF StartsIn, Starts, Idle
<1>2. ASSUME NEW r \in Rooms
      PROVE  /\ \A g, i \in StartsIn(r)' : g = i
             /\ room'[r].starting <=> StartsIn(r)' # {}
  <2>1. /\ \A g, i \in StartsIn(r) : g = i
        /\ room[r].starting <=> StartsIn(r) # {}
    BY DEF OneStarter
  <2>2. CASE h \in StartsIn(r)
    BY <1>1, <2>1, <2>2
  <2>3. CASE h \notin StartsIn(r)
    BY <1>1, <2>1, <2>3
  <2> QED
    BY <2>2, <2>3
<1> QED
  BY <1>2 DEF OneStarter

LEMMA OneStarterStep == TypeInv /\ OneStarter /\ [Next]_vars => OneStarter'
<1> SUFFICES ASSUME TypeInv, OneStarter, [Next]_vars PROVE OneStarter'
  OBVIOUS
<1>1. /\ TypeOK /\ room \in [Rooms -> RoomState] /\ handler \in [Handlers -> HandlerState]
      /\ live # 0 => live \in Rooms
  BY LifecycleAssumption DEF TypeInv, TypeOK, RoomState, HandlerState, Rooms
<1>2. ASSUME NEW h \in Handlers, Build(h)
      PROVE  OneStarter'
  <2>1. \A r \in Rooms : room'[r].starting = room[r].starting
    BY <1>1, <1>2, InFlight DEF Build, Waits, RoomState
  <2>2. \A g \in Handlers :
          /\ handler'[g].does \in Starts <=> handler[g].does \in Starts
          /\ handler[g].does \in Starts => handler'[g].in = handler[g].in
    BY <1>1, <1>2 DEF Build, Waits, Starts, Busy
  <2> QED
    BY <2>1, <2>2, StartsKept
<1>3. ASSUME NEW h \in Handlers, Insert(h)
      PROVE  OneStarter'
  <2>1. \A r \in Rooms : room'[r].starting = room[r].starting
    BY <1>1, <1>3, InFlight DEF Insert, Goes, RoomState
  <2>2. \A g \in Handlers :
          /\ handler'[g].does \in Starts <=> handler[g].does \in Starts
          /\ handler[g].does \in Starts => handler'[g].in = handler[g].in
    BY <1>1, <1>3 DEF Insert, Goes, Starts, Busy
  <2> QED
    BY <2>1, <2>2, StartsKept
<1>4. ASSUME NEW h \in Handlers, End(h)
      PROVE  OneStarter'
  <2>1. \A r \in Rooms : room'[r].starting = room[r].starting
    BY <1>1, <1>4, InFlight DEF End, Waits, Free, Idle, RoomState
  <2>2. \A g \in Handlers :
          /\ handler'[g].does \in Starts <=> handler[g].does \in Starts
          /\ handler[g].does \in Starts => handler'[g].in = handler[g].in
    BY <1>1, <1>4 DEF End, Waits, Free, Idle, Starts, Busy
  <2> QED
    BY <2>1, <2>2, StartsKept
<1>5. ASSUME NEW h \in Handlers, Delete(h)
      PROVE  OneStarter'
  <2>1. \A r \in Rooms : room'[r].starting = room[r].starting
    BY <1>1, <1>5, InFlight DEF Delete, Goes, RoomState
  <2>2. \A g \in Handlers :
          /\ handler'[g].does \in Starts <=> handler[g].does \in Starts
          /\ handler[g].does \in Starts => handler'[g].in = handler[g].in
    BY <1>1, <1>5 DEF Delete, Goes, Starts, Busy
  <2> QED
    BY <2>1, <2>2, StartsKept
<1>6. ASSUME NEW h \in Handlers, Unflag(h)
      PROVE  OneStarter'
  <2>1. \A r \in Rooms : room'[r].starting = room[r].starting
    BY <1>1, <1>6, InFlight DEF Unflag, Ends, Idle, RoomState
  <2>2. \A g \in Handlers :
          /\ handler'[g].does \in Starts <=> handler[g].does \in Starts
          /\ handler[g].does \in Starts => handler'[g].in = handler[g].in
    BY <1>1, <1>6 DEF Unflag, Ends, Idle, Starts, Busy
  <2> QED
    BY <2>1, <2>2, StartsKept
<1>7. ASSUME NEW h \in Handlers, Rehydrate(h)
      PROVE  OneStarter'
  <2>1. \A r \in Rooms : room'[r].starting = room[r].starting
    BY <1>1, <1>7, InFlight DEF Rehydrate, Waits, Free, Idle, RoomState
  <2>2. \A g \in Handlers :
          /\ handler'[g].does \in Starts <=> handler[g].does \in Starts
          /\ handler[g].does \in Starts => handler'[g].in = handler[g].in
    BY <1>1, <1>7 DEF Rehydrate, Waits, Free, Idle, Starts, Busy
  <2> QED
    BY <2>1, <2>2, StartsKept
<1>8. ASSUME NEW h \in Handlers, ReadRow(h)
      PROVE  OneStarter'
  <2>1. \A r \in Rooms : room'[r].starting = room[r].starting
    BY <1>1, <1>8, InFlight DEF ReadRow, Waits, Ends, Idle, RoomState
  <2>2. \A g \in Handlers :
          /\ handler'[g].does \in Starts <=> handler[g].does \in Starts
          /\ handler[g].does \in Starts => handler'[g].in = handler[g].in
    BY <1>1, <1>8 DEF ReadRow, Waits, Ends, Idle, Starts, Busy
  <2> QED
    BY <2>1, <2>2, StartsKept
<1>9. ASSUME NEW h \in Handlers, Resume(h)
      PROVE  OneStarter'
  <2>1. \A r \in Rooms : room'[r].starting = room[r].starting
    BY <1>1, <1>9, InFlight DEF Resume, Ends, Idle, RoomState
  <2>2. \A g \in Handlers :
          /\ handler'[g].does \in Starts <=> handler[g].does \in Starts
          /\ handler[g].does \in Starts => handler'[g].in = handler[g].in
    BY <1>1, <1>9 DEF Resume, Ends, Idle, Starts, Busy
  <2> QED
    BY <2>1, <2>2, StartsKept
<1>10. ASSUME ReadyCheck
      PROVE  OneStarter'
  <2>1. \A r \in Rooms : room'[r].starting = room[r].starting
    BY <1>1, <1>10 DEF ReadyCheck, RoomState
  <2>2. \A g \in Handlers :
          /\ handler'[g].does \in Starts <=> handler[g].does \in Starts
          /\ handler[g].does \in Starts => handler'[g].in = handler[g].in
    BY <1>1, <1>10 DEF ReadyCheck, Starts
  <2> QED
    BY <2>1, <2>2, StartsKept
<1>11. ASSUME Edit
      PROVE  OneStarter'
  <2>1. \A r \in Rooms : room'[r].starting = room[r].starting
    BY <1>1, <1>11 DEF Edit, RoomState
  <2>2. \A g \in Handlers :
          /\ handler'[g].does \in Starts <=> handler[g].does \in Starts
          /\ handler[g].does \in Starts => handler'[g].in = handler[g].in
    BY <1>1, <1>11 DEF Edit, Starts
  <2> QED
    BY <2>1, <2>2, StartsKept
<1>12. ASSUME NEW w \in Fights, Write(w)
      PROVE  OneStarter'
  <2>1. \A r \in Rooms : room'[r].starting = room[r].starting
    BY <1>1, <1>12 DEF Write, RoomState
  <2>2. \A g \in Handlers :
          /\ handler'[g].does \in Starts <=> handler[g].does \in Starts
          /\ handler[g].does \in Starts => handler'[g].in = handler[g].in
    BY <1>1, <1>12 DEF Write, Starts
  <2> QED
    BY <2>1, <2>2, StartsKept
<1>13. ASSUME Enter
      PROVE  OneStarter'
  <2>1. \A r \in Rooms : room'[r].starting = room[r].starting
    BY <1>1, <1>13 DEF Enter, RoomState
  <2>2. \A g \in Handlers :
          /\ handler'[g].does \in Starts <=> handler[g].does \in Starts
          /\ handler[g].does \in Starts => handler'[g].in = handler[g].in
    BY <1>1, <1>13 DEF Enter, Starts
  <2> QED
    BY <2>1, <2>2, StartsKept
<1>14. ASSUME Empty
      PROVE  OneStarter'
  <2>1. \A r \in Rooms : room'[r].starting = room[r].starting
    BY <1>1, <1>14 DEF Empty, RoomState
  <2>2. \A g \in Handlers :
          /\ handler'[g].does \in Starts <=> handler[g].does \in Starts
          /\ handler[g].does \in Starts => handler'[g].in = handler[g].in
    BY <1>1, <1>14 DEF Empty, Starts
  <2> QED
    BY <2>1, <2>2, StartsKept
<1>15. ASSUME UNCHANGED vars
      PROVE  OneStarter'
  <2>1. \A r \in Rooms : room'[r].starting = room[r].starting
    BY <1>1, <1>15 DEF vars, RoomState
  <2>2. \A g \in Handlers :
          /\ handler'[g].does \in Starts <=> handler[g].does \in Starts
          /\ handler[g].does \in Starts => handler'[g].in = handler[g].in
    BY <1>1, <1>15 DEF vars, Starts
  <2> QED
    BY <2>1, <2>2, StartsKept
<1>16. ASSUME NEW h \in Handlers, Flag(h) \/ Fail(h)
      PROVE  OneStarter'
  <2>1. handler' = [handler EXCEPT ![h] = Idle]
    BY <1>16 DEF Flag, Fail, Ends
  <2>2. handler[h].in \in Rooms
    BY <1>16, InFlight DEF Flag, Fail, Busy
  <2>3. room' = IF handler[h].does \in Starts
                  THEN [room EXCEPT ![handler[h].in].starting = FALSE] ELSE room
    BY <1>16 DEF Flag, Fail, Busy, Starts
  <2>4. ASSUME NEW r \in Rooms
        PROVE  room'[r].starting = (room[r].starting /\ h \notin StartsIn(r))
    <3>1. room[r].starting \in BOOLEAN
      BY <1>1 DEF RoomState
    <3>2. CASE h \in StartsIn(r)
      <4>1. handler[h].does \in Starts /\ handler[h].in = r
        BY <3>2 DEF StartsIn
      <4>2. room' = [room EXCEPT ![r].starting = FALSE]
        BY <2>3, <4>1
      <4>3. room'[r].starting = FALSE
        BY <1>1, <4>2 DEF RoomState
      <4> QED
        BY <3>2, <4>3
    <3>3. CASE h \notin StartsIn(r)
      <4>1. ~(handler[h].does \in Starts /\ handler[h].in = r)
        BY <3>3 DEF StartsIn
      <4>2. room'[r] = room[r]
        BY <1>1, <2>3, <4>1
      <4> QED
        BY <3>1, <3>3, <4>2
    <3> QED
      BY <3>2, <3>3
  <2> QED
    BY <1>1, <2>1, <2>4, StartOver
<1>17. ASSUME NEW h \in Handlers, Start(h)
      PROVE  OneStarter'
  <2>1. Started(h)
    BY <1>1, <1>17, StartEffect
  <2>2. CASE handler' = handler /\ \A q \in Rooms : room'[q].starting = room[q].starting
    BY <2>2, StartsKept
  <2>3. CASE /\ live # 0 /\ Free(h) /\ Waits(h, "load", live, NoFight)
             /\ ~room[live].starting
             /\ \A q \in Rooms : room'[q].starting = (room[q].starting \/ q = live)
    <3>1. \A r \in Rooms : StartsIn(r)' = IF r = live THEN StartsIn(r) \cup {h} ELSE StartsIn(r)
      BY <1>1, <2>3 DEF StartsIn, Starts, Waits, Free, Idle
    <3>2. StartsIn(live) = {} /\ live \in Rooms
      BY <1>1, <2>3 DEF OneStarter
    <3>3. ASSUME NEW r \in Rooms, r = live
          PROVE  /\ \A g, i \in StartsIn(r)' : g = i
                 /\ room'[r].starting <=> StartsIn(r)' # {}
      BY <2>3, <3>1, <3>2, <3>3
    <3>4. ASSUME NEW r \in Rooms, r # live
          PROVE  /\ \A g, i \in StartsIn(r)' : g = i
                 /\ room'[r].starting <=> StartsIn(r)' # {}
      <4>1. room'[r].starting = room[r].starting
        <5>1. room[r].starting \in BOOLEAN
          BY <1>1 DEF RoomState
        <5> QED
          BY <2>3, <3>4, <5>1
      <4>2. StartsIn(r)' = StartsIn(r)
        BY <3>1, <3>4
      <4> QED
        BY <4>1, <4>2 DEF OneStarter
    <3> QED
      BY <3>3, <3>4 DEF OneStarter
  <2> QED
    BY <2>1, <2>2, <2>3 DEF Started
<1>18. ASSUME Restart
      PROVE  OneStarter'
  <2>1. \A r \in Rooms : StartsIn(r)' = {} /\ room'[r].starting = FALSE
    BY <1>18 DEF Restart, StartsIn, Starts, Idle, NewRoom
  <2> QED
    BY <2>1 DEF OneStarter
<1> QED
  BY <1>2, <1>3, <1>4, <1>5, <1>6, <1>7, <1>8, <1>9, <1>10, <1>11, <1>12, <1>13, <1>14, <1>15, <1>16, <1>17, <1>18 DEF Next, Start

(* However the DM's click, the last answer and the timer of the ready      *)
(* check race, a room builds one fight at a time, and combatStarting is    *)
(* set exactly while it does (startCombat checks and sets the flag before  *)
(* its first await, and every way out resets it).                          *)
THEOREM OneStartAtATime == Spec => []OneStart
<1>1. Init => OneStarter
  <2> SUFFICES ASSUME Init PROVE OneStarter
    OBVIOUS
  <2>1. \A r \in Rooms : StartsIn(r) = {} /\ room[r].starting = FALSE
    BY DEF Init, StartsIn, Starts, Idle, NewRoom
  <2> QED
    BY <2>1 DEF OneStarter
<1>2. TypeInv /\ OneStarter => OneStart
  <2> SUFFICES ASSUME TypeInv, OneStarter, NEW r \in Rooms
               PROVE  Cardinality(StartsIn(r)) = IF room[r].starting THEN 1 ELSE 0
    BY DEF OneStart
  <2>1. CASE room[r].starting
    <3>1. PICK h : h \in StartsIn(r)
      BY <2>1 DEF OneStarter
    <3>2. StartsIn(r) = {h}
      BY <3>1 DEF OneStarter
    <3> QED
      BY <2>1, <3>2, FS_Singleton
  <2>2. CASE ~room[r].starting
    <3>1. StartsIn(r) = {}
      BY <2>2 DEF OneStarter
    <3> QED
      BY <2>2, <3>1, FS_EmptySet
  <2> QED
    BY <2>1, <2>2
<1> QED
  BY <1>1, <1>2, TypeInit, TypeStep, OneStarterStep, PTL DEF Spec

----------------------------------------------------------------------------
(* Ready checks and their timers.                                          *)

\* startCombat takes the check of the live room and its timer along.
LEMMA StartCombatChecks ==
  ASSUME TypeOK, NEW h \in Handlers, NEW rooms \in [Rooms -> RoomState], NEW timers,
         \A r \in Rooms, c \in 1 .. MaxChecks : <<r, c>> \in timers <=> rooms[r].check = c,
         StartCombat(h, rooms, timers)
  PROVE  CheckIsArmed'
<1>1. live # 0 => live \in Rooms
  BY LifecycleAssumption DEF TypeOK, Rooms
<1>2. CASE live = 0
  BY <1>2 DEF StartCombat, CheckIsArmed
<1>3. CASE live # 0
  <2>1. armed' = timers \ {<<live, rooms[live].check>>}
    BY <1>3 DEF StartCombat
  <2>2. \A r \in Rooms : room'[r].check = IF r = live THEN 0 ELSE rooms[r].check
    <3>1. CASE MayStart(rooms[live])
      BY <1>1, <1>3, <3>1 DEF StartCombat, RoomState
    <3>2. CASE ~MayStart(rooms[live])
      BY <1>1, <1>3, <3>2 DEF StartCombat, RoomState
    <3> QED
      BY <3>1, <3>2
  <2>3. ASSUME NEW r \in Rooms, NEW c \in 1 .. MaxChecks
        PROVE  <<r, c>> \in armed' <=> room'[r].check = c
    BY <1>1, <1>3, <2>1, <2>2
  <2> QED
    BY <2>3 DEF CheckIsArmed
<1> QED
  BY <1>2, <1>3

\* So does whoever closes the check of a room and stops its timer.
LEMMA CheckClosed ==
  ASSUME CheckIsArmed, TypeOK, NEW r \in Rooms,
         NEW q \in Rooms, NEW c \in 1 .. MaxChecks
  PROVE  <<q, c>> \in armed \ {<<r, room[r].check>>}
           <=> [room EXCEPT ![r].check = 0][q].check = c
<1>1. room \in [Rooms -> RoomState] /\ (<<q, c>> \in armed <=> room[q].check = c)
  BY DEF CheckIsArmed, TypeOK, RoomState
<1>2. [room EXCEPT ![r].check = 0][q].check = IF q = r THEN 0 ELSE room[q].check
  BY <1>1 DEF RoomState
<1>3. CASE q = r
  BY <1>1, <1>2, <1>3
<1>4. CASE q # r
  BY <1>1, <1>2, <1>4
<1> QED
  BY <1>3, <1>4

LEMMA CheckStep == TypeOK /\ CheckIsArmed /\ [Next]_vars => CheckIsArmed'
<1> SUFFICES ASSUME TypeOK, CheckIsArmed, [Next]_vars PROVE CheckIsArmed'
  OBVIOUS
<1>1. /\ room \in [Rooms -> RoomState] /\ armed \subseteq (1 .. made) \X (1 .. MaxChecks)
      /\ live # 0 => live \in Rooms
      /\ \A r \in Rooms : [room EXCEPT ![r].check = 0] \in [Rooms -> RoomState]
  BY LifecycleAssumption, SMTT(20) DEF TypeOK, RoomState, Rooms
<1>2. \A r \in Rooms, c \in 1 .. MaxChecks : <<r, c>> \in armed <=> room[r].check = c
  BY DEF CheckIsArmed
<1>3. ASSUME NEW h \in Handlers, Click(h)
      PROVE  CheckIsArmed'
  BY <1>1, <1>2, <1>3, StartCombatChecks DEF Click
<1>4. ASSUME NEW h \in Handlers, AllReady(h)
      PROVE  CheckIsArmed'
  <2> DEFINE rooms == [room EXCEPT ![live].check = 0]
             timers == armed \ {<<live, room[live].check>>}
  <2>1. live \in Rooms /\ StartCombat(h, rooms, timers)
    BY <1>1, <1>4 DEF AllReady
  <2>2. rooms \in [Rooms -> RoomState]
    BY <1>1, <2>1
  <2>3. \A q \in Rooms, c \in 1 .. MaxChecks : <<q, c>> \in timers <=> rooms[q].check = c
    BY <2>1, CheckClosed
  <2> HIDE DEF rooms, timers
  <2> QED
    BY <2>1, <2>2, <2>3, StartCombatChecks
<1>5. ASSUME NEW h \in Handlers, NEW r \in Rooms, NEW c \in 1 .. MaxChecks, TimeOut(h, r, c)
      PROVE  CheckIsArmed'
  <2> DEFINE rooms == [room EXCEPT ![r].check = 0]
             timers == armed \ {<<r, c>>}
  <2>1. room[r].check = c
    BY <1>2, <1>5 DEF TimeOut
  <2>2. StartCombat(h, rooms, timers)
    BY <1>5, <2>1 DEF TimeOut
  <2>3. rooms \in [Rooms -> RoomState]
    BY <1>1
  <2>4. \A q \in Rooms, d \in 1 .. MaxChecks : <<q, d>> \in timers <=> rooms[q].check = d
    BY <2>1, CheckClosed
  <2> HIDE DEF rooms, timers
  <2> QED
    BY <2>2, <2>3, <2>4, StartCombatChecks
<1>6. ASSUME ReadyCheck
      PROVE  CheckIsArmed'
  <2>1. PICK c \in Unused :
          /\ armed' = (armed \ {<<live, room[live].check>>}) \cup {<<live, c>>}
          /\ room' = [room EXCEPT ![live].check = c]
    BY <1>6 DEF ReadyCheck
  <2>2. live \in Rooms /\ c \in 1 .. MaxChecks
    BY <1>1, <1>6, <2>1 DEF ReadyCheck, Unused
  <2>3. \A r \in Rooms : room'[r].check = IF r = live THEN c ELSE room[r].check
    BY <1>1, <2>1, <2>2 DEF RoomState
  <2>4. ASSUME NEW r \in Rooms, NEW d \in 1 .. MaxChecks
        PROVE  <<r, d>> \in armed' <=> room'[r].check = d
    <3>1. CASE r = live
      BY <1>2, <2>1, <2>2, <2>3, <3>1
    <3>2. CASE r # live
      BY <1>2, <2>1, <2>2, <2>3, <3>2
    <3> QED
      BY <3>1, <3>2
  <2> QED
    BY <2>4 DEF CheckIsArmed
<1>7. ASSUME Restart
      PROVE  CheckIsArmed'
  BY <1>7 DEF Restart, NewRoom, CheckIsArmed
<1>8. ASSUME NEW h \in Handlers, Build(h)
      PROVE  CheckIsArmed'
  <2>1. armed' = armed /\ \A r \in Rooms : room'[r].check = room[r].check
    BY <1>1, <1>8 DEF Build, RoomState
  <2> QED
    BY <1>2, <2>1 DEF CheckIsArmed
<1>9. ASSUME NEW h \in Handlers, Insert(h)
      PROVE  CheckIsArmed'
  <2>1. armed' = armed /\ \A r \in Rooms : room'[r].check = room[r].check
    BY <1>1, <1>9 DEF Insert, RoomState
  <2> QED
    BY <1>2, <2>1 DEF CheckIsArmed
<1>10. ASSUME NEW h \in Handlers, Flag(h)
      PROVE  CheckIsArmed'
  <2>1. armed' = armed /\ \A r \in Rooms : room'[r].check = room[r].check
    BY <1>1, <1>10 DEF Flag, RoomState
  <2> QED
    BY <1>2, <2>1 DEF CheckIsArmed
<1>11. ASSUME NEW h \in Handlers, End(h)
      PROVE  CheckIsArmed'
  <2>1. armed' = armed /\ \A r \in Rooms : room'[r].check = room[r].check
    BY <1>1, <1>11 DEF End, RoomState
  <2> QED
    BY <1>2, <2>1 DEF CheckIsArmed
<1>12. ASSUME NEW h \in Handlers, Delete(h)
      PROVE  CheckIsArmed'
  <2>1. armed' = armed /\ \A r \in Rooms : room'[r].check = room[r].check
    BY <1>1, <1>12 DEF Delete, RoomState
  <2> QED
    BY <1>2, <2>1 DEF CheckIsArmed
<1>13. ASSUME NEW h \in Handlers, Unflag(h)
      PROVE  CheckIsArmed'
  <2>1. armed' = armed /\ \A r \in Rooms : room'[r].check = room[r].check
    BY <1>1, <1>13 DEF Unflag, RoomState
  <2> QED
    BY <1>2, <2>1 DEF CheckIsArmed
<1>14. ASSUME NEW h \in Handlers, Rehydrate(h)
      PROVE  CheckIsArmed'
  <2>1. armed' = armed /\ \A r \in Rooms : room'[r].check = room[r].check
    BY <1>1, <1>14 DEF Rehydrate, RoomState
  <2> QED
    BY <1>2, <2>1 DEF CheckIsArmed
<1>15. ASSUME NEW h \in Handlers, ReadRow(h)
      PROVE  CheckIsArmed'
  <2>1. armed' = armed /\ \A r \in Rooms : room'[r].check = room[r].check
    BY <1>1, <1>15 DEF ReadRow, RoomState
  <2> QED
    BY <1>2, <2>1 DEF CheckIsArmed
<1>16. ASSUME NEW h \in Handlers, Resume(h)
      PROVE  CheckIsArmed'
  <2>1. armed' = armed /\ \A r \in Rooms : room'[r].check = room[r].check
    BY <1>1, <1>16 DEF Resume, RoomState
  <2> QED
    BY <1>2, <2>1 DEF CheckIsArmed
<1>17. ASSUME NEW h \in Handlers, Fail(h)
      PROVE  CheckIsArmed'
  <2>1. armed' = armed /\ \A r \in Rooms : room'[r].check = room[r].check
    BY <1>1, <1>17 DEF Fail, RoomState
  <2> QED
    BY <1>2, <2>1 DEF CheckIsArmed
<1>18. ASSUME Edit
      PROVE  CheckIsArmed'
  <2>1. armed' = armed /\ \A r \in Rooms : room'[r].check = room[r].check
    BY <1>1, <1>18 DEF Edit, RoomState
  <2> QED
    BY <1>2, <2>1 DEF CheckIsArmed
<1>19. ASSUME Enter
      PROVE  CheckIsArmed'
  <2>1. armed' = armed /\ \A r \in Rooms : room'[r].check = room[r].check
    BY <1>1, <1>19 DEF Enter, RoomState
  <2> QED
    BY <1>2, <2>1 DEF CheckIsArmed
<1>20. ASSUME Empty
      PROVE  CheckIsArmed'
  <2>1. armed' = armed /\ \A r \in Rooms : room'[r].check = room[r].check
    BY <1>1, <1>20 DEF Empty, RoomState
  <2> QED
    BY <1>2, <2>1 DEF CheckIsArmed
<1>21. ASSUME NEW w \in Fights, Write(w)
      PROVE  CheckIsArmed'
  <2>1. armed' = armed /\ \A r \in Rooms : room'[r].check = room[r].check
    BY <1>1, <1>21 DEF Write, RoomState
  <2> QED
    BY <1>2, <2>1 DEF CheckIsArmed
<1>22. ASSUME UNCHANGED vars
      PROVE  CheckIsArmed'
  <2>1. armed' = armed /\ \A r \in Rooms : room'[r].check = room[r].check
    BY <1>1, <1>22 DEF vars, RoomState
  <2> QED
    BY <1>2, <2>1 DEF CheckIsArmed
<1> QED
  BY <1>3, <1>4, <1>5, <1>6, <1>7, <1>8, <1>9, <1>10, <1>11, <1>12, <1>13, <1>14, <1>15, <1>16, <1>17, <1>18, <1>19, <1>20, <1>21, <1>22 DEF Next

(* A ready check is open as long as its timer runs and no longer, whoever  *)
(* answers, replaces or overtakes it, and in whichever room: no timer is   *)
(* left to start a fight nobody asked for, and no check waits for ever     *)
(* (clearTimeout next to every assignment of room.readyCheck).             *)
THEOREM CheckHasItsTimer == Spec => []CheckIsArmed
<1>1. Init => CheckIsArmed
  BY DEF Init, CheckIsArmed, NewRoom
<1>2. TypeInv => TypeOK
  BY DEF TypeInv
<1> QED
  BY <1>1, <1>2, TypeInit, TypeStep, CheckStep, PTL DEF Spec

----------------------------------------------------------------------------
(* Fights, their row, and their end.                                       *)

\* While a teardown that met nobody waits for its DELETE, nobody else works.
LEMMA BusyMeansNoDelete ==
  ASSUME Alone, clean, NEW h \in Handlers, ~Free(h), handler[h].does # "delete"
  PROVE  ~Deleting
BY DEF Alone, Deleting, Busy, Free

LEMMA FightStep == TypeInv /\ FightInv /\ [Next]_vars => FightInv'
<1> SUFFICES ASSUME TypeInv, FightInv, [Next]_vars PROVE FightInv'
  OBVIOUS
<1> USE LifecycleAssumption
<1>1. /\ TypeOK /\ room \in [Rooms -> RoomState] /\ handler \in [Handlers -> HandlerState]
      /\ live \in 0 .. made /\ made \in 0 .. MaxRooms /\ (live # 0 => live \in Rooms)
      /\ fights \in Nat /\ over \subseteq 1 .. fights
      /\ 0 \notin over /\ fights + 1 \notin over
      /\ NoFight.no = 0 /\ clean \in BOOLEAN
  BY DEF TypeInv, TypeOK, RoomState, HandlerState, Rooms, NoFight
<1>2. \A h \in Handlers :
        /\ Free(h) => /\ handler[h].does = "idle" /\ handler[h].fight = NoFight
        /\ ~Free(h) => /\ handler[h].in \in Rooms /\ handler[h].in <= made
                       /\ handler[h].does # "idle"
        /\ handler[h].does \in {"load", "flag", "read", "unflag"} => handler[h].fight = NoFight
        /\ handler[h].does \in {"insert", "resume"} => handler[h].fight # NoFight
  BY <1>1, InFlight
<1>3. Unmade /\ Alone /\ Saved /\ Forgotten
  BY DEF FightInv
<1>4. Idle.does = "idle" /\ Idle.fight = NoFight
  BY DEF Idle
<1>5. ASSUME NEW h \in Handlers, Build(h)
      PROVE  FightInv'
  <2>1. handler[h].does = "load" /\ ~Free(h)
    BY <1>2, <1>5 DEF Build, Busy
  <2>2. clean => ~Deleting
    BY <1>3, <2>1, BusyMeansNoDelete
  <2>3. UNCHANGED <<live, made, writes, row, over, clean>>
    BY <1>1, <1>5 DEF Build, counts, database
  <2>4. \A r \in Rooms : room'[r].fight = IF r = handler[h].in THEN [no |-> fights + 1, edit |-> 0] ELSE room[r].fight
    BY <1>1, <1>2, <1>5, <2>1 DEF Build, RoomState
  <2>5. \A g \in Handlers : handler'[g] = IF g = h THEN [does |-> "insert", in |-> handler[h].in, fight |-> [no |-> fights + 1, edit |-> 0]] ELSE handler[g]
    BY <1>1, <1>5 DEF Build, Waits
  <2>6. Unmade'
    BY <1>1, <1>2, <1>3, <2>3, <2>4, <2>1 DEF Unmade, Rooms
  <2>7. Alone'
    BY <1>1, <1>2, <1>3, <1>4, <2>3, <2>4, <2>5, <2>1, <2>2 DEF Alone, Busy, Free
  <2>8. Saved'
    BY <1>1, <1>2, <1>3, <1>4, <2>3, <2>4, <2>5, <2>1 DEF Saved, Busy
  <2>9. Forgotten'
    BY <1>1, <1>2, <1>3, <1>4, <2>3, <2>4, <2>5, <2>1 DEF Forgotten
  <2> QED
    BY <2>6, <2>7, <2>8, <2>9 DEF FightInv
<1>6. ASSUME NEW h \in Handlers, Insert(h)
      PROVE  FightInv'
  <2>1. handler[h].does = "insert" /\ ~Free(h)
    BY <1>2, <1>6 DEF Insert, Busy
  <2>2. clean => ~Deleting
    BY <1>3, <2>1, BusyMeansNoDelete
  <2>3. UNCHANGED <<live, made, writes, over, clean>> /\ row' = handler[h].fight
    BY <1>1, <1>6 DEF Insert, counts, database
  <2>4. \A r \in Rooms : room'[r].fight = room[r].fight
    BY <1>1, <1>2, <1>6, <2>1 DEF Insert, RoomState
  <2>5. \A g \in Handlers : handler'[g] = IF g = h THEN [does |-> "flag", in |-> handler[h].in, fight |-> NoFight] ELSE handler[g]
    BY <1>1, <1>6 DEF Insert, Goes
  <2>6. Unmade'
    BY <1>1, <1>2, <1>3, <2>3, <2>4 DEF Unmade, Rooms
  <2>7. Alone'
    BY <1>1, <1>2, <1>3, <1>4, <2>3, <2>4, <2>5, <2>1, <2>2 DEF Alone, Busy, Free
  <2>8. Saved'
    BY <1>1, <1>2, <1>3, <1>4, <2>3, <2>4, <2>5, <2>1 DEF Saved, Busy
  <2>9. Forgotten'
    BY <1>1, <1>2, <1>3, <1>4, <2>3, <2>4, <2>5, <2>1 DEF Forgotten
  <2> QED
    BY <2>6, <2>7, <2>8, <2>9 DEF FightInv
<1>7. ASSUME NEW h \in Handlers, Flag(h)
      PROVE  FightInv'
  <2>1. handler[h].does = "flag" /\ ~Free(h)
    BY <1>2, <1>7 DEF Flag, Busy
  <2>2. clean => ~Deleting
    BY <1>3, <2>1, BusyMeansNoDelete
  <2>3. UNCHANGED <<live, made, row, over, clean>>
        /\ \A w \in writes' : w \in writes \/ (live # 0 /\ room[live].fight # NoFight /\ w = room[live].fight)
    BY <1>1, <1>7 DEF Flag, counts, database
  <2>4. \A r \in Rooms : room'[r].fight = room[r].fight
    BY <1>1, <1>2, <1>7, <2>1 DEF Flag, RoomState
  <2>5. \A g \in Handlers : handler'[g] = IF g = h THEN Idle ELSE handler[g]
    BY <1>1, <1>7 DEF Flag, Ends
  <2>6. Unmade'
    BY <1>1, <1>2, <1>3, <2>3, <2>4 DEF Unmade, Rooms
  <2>7. Alone'
    BY <1>1, <1>2, <1>3, <1>4, <2>3, <2>4, <2>5, <2>1, <2>2 DEF Alone, Busy, Free
  <2>8. Saved'
    BY <1>1, <1>2, <1>3, <1>4, <2>3, <2>4, <2>5, <2>1 DEF Saved, Busy
  <2>9. Forgotten'
    BY <1>1, <1>2, <1>3, <1>4, <2>3, <2>4, <2>5, <2>1 DEF Forgotten
  <2> QED
    BY <2>6, <2>7, <2>8, <2>9 DEF FightInv
<1>8. ASSUME NEW h \in Handlers, End(h)
      PROVE  FightInv'
  <2>1. UNCHANGED <<live, made, writes, row, over>> /\ live # 0 /\ Free(h)
        /\ (clean' => clean /\ Quiet)
    BY <1>1, <1>8 DEF End, counts, database
  <2>2. \A r \in Rooms : room'[r].fight = IF r = live THEN NoFight ELSE room[r].fight
    BY <1>1, <1>2, <1>8 DEF End, RoomState
  <2>3. \A g \in Handlers : handler'[g] = IF g = h THEN [does |-> "delete", in |-> live, fight |-> room[live].fight] ELSE handler[g]
    BY <1>1, <1>8 DEF End, Waits
  <2>4. Unmade'
    BY <1>1, <1>2, <1>3, <2>1, <2>2 DEF Unmade, Rooms
  <2>5. Alone'
    BY <1>1, <1>2, <1>3, <1>4, <2>1, <2>2, <2>3 DEF Quiet, Alone, Busy, Free
  <2>6. Saved'
    BY <1>1, <1>2, <1>3, <1>4, <2>1, <2>2, <2>3 DEF Saved, Busy
  <2>7. Forgotten'
    BY <1>1, <1>2, <1>3, <1>4, <2>1, <2>2, <2>3 DEF Forgotten
  <2> QED
    BY <2>4, <2>5, <2>6, <2>7 DEF FightInv
<1>9. ASSUME NEW h \in Handlers, Delete(h)
      PROVE  FightInv'
  <2>1. handler[h].does = "delete"
    BY <1>9 DEF Delete, Busy
  <2>2. clean => /\ writes = {} /\ (\A g \in Handlers \ {h} : Free(g))
                 /\ (live # 0 => room[live].fight = NoFight)
    BY <1>3, <2>1 DEF Alone, Busy
  <2>3. UNCHANGED <<live, made, writes, clean>> /\ row' = NoFight
        /\ over' = over \cup ({handler[h].fight.no} \ {0})
    BY <1>1, <1>9 DEF Delete, counts, database
  <2>4. \A r \in Rooms : room'[r].fight = room[r].fight
    BY <1>1, <1>2, <1>9, <2>1 DEF Delete, RoomState
  <2>5. \A g \in Handlers : handler'[g] = IF g = h THEN [does |-> "unflag", in |-> handler[h].in, fight |-> NoFight] ELSE handler[g]
    BY <1>1, <1>9 DEF Delete, Goes
  <2>6. Unmade'
    BY <1>1, <1>2, <1>3, <2>3, <2>4 DEF Unmade, Rooms
  <2>7. Alone'
    BY <1>1, <1>2, <1>3, <1>4, <2>3, <2>4, <2>5, <2>1, <2>2 DEF Alone, Busy, Free
  <2>8. Saved'
    BY <1>1, <1>2, <1>3, <1>4, <2>3, <2>4, <2>5, <2>1, <2>2 DEF Saved, Busy
  <2>9. Forgotten'
    BY <1>1, <1>2, <1>3, <1>4, <2>3, <2>4, <2>5, <2>1, <2>2 DEF Forgotten
  <2> QED
    BY <2>6, <2>7, <2>8, <2>9 DEF FightInv
<1>10. ASSUME NEW h \in Handlers, Unflag(h)
      PROVE  FightInv'
  <2>1. handler[h].does = "unflag" /\ ~Free(h)
    BY <1>2, <1>10 DEF Unflag, Busy
  <2>2. clean => ~Deleting
    BY <1>3, <2>1, BusyMeansNoDelete
  <2>3. UNCHANGED <<live, made, writes, row, over, clean>>
    BY <1>1, <1>10 DEF Unflag, counts, database
  <2>4. \A r \in Rooms : room'[r].fight = room[r].fight
    BY <1>1, <1>2, <1>10, <2>1 DEF Unflag, RoomState
  <2>5. \A g \in Handlers : handler'[g] = IF g = h THEN Idle ELSE handler[g]
    BY <1>1, <1>10 DEF Unflag, Ends
  <2>6. Unmade'
    BY <1>1, <1>2, <1>3, <2>3, <2>4 DEF Unmade, Rooms
  <2>7. Alone'
    BY <1>1, <1>2, <1>3, <1>4, <2>3, <2>4, <2>5, <2>1, <2>2 DEF Alone, Busy, Free
  <2>8. Saved'
    BY <1>1, <1>2, <1>3, <1>4, <2>3, <2>4, <2>5, <2>1 DEF Saved, Busy
  <2>9. Forgotten'
    BY <1>1, <1>2, <1>3, <1>4, <2>3, <2>4, <2>5, <2>1 DEF Forgotten
  <2> QED
    BY <2>6, <2>7, <2>8, <2>9 DEF FightInv
<1>11. ASSUME NEW h \in Handlers, Rehydrate(h)
      PROVE  FightInv'
  <2>1. UNCHANGED <<live, made, writes, row, over>> /\ Free(h) /\ (clean' => clean /\ ~Deleting)
    BY <1>1, <1>11 DEF Rehydrate, counts, database
  <2>2. \A r \in Rooms : room'[r].fight = room[r].fight
    BY <1>1, <1>2, <1>11 DEF Rehydrate, RoomState
  <2>3. \A g \in Handlers : handler'[g] = IF g = h THEN [does |-> "read", in |-> live, fight |-> NoFight] ELSE handler[g]
    BY <1>1, <1>11 DEF Rehydrate, Waits
  <2>4. Unmade'
    BY <1>1, <1>2, <1>3, <2>1, <2>2 DEF Unmade, Rooms
  <2>5. Alone'
    BY <1>1, <1>2, <1>3, <1>4, <2>1, <2>2, <2>3 DEF Deleting, Alone, Busy, Free
  <2>6. Saved'
    BY <1>1, <1>2, <1>3, <1>4, <2>1, <2>2, <2>3 DEF Saved, Busy
  <2>7. Forgotten'
    BY <1>1, <1>2, <1>3, <1>4, <2>1, <2>2, <2>3 DEF Forgotten
  <2> QED
    BY <2>4, <2>5, <2>6, <2>7 DEF FightInv
<1>12. ASSUME NEW h \in Handlers, ReadRow(h)
      PROVE  FightInv'
  <2>1. handler[h].does = "read" /\ ~Free(h)
    BY <1>2, <1>12 DEF ReadRow, Busy
  <2>2. clean => ~Deleting
    BY <1>3, <2>1, BusyMeansNoDelete
  <2>3. UNCHANGED <<live, made, writes, row, over, clean>>
    BY <1>1, <1>12 DEF ReadRow, counts, database
  <2>4. \A r \in Rooms : room'[r].fight = room[r].fight
    BY <1>1, <1>2, <1>12, <2>1 DEF ReadRow, RoomState
  <2>5. \A g \in Handlers : handler'[g] = IF g = h THEN IF row = NoFight THEN Idle ELSE [does |-> "resume", in |-> handler[h].in, fight |-> row] ELSE handler[g]
    BY <1>1, <1>12 DEF ReadRow, Waits, Ends
  <2>6. Unmade'
    BY <1>1, <1>2, <1>3, <2>3, <2>4 DEF Unmade, Rooms
  <2>7. Alone'
    BY <1>1, <1>2, <1>3, <1>4, <2>3, <2>4, <2>5, <2>1, <2>2 DEF Alone, Busy, Free
  <2>8. Saved'
    BY <1>1, <1>2, <1>3, <1>4, <2>3, <2>4, <2>5, <2>1 DEF Saved, Busy
  <2>9. Forgotten'
    BY <1>1, <1>2, <1>3, <1>4, <2>3, <2>4, <2>5, <2>1 DEF Forgotten
  <2> QED
    BY <2>6, <2>7, <2>8, <2>9 DEF FightInv
<1>13. ASSUME NEW h \in Handlers, Resume(h)
      PROVE  FightInv'
  <2>1. handler[h].does = "resume" /\ ~Free(h)
    BY <1>2, <1>13 DEF Resume, Busy
  <2>2. clean => ~Deleting
    BY <1>3, <2>1, BusyMeansNoDelete
  <2>3. UNCHANGED <<live, made, writes, row, over, clean>>
    BY <1>1, <1>13 DEF Resume, counts, database
  <2>4. \A r \in Rooms : room'[r].fight = IF r = handler[h].in THEN handler[h].fight ELSE room[r].fight
    BY <1>1, <1>2, <1>13, <2>1 DEF Resume, RoomState
  <2>5. \A g \in Handlers : handler'[g] = IF g = h THEN Idle ELSE handler[g]
    BY <1>1, <1>13 DEF Resume, Ends
  <2>6. Unmade'
    BY <1>1, <1>2, <1>3, <2>3, <2>4, <2>1 DEF Unmade, Rooms
  <2>7. Alone'
    BY <1>1, <1>2, <1>3, <1>4, <2>3, <2>4, <2>5, <2>1, <2>2 DEF Alone, Busy, Free
  <2>8. Saved'
    BY <1>1, <1>2, <1>3, <1>4, <2>3, <2>4, <2>5, <2>1 DEF Saved, Busy
  <2>9. Forgotten'
    BY <1>1, <1>2, <1>3, <1>4, <2>3, <2>4, <2>5, <2>1 DEF Forgotten
  <2> QED
    BY <2>6, <2>7, <2>8, <2>9 DEF FightInv
<1>14. ASSUME NEW h \in Handlers, Fail(h)
      PROVE  FightInv'
  <2>1. UNCHANGED <<live, made, writes, row, over>> /\ ~Free(h) /\ handler[h].does # "resume"
        /\ (clean' => clean /\ handler[h].does # "insert")
    BY <1>1, <1>14 DEF Fail, Busy, counts, database
  <2>2. \A r \in Rooms : room'[r].fight = room[r].fight
    BY <1>1, <1>2, <1>14 DEF Fail, Busy, RoomState
  <2>3. \A g \in Handlers : handler'[g] = IF g = h THEN Idle ELSE handler[g]
    BY <1>1, <1>14 DEF Fail, Busy, Ends
  <2>4. Unmade'
    BY <1>1, <1>2, <1>3, <2>1, <2>2 DEF Unmade, Rooms
  <2>5. Alone'
    BY <1>1, <1>2, <1>3, <1>4, <2>1, <2>2, <2>3 DEF Alone, Busy, Free
  <2>6. Saved'
    BY <1>1, <1>2, <1>3, <1>4, <2>1, <2>2, <2>3 DEF Saved, Busy
  <2>7. Forgotten'
    BY <1>1, <1>2, <1>3, <1>4, <2>1, <2>2, <2>3 DEF Forgotten
  <2> QED
    BY <2>4, <2>5, <2>6, <2>7 DEF FightInv
<1>15. ASSUME ReadyCheck
      PROVE  FightInv'
  <2>1. UNCHANGED <<live, made, writes, row, over, clean>>
    BY <1>1, <1>15 DEF ReadyCheck, counts, database
  <2>2. \A r \in Rooms : room'[r].fight = room[r].fight
    BY <1>1, <1>2, <1>15 DEF ReadyCheck, RoomState
  <2>3. handler' = handler
    BY <1>15 DEF ReadyCheck
  <2>4. Unmade'
    BY <1>1, <1>2, <1>3, <2>1, <2>2 DEF Unmade, Rooms
  <2>5. Alone'
    BY <1>1, <1>2, <1>3, <1>4, <2>1, <2>2, <2>3 DEF Alone, Busy, Free
  <2>6. Saved'
    BY <1>1, <1>2, <1>3, <1>4, <2>1, <2>2, <2>3 DEF Saved, Busy
  <2>7. Forgotten'
    BY <1>1, <1>2, <1>3, <1>4, <2>1, <2>2, <2>3 DEF Forgotten
  <2> QED
    BY <2>4, <2>5, <2>6, <2>7 DEF FightInv
<1>16. ASSUME Edit
      PROVE  FightInv'
  <2>1. live # 0 /\ live \in Rooms /\ room[live].fight # NoFight
    BY <1>1, <1>16 DEF Edit
  <2>2. PICK f \in Fights :
          /\ f.no = room[live].fight.no /\ f # NoFight
          /\ room' = [room EXCEPT ![live].fight = f] /\ writes' = writes \cup {f}
    <3>1. room[live].fight \in Fights
      BY <1>1, <2>1 DEF RoomState
    <3>2. /\ [room[live].fight EXCEPT !.edit = @ + 1] \in Fights
          /\ [room[live].fight EXCEPT !.edit = @ + 1].no = room[live].fight.no
          /\ [room[live].fight EXCEPT !.edit = @ + 1] # NoFight
      BY <3>1, <1>16 DEF Edit, Fights, NoFight
    <3>3. room' = [room EXCEPT ![live].fight = [room[live].fight EXCEPT !.edit = @ + 1]]
      BY <1>1, <2>1, <1>16 DEF Edit, RoomState
    <3>4. room'[live].fight = [room[live].fight EXCEPT !.edit = @ + 1]
      BY <1>1, <2>1, <3>3 DEF RoomState
    <3> QED
      BY <3>2, <3>3, <3>4, <1>16 DEF Edit
  <2>3. UNCHANGED <<live, made, row, over, clean>>
    BY <1>1, <1>16 DEF Edit, counts, database
  <2>4. \A r \in Rooms : room'[r].fight = IF r = live THEN f ELSE room[r].fight
    BY <1>1, <1>2, <1>16, <2>1, <2>2 DEF Edit, RoomState
  <2>5. handler' = handler
    BY <1>16 DEF Edit
  <2>6. Unmade'
    BY <1>1, <1>2, <1>3, <2>3, <2>4, <2>1 DEF Unmade, Rooms
  <2>7. Alone'
    BY <1>1, <1>2, <1>3, <1>4, <2>3, <2>4, <2>5, <2>1, <2>2 DEF Alone, Busy, Free
  <2>8. Saved'
    BY <1>1, <1>2, <1>3, <1>4, <2>3, <2>4, <2>5, <2>1, <2>2 DEF Saved, Busy
  <2>9. Forgotten'
    BY <1>1, <1>2, <1>3, <1>4, <2>3, <2>4, <2>5, <2>1, <2>2 DEF Forgotten
  <2> QED
    BY <2>6, <2>7, <2>8, <2>9 DEF FightInv
<1>17. ASSUME NEW w \in Fights, Write(w)
      PROVE  FightInv'
  <2>1. UNCHANGED <<live, made, over, clean>> /\ w \in writes /\ writes' = writes \ {w}
        /\ row' = IF row = NoFight THEN NoFight ELSE w
    BY <1>1, <1>17 DEF Write, counts, database
  <2>2. \A r \in Rooms : room'[r].fight = room[r].fight
    BY <1>1, <1>2, <1>17 DEF Write, RoomState
  <2>3. handler' = handler
    BY <1>17 DEF Write
  <2>4. Unmade'
    BY <1>1, <1>2, <1>3, <2>1, <2>2 DEF Unmade, Rooms
  <2>5. Alone'
    BY <1>1, <1>2, <1>3, <1>4, <2>1, <2>2, <2>3 DEF Alone, Busy, Free
  <2>6. Saved'
    BY <1>1, <1>2, <1>3, <1>4, <2>1, <2>2, <2>3 DEF Saved, Busy
  <2>7. Forgotten'
    BY <1>1, <1>2, <1>3, <1>4, <2>1, <2>2, <2>3 DEF Forgotten
  <2> QED
    BY <2>4, <2>5, <2>6, <2>7 DEF FightInv
<1>18. ASSUME Enter
      PROVE  FightInv'
  <2>1. UNCHANGED <<writes, row, over, clean>> /\ live = 0 /\ live' = made + 1 /\ made' = made + 1
        /\ made + 1 \in Rooms
    BY <1>1, <1>18 DEF Enter, Rooms, counts, database
  <2>2. \A r \in Rooms : room'[r].fight = room[r].fight
    BY <1>1, <1>2, <1>18 DEF Enter, Rooms, RoomState
  <2>3. handler' = handler
    BY <1>18 DEF Enter, Rooms
  <2>4. Unmade'
    BY <1>1, <1>2, <1>3, <2>1, <2>2 DEF Unmade, Rooms
  <2>5. Alone'
    BY <1>1, <1>2, <1>3, <1>4, <2>1, <2>2, <2>3 DEF Unmade, Alone, Busy, Free
  <2>6. Saved'
    BY <1>1, <1>2, <1>3, <1>4, <2>1, <2>2, <2>3 DEF Unmade, Saved, Busy
  <2>7. Forgotten'
    BY <1>1, <1>2, <1>3, <1>4, <2>1, <2>2, <2>3 DEF Unmade, Forgotten
  <2> QED
    BY <2>4, <2>5, <2>6, <2>7 DEF FightInv
<1>19. ASSUME Empty
      PROVE  FightInv'
  <2>1. UNCHANGED <<made, writes, row, over, clean>> /\ live' = 0
    BY <1>1, <1>19 DEF Empty, counts, database
  <2>2. \A r \in Rooms : room'[r].fight = room[r].fight
    BY <1>1, <1>2, <1>19 DEF Empty, RoomState
  <2>3. handler' = handler
    BY <1>19 DEF Empty
  <2>4. Unmade'
    BY <1>1, <1>2, <1>3, <2>1, <2>2 DEF Unmade, Rooms
  <2>5. Alone'
    BY <1>1, <1>2, <1>3, <1>4, <2>1, <2>2, <2>3 DEF Alone, Busy, Free
  <2>6. Saved'
    BY <1>1, <1>2, <1>3, <1>4, <2>1, <2>2, <2>3 DEF Saved, Busy
  <2>7. Forgotten'
    BY <1>1, <1>2, <1>3, <1>4, <2>1, <2>2, <2>3 DEF Forgotten
  <2> QED
    BY <2>4, <2>5, <2>6, <2>7 DEF FightInv
<1>20. ASSUME NEW h \in Handlers, Start(h)
      PROVE  FightInv'
  <2>1. Started(h)
    BY <1>1, <1>20, StartEffect
  <2>2. /\ UNCHANGED <<live, made, writes, row, over>> /\ (clean' => clean)
        /\ \A r \in Rooms : room'[r].fight = room[r].fight
    BY <2>1 DEF Started
  <2>3. \/ handler' = handler
        \/ /\ Free(h) /\ (clean' => ~Deleting)
           /\ \A g \in Handlers : handler'[g] =
                IF g = h THEN [does |-> "load", in |-> live, fight |-> NoFight] ELSE handler[g]
    BY <1>1, <2>1 DEF Started, Waits
  <2>4. Unmade'
    BY <1>1, <1>3, <2>2 DEF Unmade, Rooms
  <2>5. Alone'
    <3>1. CASE handler' = handler
      BY <1>1, <1>3, <2>2, <3>1 DEF Alone, Busy, Free
    <3>2. CASE handler' # handler
      BY <1>1, <1>3, <2>2, <2>3, <3>2 DEF Alone, Busy, Free, Deleting
    <3> QED
      BY <3>1, <3>2
  <2>6. Saved'
    BY <1>1, <1>2, <1>3, <2>2, <2>3 DEF Saved, Busy
  <2>7. Forgotten'
    BY <1>1, <1>2, <1>3, <2>2, <2>3 DEF Forgotten
  <2> QED
    BY <2>4, <2>5, <2>6, <2>7 DEF FightInv
<1>21. ASSUME Restart
      PROVE  FightInv'
  <2>1. /\ UNCHANGED <<made, row, over, clean>> /\ live' = 0 /\ writes' = {}
        /\ (\A r \in Rooms : room'[r].fight = NoFight) /\ \A g \in Handlers : handler'[g] = Idle
    BY <1>21 DEF Restart, NewRoom
  <2>2. Unmade' /\ Alone'
    BY <1>4, <2>1 DEF Unmade, Alone, Busy
  <2>3. Saved' /\ Forgotten'
    BY <1>1, <1>3, <1>4, <2>1 DEF Saved, Forgotten, Busy
  <2> QED
    BY <2>2, <2>3 DEF FightInv
<1>22. CASE UNCHANGED vars
  <2>1. Unmade' /\ Alone'
    BY <1>3, <1>22 DEF Unmade, Alone, Busy, Free, vars
  <2>2. Saved' /\ Forgotten'
    BY <1>3, <1>22 DEF Saved, Forgotten, Busy, vars
  <2> QED
    BY <2>1, <2>2 DEF FightInv
<1> QED
  BY <1>5, <1>6, <1>7, <1>8, <1>9, <1>10, <1>11, <1>12, <1>13, <1>14, <1>15, <1>16, <1>17, <1>18, <1>19, <1>20, <1>21, <1>22 DEF Next, Start

LEMMA FightInit == Init => FightInv
<1> SUFFICES ASSUME Init PROVE FightInv
  OBVIOUS
<1>1. Unmade /\ Alone
  BY DEF Init, Unmade, Alone, NewRoom, Busy, Idle
<1>2. Saved /\ Forgotten
  BY DEF Init, Saved, Forgotten, NewRoom, Busy, Idle, NoFight
<1> QED
  BY <1>1, <1>2 DEF FightInv

(* A fight that runs has a row to come back from after a restart, as soon  *)
(* as the queries in flight are done and if no INSERT failed and no        *)
(* teardown met another handler: joins that read the row back, edits that  *)
(* are written without being awaited, dropped rooms and restarts may cross *)
(* in any way (persistence of combat_state, services/CombatService.ts).    *)
THEOREM RunningFightHasItsRow == Spec => []SurvivesRestart
<1>1. FightInv => SurvivesRestart
  BY DEF FightInv, Saved, SurvivesRestart, Quiet, Free, Busy, Idle
<1> QED
  BY <1>1, TypeInit, TypeStep, FightInit, FightStep, PTL DEF Spec

(* A fight that was torn down stays down, in the room and in the row a     *)
(* later join would read it back from, provided the teardown met nobody    *)
(* (combat:end, socket/combat/lifecycleEvents.ts).                         *)
THEOREM EndedFightStaysEnded == Spec => []EndedStaysEnded
<1>1. FightInv => EndedStaysEnded
  BY DEF FightInv, Forgotten, EndedStaysEnded
<1> QED
  BY <1>1, TypeInit, TypeStep, FightInit, FightStep, PTL DEF Spec
=============================================================================
