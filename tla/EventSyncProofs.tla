--------------------------- MODULE EventSyncProofs ---------------------------
(***************************************************************************)
(* Proofs about EventSync for any length of the log, any number of earlier *)
(* events, changes and faults.                                             *)
(***************************************************************************)
EXTENDS EventSync, TLAPS, SequenceTheorems, WellFoundedInduction

(* Every number the browser holds or will be given is one the server has   *)
(* said, since a new server process closes all that was under way.         *)
Known ==
  /\ \A p \in Parts : truth[p] <= changes + 1
  /\ nextEventId <= Before + changes
  /\ \A i \in DOMAIN wire : wire[i].id <= nextEventId
  /\ pull.stamp <= nextEventId /\ ask.latest <= nextEventId

TypeInv == TypeOK /\ Known

(* An answer of GET state has a board, or is that of a server without the  *)
(* room.                                                                   *)
HasABoard ==
  pull.at # "idle" =>
    \/ pull.sees["board"] # 0
    \/ pull.at = "back" /\ pull.sees = Nothing /\ pull.stamp = 0

(* An event is about one part.                                             *)
OnePart(sets) == sets["board"] = 0 \/ sets["fight"] = 0
OneSubject ==
  /\ \A i \in DOMAIN said : OnePart(said[i])
  /\ \A i \in DOMAIN ask.events : OnePart(ask.events[i])

----------------------------------------------------------------------------
(* The greatest of some numbers.                                           *)

LEMMA MaxOfTwo ==
  ASSUME NEW a \in Nat, NEW b \in Nat
  PROVE  Max({a, b}) = IF a >= b THEN a ELSE b
<1> DEFINE m == IF a >= b THEN a ELSE b
<1>1. m \in {a, b} /\ \A y \in {a, b} : m >= y
  OBVIOUS
<1>2. \A x \in {a, b} : (\A y \in {a, b} : x >= y) => x = m
  OBVIOUS
<1> QED
  BY <1>1, <1>2 DEF Max

LEMMA MaxIsGreatest ==
  ASSUME NEW n \in Nat, NEW S \in SUBSET (1 .. n), S # {}
  PROVE  Max(S) \in S /\ \A y \in S : y <= Max(S)
<1> DEFINE T == {n - y : y \in S}
<1>1. T \in SUBSET Nat /\ T # {}
  <2>1. \A y \in S : y \in 1 .. n
    OBVIOUS
  <2>2. \A y \in 1 .. n : n - y \in Nat
    OBVIOUS
  <2> QED
    BY <2>1, <2>2
<1>2. IsWellFoundedOn({ss \in Nat \X Nat : ss[1] < ss[2]}, Nat)
  BY NatLessThanWellFounded DEF OpToRel
<1>3. PICK x \in T : \A y \in T :
        ~(<<y, x>> \in {ss \in Nat \X Nat : ss[1] < ss[2]})
  BY <1>1, <1>2, WFMin
<1>4. PICK g \in S : x = n - g
  OBVIOUS
<1>5. ASSUME NEW y \in S PROVE g >= y
  <2>1. n - y \in T /\ n - y \in Nat /\ x \in Nat
    BY <1>1
  <2>2. ~(n - y < x)
    BY <1>3, <2>1
  <2> QED
    BY <1>4, <2>2
<1>6. Max(S) \in S /\ \A y \in S : Max(S) >= y
  BY <1>5 DEF Max
<1> QED
  BY <1>6

----------------------------------------------------------------------------
(* Replaying events is showing them one after the other: nothing changes   *)
(* for no events, and one more is shown over the view so far.              *)

LEMMA ReplayedIsAView ==
  ASSUME NEW view \in Views, NEW events \in Seq(Views)
  PROVE  Replayed(view, events) \in Views
<1>1. DOMAIN events = 1 .. Len(events) /\ Len(events) \in Nat
  BY LenProperties
<1>2. ASSUME NEW p \in Parts
      PROVE  Replayed(view, events)[p] \in 0 .. MaxChanges + 1
  <2> DEFINE about == {i \in DOMAIN events : events[i][p] # 0}
  <2>1. view[p] \in 0 .. MaxChanges + 1
    BY DEF Views
  <2>2. ASSUME about # {}
        PROVE  events[Max(about)][p] \in 0 .. MaxChanges + 1
    <3>1. Max(about) \in DOMAIN events
      BY <1>1, <2>2, MaxIsGreatest
    <3>2. events[Max(about)] \in Views
      BY <1>1, <3>1, ElementOfSeq
    <3> QED
      BY <3>2 DEF Views
  <2> HIDE DEF about
  <2>3. Replayed(view, events)[p] =
          IF about = {} \/ (p = "board" /\ view["board"] = 0)
            THEN view[p] ELSE events[Max(about)][p]
    BY DEF Replayed, about
  <2> QED
    BY <2>1, <2>2, <2>3
<1> QED
  BY <1>2 DEF Replayed, Views

\* The loop of pullEventCursor over the events it was sent, each with the part
\* it tells of, is one assignment: the last event about a part decides it.
THEOREM ReplayedOneByOne ==
  ASSUME NEW view \in Views, NEW events \in Seq(Views),
         NEW event \in Views, OnePart(event)
  PROVE  /\ Replayed(view, <<>>) = view
         /\ Replayed(view, Append(events, event)) = Apply(Replayed(view, events), event)
<1>1. Replayed(view, <<>>) = view
  BY DEF Replayed, Views
<1> DEFINE more == Append(events, event)
           n == Len(events)
           about(p) == {i \in DOMAIN events : events[i][p] # 0}
           late(p) == {i \in DOMAIN more : more[i][p] # 0}
<1>2. /\ n \in Nat /\ DOMAIN events = 1 .. n /\ DOMAIN more = 1 .. n + 1
      /\ more[n + 1] = event /\ \A i \in 1 .. n : more[i] = events[i]
  <2>1. n \in Nat /\ DOMAIN events = 1 .. n
    BY LenProperties
  <2> QED
    BY <2>1
<1> HIDE DEF more, n
<1>3. ASSUME NEW p \in Parts, event[p] # 0
      PROVE  late(p) # {} /\ Max(late(p)) = n + 1
  <2>1. n + 1 \in late(p) /\ late(p) \in SUBSET (1 .. n + 1) /\ n + 1 \in Nat
    BY <1>2, <1>3
  <2>2. Max(late(p)) \in 1 .. n + 1 /\ n + 1 <= Max(late(p))
    BY <2>1, MaxIsGreatest
  <2> QED
    BY <1>2, <2>1, <2>2
<1>4. ASSUME NEW p \in Parts, event[p] = 0
      PROVE  /\ late(p) = about(p)
             /\ about(p) # {} => /\ Max(about(p)) \in 1 .. n
                                 /\ events[Max(about(p))][p] # 0
                                 /\ more[Max(about(p))] = events[Max(about(p))]
  <2>1. late(p) = about(p)
    BY <1>2, <1>4
  <2>2. ASSUME about(p) # {} PROVE Max(about(p)) \in about(p)
    BY <1>2, <2>2, MaxIsGreatest
  <2> QED
    BY <1>2, <2>1, <2>2
<1>5. ASSUME NEW p \in Parts
      PROVE  /\ Replayed(view, events)[p] =
                  IF about(p) = {} \/ (p = "board" /\ view["board"] = 0)
                    THEN view[p] ELSE events[Max(about(p))][p]
             /\ Replayed(view, more)[p] =
                  IF late(p) = {} \/ (p = "board" /\ view["board"] = 0)
                    THEN view[p] ELSE more[Max(late(p))][p]
  BY DEF Replayed
<1>6. ASSUME NEW p \in Parts, about(p) # {}
      PROVE  events[Max(about(p))][p] # 0
  <2>1. Max(about(p)) \in about(p)
    BY <1>2, <1>6, MaxIsGreatest
  <2> QED
    BY <2>1
<1> HIDE DEF about, late
<1>7. Replayed(view, events)["board"] = 0 <=> view["board"] = 0
  BY <1>5, <1>6 DEF Parts
<1>8. ASSUME NEW p \in Parts
      PROVE  Replayed(view, more)[p] = Apply(Replayed(view, events), event)[p]
  <2>1. Apply(Replayed(view, events), event)[p] =
          IF (event["fight"] # 0 \/ view["board"] # 0) /\ event[p] # 0
            THEN event[p] ELSE Replayed(view, events)[p]
    BY <1>7 DEF Apply
  <2>2. CASE event[p] = 0
    BY <1>4, <1>5, <2>1, <2>2
  <2>3. CASE event[p] # 0
    <3>1. late(p) # {} /\ more[Max(late(p))] = event
      BY <1>2, <1>3, <2>3
    <3>2. CASE p = "fight"
      BY <1>5, <2>1, <2>3, <3>1, <3>2
    <3>3. CASE p = "board"
      <4>1. event["fight"] = 0
        BY <2>3, <3>3 DEF OnePart
      <4> QED
        BY <1>5, <1>7, <2>1, <2>3, <3>1, <3>3, <4>1
    <3> QED
      BY <3>2, <3>3 DEF Parts
  <2> QED
    BY <2>2, <2>3
<1>9. /\ Replayed(view, more) = [p \in Parts |-> Replayed(view, more)[p]]
      /\ Apply(Replayed(view, events), event) =
           [p \in Parts |-> Apply(Replayed(view, events), event)[p]]
  BY DEF Replayed, Apply
<1> QED
  BY <1>1, <1>8, <1>9 DEF more

----------------------------------------------------------------------------
(* Types.                                                                  *)

LEMMA Values ==
  /\ Nothing \in Views /\ NoTag \in Tags /\ NoPull \in Pulls /\ NoAsk \in Asks /\ NoJoin \in Joins
  /\ 0 \in EventIds /\ EventIds \subseteq Nat /\ 0 \in 0 .. MaxChanges + 1
<1>1. 0 \in EventIds /\ EventIds \subseteq Nat /\ 0 \in 0 .. MaxChanges + 1
  BY EventSyncAssumption DEF EventIds
<1>2. Nothing \in Views
  BY <1>1 DEF Nothing, Views
<1>3. NoTag \in Tags
  BY <1>1 DEF NoTag, Tags
<1>4. NoPull \in Pulls
  BY <1>1, <1>2, <1>3 DEF NoPull, Pulls
<1>5. NoAsk \in Asks
  BY <1>1 DEF NoAsk, Asks
<1>6. NoJoin \in Joins
  BY <1>1 DEF NoJoin, Joins
<1> QED
  BY <1>1, <1>2, <1>3, <1>4, <1>5, <1>6

LEMMA AboutIsAView ==
  ASSUME NEW p \in Parts, truth' \in [Parts -> 1 .. MaxChanges + 1]
  PROVE  About(p)' \in Views /\ OnePart(About(p)')
<1>1. truth'[p] \in 0 .. MaxChanges + 1
  BY EventSyncAssumption
<1>2. About(p)' = [Nothing EXCEPT ![p] = truth'[p]]
  BY DEF About, Nothing
<1>3. [Nothing EXCEPT ![p] = truth'[p]] \in Views
  BY <1>1, Values DEF Views
<1>4. OnePart([Nothing EXCEPT ![p] = truth'[p]])
  BY DEF OnePart, Nothing, Parts
<1> QED
  BY <1>2, <1>3, <1>4

LEMMA ApplyIsAView ==
  ASSUME NEW view \in Views, NEW frame \in Views
  PROVE  Apply(view, frame) \in Views
BY DEF Apply, Views

\* A frame that is sent waits behind the others.
LEMMA SendEffect ==
  ASSUME TypeInv, NEW id \in EventIds, NEW sets \in Views, Send(id, sets)
  PROVE  /\ wire' \in Seq(Frames)
         /\ \A i \in DOMAIN wire' : wire'[i].id = id \/ \E j \in DOMAIN wire : wire'[i].id = wire[j].id
<1> DEFINE f == [id |-> id, sets |-> sets]
<1>1. wire \in Seq(Frames) /\ f \in Frames /\ f.id = id
  BY DEF TypeInv, TypeOK, Frames
<1>2. wire' = Append(wire, f) \/ wire' = wire
  BY DEF Send
<1> HIDE DEF f
<1>3. CASE wire' = wire
  BY <1>1, <1>3
<1>4. CASE wire' = Append(wire, f)
  <2>1. /\ wire' \in Seq(Frames) /\ DOMAIN wire' = 1 .. Len(wire) + 1
        /\ DOMAIN wire = 1 .. Len(wire) /\ Len(wire) \in Nat
        /\ wire'[Len(wire) + 1] = f /\ \A i \in 1 .. Len(wire) : wire'[i] = wire[i]
    BY <1>1, <1>4
  <2> QED
    BY <1>1, <2>1
<1> QED
  BY <1>2, <1>3, <1>4

\* The cursor moves forward to a number that was said, or starts again.
LEMMA CursorEffect ==
  ASSUME TypeInv, NEW id \in EventIds, id <= nextEventId, nextEventId' = nextEventId,
         SetCursor(Max({cursor, id}))
  PROVE  /\ cursor' \in EventIds /\ old' \in BOOLEAN
         /\ cursor' <= nextEventId' \/ old'
<1>1. /\ cursor \in EventIds /\ old \in BOOLEAN /\ nextEventId \in Nat /\ cursor \in Nat /\ id \in Nat
      /\ cursor <= nextEventId \/ old
  BY Values DEF TypeInv, TypeOK
<1>2. Max({cursor, id}) = IF cursor >= id THEN cursor ELSE id
  BY <1>1, MaxOfTwo
<1>3. CASE cursor >= id
  <2>1. cursor' = cursor /\ old' = (old /\ cursor = cursor)
    BY <1>2, <1>3 DEF SetCursor
  <2> QED
    BY <1>1, <2>1
<1>4. CASE ~(cursor >= id)
  <2>1. cursor' = id
    BY <1>2, <1>4 DEF SetCursor
  <2>2. old' \in BOOLEAN
    BY DEF SetCursor
  <2> QED
    BY <1>1, <2>1, <2>2
<1> QED
  BY <1>3, <1>4

LEMMA LoggedIsSaid ==
  ASSUME TypeInv, NEW since \in EventIds
  PROVE  /\ Logged(since) \in Seq(Views)
         /\ \A i \in DOMAIN Logged(since) : \E j \in DOMAIN said : Logged(since)[i] = said[j]
         /\ ~FellOut(since) => Logged(since) = SubSeq(said, since + 1, nextEventId)
<1>1. /\ said \in Seq(Views) /\ nextEventId \in Nat /\ since \in Nat /\ MaxLog \in Nat \ {0}
      /\ DOMAIN said = 1 .. nextEventId
  BY EventSyncAssumption, Values DEF TypeInv, TypeOK, nextEventId
<1>2. Oldest \in Nat
  <2>1. CASE (nextEventId + 1) - MaxLog \in Nat
    BY <1>1, <2>1, MaxOfTwo DEF Oldest
  <2>2. CASE (nextEventId + 1) - MaxLog \notin Nat
    <3>1. (nextEventId + 1) - MaxLog \in Int /\ (nextEventId + 1) - MaxLog < 1
      BY <1>1, <2>2
    <3>2. Max({1, (nextEventId + 1) - MaxLog}) = 1
      BY <3>1 DEF Max
    <3> QED
      BY <3>2 DEF Oldest
  <2> QED
    BY <2>1, <2>2
<1>3. Max({since + 1, Oldest}) = IF since + 1 >= Oldest THEN since + 1 ELSE Oldest
  BY <1>1, <1>2, MaxOfTwo
<1>4. PICK m \in Nat : m = Max({since + 1, Oldest})
  BY <1>1, <1>2, <1>3
<1>5. m >= 1
  BY <1>1, <1>2, <1>3, <1>4
<1>6. Logged(since) = SubSeq(said, m, nextEventId)
  BY <1>4 DEF Logged
<1>7. \A i \in m .. nextEventId : said[i] \in Views
  BY <1>1, <1>5
<1>8. /\ Logged(since) \in Seq(Views)
      /\ Len(Logged(since)) = IF m <= nextEventId THEN nextEventId - m + 1 ELSE 0
      /\ \A i \in 1 .. nextEventId - m + 1 : Logged(since)[i] = said[m + i - 1]
  <2>1. m \in Int /\ nextEventId \in Int
    BY <1>1, <1>4
  <2>2. /\ SubSeq(said, m, nextEventId) \in Seq(Views)
        /\ Len(SubSeq(said, m, nextEventId)) = IF m <= nextEventId THEN nextEventId - m + 1 ELSE 0
        /\ \A i \in 1 .. nextEventId - m + 1 : SubSeq(said, m, nextEventId)[i] = said[m + i - 1]
    BY <1>7, <2>1, SubSeqProperties
  <2> QED
    BY <1>6, <2>2
<1>9. ASSUME NEW i \in DOMAIN Logged(since)
      PROVE  \E j \in DOMAIN said : Logged(since)[i] = said[j]
  <2>1. i \in 1 .. nextEventId - m + 1
    BY <1>1, <1>8
  <2>2. m + i - 1 \in DOMAIN said
    BY <1>1, <1>5, <2>1
  <2> QED
    BY <1>8, <2>1, <2>2
<1>10. ASSUME ~FellOut(since) PROVE m = since + 1
  BY <1>1, <1>2, <1>3, <1>4, <1>10 DEF FellOut
<1> QED
  BY <1>6, <1>8, <1>9, <1>10

LEMMA TypeInit == Init => TypeInv
<1> SUFFICES ASSUME Init PROVE TypeInv
  OBVIOUS
<1>1. truth \in [Parts -> 1 .. MaxChanges + 1] /\ \A p \in Parts : truth[p] <= changes + 1
  BY EventSyncAssumption DEF Init
<1>2. said \in Seq(Views) /\ nextEventId = Before
  <2>1. About("board") \in Views
    <3>1. About("board") = [Nothing EXCEPT !["board"] = truth["board"]]
      BY DEF About
    <3>2. truth["board"] \in 0 .. MaxChanges + 1
      BY <1>1, EventSyncAssumption DEF Parts
    <3> QED
      BY <3>1, <3>2, Values DEF Views
  <2>2. said = [i \in 1 .. Before |-> About("board")] /\ Before \in Nat
    BY EventSyncAssumption DEF Init
  <2>3. said \in [1 .. Before -> Views]
    BY <2>1, <2>2
  <2>4. said \in Seq(Views) /\ Len(said) = Before
    BY <2>2, <2>3
  <2> QED
    BY <2>4 DEF nextEventId
<1>3. nextEventId \in EventIds /\ Before <= Before + changes /\ 0 <= nextEventId
  BY <1>2, EventSyncAssumption DEF EventIds, Init
<1>4. 0 \in 0 .. MaxChanges /\ 0 \in 0 .. MaxFaults
  BY EventSyncAssumption
<1>5. wire \in Seq(Frames) /\ DOMAIN wire = {}
  BY DEF Init
<1> QED
  BY <1>1, <1>2, <1>3, <1>4, <1>5, Values DEF Init, TypeInv, TypeOK, Known, NoPull, NoAsk

\* What a step of the browser leaves of the server.
LEMMA ServerKept ==
  ASSUME TypeInv, UNCHANGED <<truth, said, changes>>
  PROVE  /\ truth' \in [Parts -> 1 .. MaxChanges + 1] /\ said' \in Seq(Views)
         /\ nextEventId' = nextEventId /\ nextEventId' \in EventIds /\ changes' \in 0 .. MaxChanges
         /\ \A p \in Parts : truth'[p] <= changes' + 1
         /\ nextEventId' <= Before + changes'
BY DEF TypeInv, TypeOK, Known, nextEventId

LEMMA WriteEffect ==
  ASSUME TypeInv, NEW p \in Parts, Write(p)
  PROVE  /\ truth' \in [Parts -> 1 .. MaxChanges + 1] /\ changes' \in 0 .. MaxChanges
         /\ changes' = changes + 1 /\ \A q \in Parts : truth'[q] <= changes' + 1
         /\ room = "full" /\ UNCHANGED <<room, up, member, join, pull, ask, browser, faults>>
         /\ nextEventId + 1 \in EventIds /\ nextEventId + 1 <= Before + changes'
         /\ nextEventId \in EventIds /\ nextEventId <= Before + changes' /\ nextEventId \in Nat
<1>1. /\ truth \in [Parts -> 1 .. MaxChanges + 1] /\ changes \in 0 .. MaxChanges
      /\ \A q \in Parts : truth[q] <= changes + 1
      /\ nextEventId \in EventIds /\ nextEventId \in Nat /\ nextEventId <= Before + changes
      /\ MaxChanges \in Nat /\ Before \in Nat
  BY Values, EventSyncAssumption DEF TypeInv, TypeOK, Known
<1>2. /\ changes < MaxChanges /\ changes' = changes + 1 /\ room = "full"
      /\ truth' = [truth EXCEPT ![p] = @ + 1]
      /\ UNCHANGED <<room, up, member, join, pull, ask, browser, faults>>
  BY DEF Write
<1>3. ASSUME NEW q \in Parts
      PROVE  truth'[q] \in 1 .. MaxChanges + 1 /\ truth'[q] <= changes' + 1
  <2>1. truth'[q] = IF q = p THEN truth[q] + 1 ELSE truth[q]
    BY <1>1, <1>2
  <2>2. truth[q] \in Nat /\ truth[q] >= 1 /\ truth[q] <= changes + 1
    BY <1>1
  <2> QED
    BY <1>1, <1>2, <2>1, <2>2
<1>4. truth' \in [Parts -> 1 .. MaxChanges + 1]
  BY <1>1, <1>2, <1>3
<1>5. nextEventId + 1 \in EventIds /\ nextEventId + 1 <= Before + changes'
      /\ changes' \in 0 .. MaxChanges /\ nextEventId <= Before + changes'
  BY <1>1, <1>2 DEF EventIds
<1> QED
  BY <1>1, <1>2, <1>3, <1>4, <1>5

LEMMA TypeStep ==
  ASSUME TypeInv, [Next]_vars
  PROVE  TypeInv'
<1> USE DEF browser, server, socket
<1>0. /\ nextEventId \in Nat /\ Before \in Nat /\ changes \in Nat /\ MaxFaults \in Nat
      /\ \A i \in DOMAIN wire : wire[i] \in Frames /\ wire[i].id \in Nat
      /\ wire \in Seq(Frames)
      /\ pull.stamp \in Nat /\ ask.latest \in Nat
      /\ (Fault => faults' \in 0 .. MaxFaults)
  <2>1. nextEventId \in Nat /\ Before \in Nat /\ changes \in Nat /\ MaxFaults \in Nat
    BY Values, EventSyncAssumption DEF TypeInv, TypeOK
  <2>2. \A i \in DOMAIN wire : wire[i] \in Frames
    BY DEF TypeInv, TypeOK
  <2>3. \A f \in Frames : f.id \in Nat
    BY Values DEF Frames
  <2>4. pull.stamp \in Nat /\ ask.latest \in Nat
    BY Values DEF TypeInv, TypeOK, Pulls, Asks
  <2>5. Fault => faults' \in 0 .. MaxFaults
    BY <2>1 DEF Fault, TypeInv, TypeOK
  <2> QED
    BY <2>1, <2>2, <2>3, <2>4, <2>5 DEF TypeInv, TypeOK
<1>1. CASE UNCHANGED vars
  BY <1>1 DEF vars, TypeInv, TypeOK, Known, nextEventId
<1>2. ASSUME NEW p \in Parts, Broadcast(p) PROVE TypeInv'
  <2>1. Write(p) /\ said' = Append(said, About(p)') /\ Send(nextEventId + 1, About(p)')
    BY <1>2 DEF Broadcast
  <2>2. About(p)' \in Views
    BY <2>1, WriteEffect, AboutIsAView
  <2>3. said' \in Seq(Views) /\ nextEventId' = nextEventId + 1
    BY <2>1, <2>2 DEF TypeInv, TypeOK, nextEventId
  <2>4. /\ wire' \in Seq(Frames)
        /\ \A i \in DOMAIN wire' : wire'[i].id = nextEventId + 1
             \/ \E j \in DOMAIN wire : wire'[i].id = wire[j].id
    BY <2>1, <2>2, WriteEffect, SendEffect
  <2>5. \A i \in DOMAIN wire' : wire'[i].id <= nextEventId'
    BY <1>0, <2>3, <2>4 DEF TypeInv, Known
  <2>6. pull.stamp <= nextEventId' /\ ask.latest <= nextEventId' /\ (cursor <= nextEventId' \/ old)
    <3>1. cursor \in Nat
      BY Values DEF TypeInv, TypeOK
    <3> QED
      BY <1>0, <2>3, <3>1 DEF TypeInv, TypeOK, Known
  <2>7. TypeOK'
    BY <2>1, <2>3, <2>4, <2>6, WriteEffect DEF TypeInv, TypeOK
  <2>8. Known'
    BY <2>1, <2>3, <2>5, <2>6, WriteEffect DEF Known
  <2> QED
    BY <2>7, <2>8 DEF TypeInv
<1>3. ASSUME NEW p \in Parts, EmitUnlogged(p) PROVE TypeInv'
  <2>1. Write(p) /\ said' = said /\ Send(0, About(p)')
    BY <1>3 DEF EmitUnlogged
  <2>2. About(p)' \in Views
    BY <2>1, WriteEffect, AboutIsAView
  <2>3. nextEventId' = nextEventId
    BY <2>1 DEF nextEventId
  <2>4. /\ wire' \in Seq(Frames)
        /\ \A i \in DOMAIN wire' : wire'[i].id = 0
             \/ \E j \in DOMAIN wire : wire'[i].id = wire[j].id
    BY <2>1, <2>2, Values, SendEffect
  <2>5. \A i \in DOMAIN wire' : wire'[i].id <= nextEventId'
    BY <1>0, <2>3, <2>4 DEF TypeInv, Known
  <2>6. TypeOK'
    BY <2>1, <2>3, <2>4, WriteEffect DEF TypeInv, TypeOK
  <2>7. Known'
    BY <2>1, <2>3, <2>5, WriteEffect DEF TypeInv, Known
  <2> QED
    BY <2>6, <2>7 DEF TypeInv
<1>4. CASE OtherJoins
  <2>1. /\ UNCHANGED <<truth, said, changes, socket, pull, ask, browser, faults>>
        /\ room \in {"none", "bare"} /\ room' \in {"bare", "full"}
    BY <1>4 DEF OtherJoins
  <2> QED
    BY <2>1, ServerKept DEF TypeInv, TypeOK, Known
<1>5. CASE Connect
  <2>1. /\ UNCHANGED <<server, member, wire, pull, ask, browser, faults>> /\ up' = TRUE
        /\ join' = [NoJoin EXCEPT !.at = "asked"]
    BY <1>5 DEF Connect
  <2>2. join' \in Joins
    BY <2>1, Values DEF Joins
  <2> QED
    BY <2>1, <2>2, ServerKept DEF TypeInv, TypeOK, Known
<1>6. CASE JoinRead
  <2>1. /\ UNCHANGED <<truth, said, changes, up, wire, pull, ask, browser, faults>>
        /\ up /\ member' = TRUE /\ join' = [at |-> "read", board |-> truth["board"]]
        /\ room' \in {"none", "bare", "full"} /\ room' # "none"
    BY <1>6 DEF JoinRead, TypeInv, TypeOK
  <2>2. truth["board"] \in 0 .. MaxChanges + 1
    BY EventSyncAssumption DEF TypeInv, TypeOK, Parts
  <2>3. join' \in Joins
    BY <2>1, <2>2 DEF Joins
  <2> QED
    BY <2>1, <2>3, ServerKept DEF TypeInv, TypeOK, Known
<1>7. CASE JoinEmit
  <2>1. /\ UNCHANGED <<truth, said, changes, up, member, pull, ask, browser, faults>>
        /\ join' = NoJoin /\ room' = "full"
        /\ Send(0, [board |-> join.board, fight |-> truth["fight"]])
    BY <1>7 DEF JoinEmit
  <2>2. truth["fight"] \in 0 .. MaxChanges + 1 /\ join.board \in 0 .. MaxChanges + 1
    BY EventSyncAssumption DEF TypeInv, TypeOK, Parts, Joins
  <2>3. [board |-> join.board, fight |-> truth["fight"]] \in Views
    BY <2>2 DEF Views, Parts
  <2>4. /\ wire' \in Seq(Frames)
        /\ \A i \in DOMAIN wire' : wire'[i].id = 0
             \/ \E j \in DOMAIN wire : wire'[i].id = wire[j].id
    BY <2>1, <2>3, Values, SendEffect
  <2>5. \A i \in DOMAIN wire' : wire'[i].id <= nextEventId
    BY <1>0, <2>4 DEF TypeInv, Known
  <2>6. TypeOK'
    BY <2>1, <2>4, Values, ServerKept DEF TypeInv, TypeOK
  <2>7. Known'
    BY <2>1, <2>5, ServerKept DEF TypeInv, Known
  <2> QED
    BY <2>6, <2>7 DEF TypeInv
<1>8. CASE Deliver
  <2>1. /\ UNCHANGED <<server, up, member, join, pull, ask, faults>>
        /\ wire # <<>> /\ wire' = Tail(wire) /\ shown' = Apply(shown, Head(wire).sets)
        /\ SetCursor(Max({cursor, Head(wire).id})) /\ etag' = NoTag
    BY <1>8 DEF Deliver
  <2>2. /\ Head(wire) \in Frames /\ Tail(wire) \in Seq(Frames)
        /\ Head(wire).id <= nextEventId
        /\ \A i \in DOMAIN Tail(wire) : Tail(wire)[i].id <= nextEventId
    <3>1. /\ wire \in Seq(Frames) /\ \A i \in DOMAIN wire : wire[i].id <= nextEventId
          /\ DOMAIN wire = 1 .. Len(wire) /\ Len(wire) \in Nat \ {0}
      BY <1>0, <2>1 DEF TypeInv, Known
    <3>2. /\ Head(wire) = wire[1] /\ Tail(wire) \in Seq(Frames)
          /\ DOMAIN Tail(wire) = 1 .. Len(wire) - 1
          /\ \A i \in 1 .. Len(wire) - 1 : Tail(wire)[i] = wire[i + 1]
      BY <2>1, <3>1
    <3>3. 1 \in DOMAIN wire /\ \A i \in 1 .. Len(wire) - 1 : i + 1 \in DOMAIN wire
      BY <3>1
    <3> QED
      BY <1>0, <3>1, <3>2, <3>3
  <2>3. Head(wire).sets \in Views /\ Head(wire).id \in EventIds
    BY <2>2 DEF Frames
  <2>4. shown' \in Views
    BY <2>1, <2>3, ApplyIsAView DEF TypeInv, TypeOK
  <2>5. /\ nextEventId' = nextEventId
        /\ cursor' \in EventIds /\ old' \in BOOLEAN /\ (cursor' <= nextEventId' \/ old')
    BY <2>1, <2>2, <2>3, ServerKept, CursorEffect
  <2>6. TypeOK'
    BY <2>1, <2>2, <2>4, <2>5, Values, ServerKept DEF TypeInv, TypeOK
  <2>7. Known'
    BY <2>1, <2>2, ServerKept DEF TypeInv, Known
  <2> QED
    BY <2>6, <2>7 DEF TypeInv
<1>9. CASE AskState
  <2>1. UNCHANGED <<server, socket, ask, browser, faults>>
    BY <1>9 DEF AskState
  <2>2. pull' \in Pulls /\ pull'.stamp = 0
    <3>1. CASE room = "none"
      <4>1. pull' = [NoPull EXCEPT !.at = "back"]
        BY <1>9, <3>1 DEF AskState
      <4>2. NoPull \in Pulls /\ NoPull.stamp = 0
        BY Values DEF NoPull
      <4> QED
        BY <4>1, <4>2 DEF Pulls
    <3>2. CASE room # "none"
      <4>1. PICK f \in 0 .. MaxChanges + 1 :
              pull' = [at |-> "stamp", tag |-> [id |-> nextEventId, fresh |-> TRUE],
                       sees |-> [board |-> truth["board"], fight |-> f], stamp |-> 0]
        <5>1. truth["fight"] \in 0 .. MaxChanges + 1
          BY EventSyncAssumption DEF TypeInv, TypeOK, Parts
        <5> QED
          BY <1>9, <3>2, <5>1, Values DEF AskState
      <4>2. truth["board"] \in 0 .. MaxChanges + 1
        BY EventSyncAssumption DEF TypeInv, TypeOK, Parts
      <4>3. [board |-> truth["board"], fight |-> f] \in Views
        BY <4>2 DEF Views, Parts
      <4>4. [id |-> nextEventId, fresh |-> TRUE] \in Tags
        BY DEF Tags, TypeInv, TypeOK
      <4> QED
        BY <4>1, <4>3, <4>4, Values DEF Pulls
    <3> QED
      BY <3>1, <3>2
  <2> QED
    BY <1>0, <2>1, <2>2, ServerKept DEF TypeInv, TypeOK, Known
<1>10. CASE Stamp
  <2>1. /\ UNCHANGED <<server, socket, ask, browser, faults>>
        /\ pull' = [pull EXCEPT !.at = "back", !.stamp = nextEventId]
    BY <1>10 DEF Stamp
  <2>2. pull' \in Pulls /\ pull'.stamp = nextEventId
    BY <2>1 DEF Pulls, TypeInv, TypeOK
  <2> QED
    BY <1>0, <2>1, <2>2, ServerKept DEF TypeInv, TypeOK, Known
<1>11. CASE ReceiveState
  <2>1. UNCHANGED <<server, socket, ask, faults>> /\ pull' = NoPull /\ etag' \in {etag, pull.tag}
    BY <1>11 DEF ReceiveState
  <2>2. /\ etag' \in Tags /\ pull' \in Pulls /\ pull'.stamp = 0 /\ pull.sees \in Views
        /\ pull.stamp \in EventIds
    BY <2>1, Values DEF Pulls, TypeInv, TypeOK, NoPull
  <2>3. nextEventId' = nextEventId
    BY <2>1, ServerKept
  <2>4. shown' \in Views /\ cursor' \in EventIds /\ old' \in BOOLEAN /\ (cursor' <= nextEventId' \/ old')
    <3>1. CASE Discarded
      BY <1>11, <2>3, <3>1 DEF ReceiveState, TypeInv, TypeOK
    <3>2. CASE ~Discarded
      <4>1. /\ shown' = [pull.sees EXCEPT !["board"] = IF shown["board"] = 0 THEN 0 ELSE @]
            /\ SetCursor(Max({cursor, pull.stamp}))
        BY <1>11, <3>2 DEF ReceiveState
      <4>2. shown' \in Views
        BY <2>2, <4>1, Values DEF Views
      <4>3. pull.stamp <= nextEventId
        BY DEF TypeInv, Known
      <4> QED
        BY <2>2, <2>3, <4>1, <4>2, <4>3, CursorEffect
    <3> QED
      BY <3>1, <3>2
  <2>5. TypeOK'
    BY <2>1, <2>2, <2>4, ServerKept DEF TypeInv, TypeOK
  <2>6. Known'
    BY <1>0, <2>1, <2>2, ServerKept DEF TypeInv, Known
  <2> QED
    BY <2>5, <2>6 DEF TypeInv
<1>12. CASE Minute
  <2>1. /\ UNCHANGED <<server, socket, ask, shown, cursor, old, faults>>
        /\ etag' = NoTag /\ pull' = [pull EXCEPT !.tag = NoTag]
    BY <1>12 DEF Minute
  <2>2. pull' \in Pulls /\ pull'.stamp = pull.stamp
    BY <2>1, Values DEF Pulls, TypeInv, TypeOK
  <2> QED
    BY <2>1, <2>2, ServerKept, Values DEF TypeInv, TypeOK, Known
<1>13. CASE AskEvents
  <2>1. /\ UNCHANGED <<server, socket, pull, browser, faults>>
        /\ ask' = IF FellOut(cursor) THEN [NoAsk EXCEPT !.at = "gone"]
                  ELSE [at |-> "back", events |-> Logged(cursor), latest |-> nextEventId]
    BY <1>13 DEF AskEvents
  <2>2. Logged(cursor) \in Seq(Views) /\ nextEventId \in EventIds
    BY LoggedIsSaid DEF TypeInv, TypeOK
  <2>3. ask' \in Asks /\ ask'.latest <= nextEventId
    <3>1. CASE FellOut(cursor)
      <4>1. NoAsk \in Asks /\ NoAsk.latest = 0
        BY Values DEF NoAsk
      <4> QED
        BY <1>0, <2>1, <3>1, <4>1 DEF Asks
    <3>2. CASE ~FellOut(cursor)
      <4>1. ask' = [at |-> "back", events |-> Logged(cursor), latest |-> nextEventId]
        BY <2>1, <3>2
      <4> QED
        BY <1>0, <2>2, <4>1 DEF Asks
    <3> QED
      BY <3>1, <3>2
  <2> QED
    BY <2>1, <2>3, ServerKept DEF TypeInv, TypeOK, Known
<1>14. CASE ReceiveEvents
  <2>1. /\ UNCHANGED <<server, socket, pull, etag, faults>> /\ ask' = NoAsk
        /\ shown' = Replayed(shown, ask.events) /\ SetCursor(Max({cursor, ask.latest}))
    BY <1>14 DEF ReceiveEvents
  <2>2. ask.events \in Seq(Views) /\ ask.latest \in EventIds /\ ask.latest <= nextEventId
    BY DEF TypeInv, TypeOK, Asks, Known
  <2>3. shown' \in Views
    BY <2>1, <2>2, ReplayedIsAView DEF TypeInv, TypeOK
  <2>4. /\ nextEventId' = nextEventId
        /\ cursor' \in EventIds /\ old' \in BOOLEAN /\ (cursor' <= nextEventId' \/ old')
    BY <2>1, <2>2, ServerKept, CursorEffect
  <2>5. ask' \in Asks /\ ask'.latest = 0
    BY <2>1, Values DEF NoAsk
  <2>6. TypeOK'
    BY <2>1, <2>3, <2>4, <2>5, ServerKept DEF TypeInv, TypeOK
  <2>7. Known'
    BY <1>0, <2>1, <2>5, ServerKept DEF TypeInv, Known
  <2> QED
    BY <2>6, <2>7 DEF TypeInv
<1>15. CASE ReceiveGone
  <2>1. /\ UNCHANGED <<server, up, member, wire, pull, shown, etag, faults>> /\ ask' = NoAsk
        /\ SetCursor(0)
        /\ join' = IF up /\ join.at = "idle" THEN [NoJoin EXCEPT !.at = "asked"] ELSE join
    BY <1>15 DEF ReceiveGone
  <2>2. join' \in Joins
    BY <2>1, Values DEF Joins, TypeInv, TypeOK
  <2>3. cursor' = 0 /\ cursor' \in EventIds /\ old' \in BOOLEAN
    BY <2>1, Values DEF SetCursor
  <2>4. ask' \in Asks /\ ask'.latest = 0
    BY <2>1, Values DEF NoAsk
  <2>5. nextEventId' = nextEventId /\ 0 <= nextEventId'
    BY <1>0, <2>1, ServerKept
  <2>6. TypeOK'
    BY <2>1, <2>2, <2>3, <2>4, <2>5, ServerKept DEF TypeInv, TypeOK
  <2>7. Known'
    BY <2>1, <2>4, <2>5, ServerKept DEF TypeInv, Known
  <2> QED
    BY <2>6, <2>7 DEF TypeInv
<1>16. CASE Drop
  <2>1. /\ UNCHANGED <<server, pull, ask, browser>> /\ Fault
        /\ up' = FALSE /\ member' = FALSE /\ join' = NoJoin /\ wire' = <<>>
    BY <1>16 DEF Drop, Offline
  <2>2. wire' \in Seq(Frames) /\ DOMAIN wire' = {}
    BY <2>1
  <2> QED
    BY <1>0, <2>1, <2>2, ServerKept, Values DEF TypeInv, TypeOK, Known
<1>17. CASE LoseAnswer
  <2>1. /\ UNCHANGED <<server, socket, browser>> /\ Fault
        /\ (pull' = NoPull /\ ask' = ask) \/ (ask' = NoAsk /\ pull' = pull)
    BY <1>17 DEF LoseAnswer
  <2>2. /\ pull' \in Pulls /\ (pull'.stamp = 0 \/ pull'.stamp = pull.stamp)
        /\ ask' \in Asks /\ (ask'.latest = 0 \/ ask'.latest = ask.latest)
    BY <2>1, Values DEF NoPull, NoAsk, TypeInv, TypeOK
  <2>3. pull'.stamp <= nextEventId /\ ask'.latest <= nextEventId
    BY <1>0, <2>2 DEF TypeInv, Known
  <2> QED
    BY <1>0, <2>1, <2>2, <2>3, ServerKept DEF TypeInv, TypeOK, Known
<1>18. CASE Restart
  <2>1. /\ UNCHANGED <<truth, changes, shown, cursor, etag>> /\ Fault
        /\ room' = "none" /\ said' = <<>> /\ pull' = NoPull /\ ask' = NoAsk
        /\ old' = (cursor # 0)
        /\ up' = FALSE /\ member' = FALSE /\ join' = NoJoin /\ wire' = <<>>
    BY <1>18 DEF Restart, Offline
  <2>2. wire' \in Seq(Frames) /\ DOMAIN wire' = {} /\ said' \in Seq(Views) /\ nextEventId' = 0
    BY <2>1 DEF nextEventId
  <2>3. pull' \in Pulls /\ pull'.stamp = 0 /\ ask' \in Asks /\ ask'.latest = 0
    BY <2>1, Values DEF NoPull, NoAsk
  <2>4. old' \in BOOLEAN /\ (cursor' <= nextEventId' \/ old')
    <3>1. cursor' \in Nat /\ cursor' = cursor
      BY <2>1, Values DEF TypeInv, TypeOK
    <3>2. old' \in BOOLEAN
      BY <2>1
    <3>3. cursor = 0 => cursor' <= nextEventId'
      BY <2>2, <3>1
    <3> QED
      BY <2>1, <3>2, <3>3
  <2>5. TypeOK'
    BY <1>0, <2>1, <2>2, <2>3, <2>4, Values DEF TypeInv, TypeOK
  <2>6. 0 <= Before + changes'
    BY <1>0, <2>1
  <2>7. Known'
    BY <2>1, <2>2, <2>3, <2>6 DEF TypeInv, Known
  <2> QED
    BY <2>5, <2>7 DEF TypeInv
<1> QED
  BY <1>1, <1>2, <1>3, <1>4, <1>5, <1>6, <1>7, <1>8, <1>9, <1>10, <1>11, <1>12, <1>13, <1>14,
     <1>15, <1>16, <1>17, <1>18
     DEF Next, Change, Hydrate, PullState, PullEvents

(* The cursor of a browser is never ahead of what the room has said,       *)
(* unless it is of a former room, however frames, snapshots, replays and   *)
(* restarts meet; every view stays one of the board and the fight.         *)
THEOREM TypeCorrect == Spec => []TypeOK
<1>1. TypeInv => TypeOK
  BY DEF TypeInv
<1> QED
  BY TypeInit, TypeStep, <1>1, PTL DEF Spec

----------------------------------------------------------------------------
(* The replay.                                                             *)

(* An answer of GET events that is not a 410 has every event after the     *)
(* cursor up to the number it moves the cursor to, in order, for any       *)
(* length of the log.                                                      *)
THEOREM ReplayLeavesNoHole == Spec => ReplayComplete
<1>1. ASSUME TypeInv, [Next]_vars, ask.at = "idle", ask'.at = "back", ~old
      PROVE  ask'.events = SubSeq(said, cursor + 1, ask'.latest)
  <2>1. AskEvents
    <3>1. ask' # ask /\ ask' # NoAsk
      BY <1>1 DEF NoAsk
    <3> QED
      BY <1>1, <3>1
         DEF Next, vars, Change, Broadcast, EmitUnlogged, Write, OtherJoins, Hydrate, Connect,
             JoinRead, JoinEmit, Deliver, PullState, AskState, Stamp, ReceiveState, Minute,
             PullEvents, ReceiveEvents, ReceiveGone, Drop, LoseAnswer, Restart
  <2>2. /\ cursor \in EventIds
        /\ ask' = IF FellOut(cursor) THEN [NoAsk EXCEPT !.at = "gone"]
                  ELSE [at |-> "back", events |-> Logged(cursor), latest |-> nextEventId]
    BY <1>1, <2>1 DEF AskEvents, TypeInv, TypeOK
  <2>3. ~FellOut(cursor)
    BY <1>1, <2>2 DEF NoAsk
  <2>4. ask'.events = Logged(cursor) /\ ask'.latest = nextEventId
    BY <2>2, <2>3
  <2> QED
    BY <1>1, <2>2, <2>3, <2>4, LoggedIsSaid
<1>2. TypeInv /\ [Next]_vars =>
        [ask.at = "idle" /\ ask'.at = "back" /\ ~old =>
           ask'.events = SubSeq(said, cursor + 1, ask'.latest)]_vars
  BY <1>1
<1> QED
  BY TypeInit, TypeStep, <1>2, PTL DEF Spec, ReplayComplete

\* Only GET events takes something from the log, and only a broadcast adds
\* to it.
LEMMA SubjectStep ==
  ASSUME TypeInv, OneSubject, [Next]_vars
  PROVE  OneSubject'
<1>1. ASSUME NEW p \in Parts, Broadcast(p) PROVE OneSubject'
  <2>1. said' = Append(said, About(p)') /\ ask' = ask
    BY <1>1 DEF Broadcast, Write
  <2>2. About(p)' \in Views /\ OnePart(About(p)')
    BY <1>1, WriteEffect, AboutIsAView DEF Broadcast
  <2>3. /\ said \in Seq(Views) /\ DOMAIN said' = 1 .. Len(said) + 1 /\ DOMAIN said = 1 .. Len(said)
        /\ Len(said) \in Nat
        /\ said'[Len(said) + 1] = About(p)' /\ \A i \in 1 .. Len(said) : said'[i] = said[i]
    BY <2>1, <2>2 DEF TypeInv, TypeOK
  <2>4. \A i \in DOMAIN said' : OnePart(said'[i])
    BY <2>2, <2>3 DEF OneSubject
  <2> QED
    BY <2>1, <2>4 DEF OneSubject, OnePart
<1>2. CASE AskEvents
  <2>1. said' = said /\ cursor \in EventIds
    BY <1>2 DEF AskEvents, server, TypeInv, TypeOK
  <2>2. ask'.events = <<>> \/ ask'.events = Logged(cursor)
    BY <1>2 DEF AskEvents, NoAsk
  <2>3. \A i \in DOMAIN Logged(cursor) : OnePart(Logged(cursor)[i])
    BY <2>1, LoggedIsSaid DEF OneSubject
  <2>4. \A i \in DOMAIN ask'.events : OnePart(ask'.events[i])
    BY <2>2, <2>3
  <2> QED
    BY <2>1, <2>4 DEF OneSubject, OnePart
<1>3. ASSUME said' = said \/ said' = <<>>, ask' = ask \/ ask' = NoAsk
      PROVE  OneSubject'
  BY <1>3 DEF OneSubject, OnePart, NoAsk
<1>4. ASSUME ~AskEvents, \A p \in Parts : ~Broadcast(p)
      PROVE  (said' = said \/ said' = <<>>) /\ (ask' = ask \/ ask' = NoAsk)
  BY <1>4 DEF Next, vars, Change, EmitUnlogged, Write, OtherJoins, Hydrate, Connect, JoinRead,
              JoinEmit, Deliver, PullState, AskState, Stamp, ReceiveState, Minute, PullEvents,
              ReceiveEvents, ReceiveGone, Drop, LoseAnswer, Restart, server
<1> QED
  BY <1>1, <1>2, <1>3, <1>4

(* Every event that is replayed is about one part, so replaying an answer  *)
(* is showing its events one by one (ReplayedOneByOne).                    *)
THEOREM EventsHaveOneSubject == Spec => []OneSubject
<1>1. Init => OneSubject
  <2> SUFFICES ASSUME Init PROVE OneSubject
    OBVIOUS
  <2>1. \A i \in DOMAIN said : said[i] = [Nothing EXCEPT !["board"] = truth["board"]]
    BY DEF Init, About
  <2>2. OnePart([Nothing EXCEPT !["board"] = truth["board"]])
    BY DEF OnePart, Nothing, Parts
  <2>3. ask.events = <<>>
    BY DEF Init, NoAsk
  <2> QED
    BY <2>1, <2>2, <2>3 DEF OneSubject
<1> QED
  BY TypeInit, TypeStep, SubjectStep, <1>1, PTL DEF Spec

----------------------------------------------------------------------------
(* The board.                                                              *)

LEMMA BoardStep ==
  ASSUME TypeInv, HasABoard, [Next]_vars
  PROVE  HasABoard'
<1>1. CASE AskState
  <2>1. CASE room = "none"
    <3>1. pull' = [NoPull EXCEPT !.at = "back"]
      BY <1>1, <2>1 DEF AskState
    <3>2. pull'.at = "back" /\ pull'.sees = Nothing /\ pull'.stamp = 0
      BY <3>1 DEF NoPull
    <3> QED
      BY <3>2 DEF HasABoard
  <2>2. CASE room # "none"
    <3>1. pull'.sees["board"] = truth["board"]
      BY <1>1, <2>2 DEF AskState
    <3>2. truth["board"] \in 1 .. MaxChanges + 1
      BY DEF TypeInv, TypeOK, Parts
    <3> QED
      BY <3>1, <3>2, EventSyncAssumption DEF HasABoard
  <2> QED
    BY <2>1, <2>2
<1>2. CASE Stamp
  <2>1. pull.at = "stamp" /\ pull'.sees = pull.sees
    BY <1>2 DEF Stamp, TypeInv, TypeOK, Pulls
  <2> QED
    BY <2>1 DEF HasABoard
<1>3. CASE Minute
  <2>1. pull'.at = pull.at /\ pull'.sees = pull.sees /\ pull'.stamp = pull.stamp
    BY <1>3 DEF Minute, TypeInv, TypeOK, Pulls
  <2> QED
    BY <2>1 DEF HasABoard
<1>4. ASSUME pull' = pull \/ pull' = NoPull
      PROVE  HasABoard'
  BY <1>4 DEF HasABoard, NoPull
<1>5. ASSUME ~AskState, ~Stamp, ~Minute
      PROVE  pull' = pull \/ pull' = NoPull
  BY <1>5 DEF Next, vars, Change, Broadcast, EmitUnlogged, Write, OtherJoins, Hydrate, Connect,
              JoinRead, JoinEmit, Deliver, PullState, ReceiveState, PullEvents, AskEvents,
              ReceiveEvents, ReceiveGone, Drop, LoseAnswer, Restart, socket, browser
<1> QED
  BY <1>1, <1>2, <1>3, <1>4, <1>5

(* No frame, replay or answer of GET state empties the board of a browser  *)
(* that has one: not even that of a server without the room.               *)
THEOREM BoardNeverWiped == Spec => NothingWiped
<1>1. ASSUME TypeInv, HasABoard, [Next]_vars, shown["board"] # 0
      PROVE  shown'["board"] # 0
  <2>1. CASE Deliver
    BY <1>1, <2>1 DEF Deliver, Apply, Parts
  <2>2. CASE ReceiveEvents
    <3>1. ask.events \in Seq(Views)
      BY <1>1 DEF TypeInv, TypeOK, Asks
    <3>2. DOMAIN ask.events = 1 .. Len(ask.events) /\ Len(ask.events) \in Nat
      BY <3>1, LenProperties
    <3> DEFINE about == {i \in DOMAIN ask.events : ask.events[i]["board"] # 0}
    <3>3. shown'["board"] = IF about = {} THEN shown["board"] ELSE ask.events[Max(about)]["board"]
      BY <1>1, <2>2 DEF ReceiveEvents, Replayed, Parts
    <3>4. about # {} => Max(about) \in about
      BY <3>2, MaxIsGreatest
    <3> QED
      BY <1>1, <3>3, <3>4
  <2>3. CASE ReceiveState
    <3>1. CASE Discarded
      BY <1>1, <2>3, <3>1 DEF ReceiveState
    <3>2. CASE ~Discarded
      <4>1. shown # Nothing
        BY <1>1 DEF Nothing, Parts
      <4>2. pull.at = "back" /\ ~(pull.stamp = 0 /\ pull.sees = Nothing)
        BY <2>3, <3>2, <4>1 DEF ReceiveState, Discarded
      <4>3. pull.sees["board"] # 0 /\ pull.sees \in Views
        BY <1>1, <4>2 DEF HasABoard, TypeInv, TypeOK, Pulls
      <4>4. shown' = [pull.sees EXCEPT !["board"] = IF shown["board"] = 0 THEN 0 ELSE @]
        BY <2>3, <3>2 DEF ReceiveState
      <4> QED
        BY <1>1, <4>3, <4>4 DEF Views, Parts
    <3> QED
      BY <3>1, <3>2
  <2>4. ASSUME ~Deliver, ~ReceiveEvents, ~ReceiveState
        PROVE  shown' = shown
    BY <1>1, <2>4 DEF Next, vars, Change, Broadcast, EmitUnlogged, Write, OtherJoins, Hydrate,
                  Connect, JoinRead, JoinEmit, PullState, AskState, Stamp, Minute, PullEvents,
                  AskEvents, ReceiveGone, Drop, LoseAnswer, Restart, browser
  <2> QED
    BY <1>1, <2>1, <2>2, <2>3, <2>4
<1>2. Init => HasABoard
  BY DEF Init, HasABoard, NoPull
<1>3. TypeInv /\ HasABoard /\ [Next]_vars => [shown["board"] # 0 => shown'["board"] # 0]_vars
  BY <1>1
<1> QED
  BY TypeInit, TypeStep, BoardStep, <1>2, <1>3, PTL DEF Spec, NothingWiped
=============================================================================
