---------------------------- MODULE ChronicleProofs ----------------------------
(***************************************************************************)
(* Proofs about Chronicle for any number of requests, workers, rows,       *)
(* messages and faults.                                                    *)
(***************************************************************************)
EXTENDS Chronicle, TLAPS, FiniteSetTheorems, WellFoundedInduction

----------------------------------------------------------------------------
(* The greatest and the least element of a set of numbers.                 *)

LEMMA LeastElement ==
  ASSUME NEW S \in SUBSET Nat, S # {}
  PROVE  \E x \in S : \A y \in S : x <= y
<1>1. IsWellFoundedOn({ss \in Nat \X Nat : ss[1] < ss[2]}, Nat)
  BY NatLessThanWellFounded DEF OpToRel
<1>2. PICK x \in S : \A y \in S :
        ~(<<y, x>> \in {ss \in Nat \X Nat : ss[1] < ss[2]})
  BY <1>1, WFMin
<1>3. ASSUME NEW y \in S PROVE x <= y
  <2>1. ~(y < x)
    BY <1>2
  <2>2. x \in Nat /\ y \in Nat
    OBVIOUS
  <2> QED
    BY <2>1, <2>2
<1> QED
  BY <1>3

LEMMA MinIn ==
  ASSUME NEW S \in SUBSET Nat, S # {}
  PROVE  Min(S) \in S
BY LeastElement DEF Min

LEMMA MaxIn ==
  ASSUME NEW n \in Nat, NEW S \in SUBSET (0 .. n), S # {}
  PROVE  Max(S) \in S
<1> DEFINE below == {n - x : x \in S}
<1>0. \A x \in S : n - x \in Nat
  OBVIOUS
<1>1. below \in SUBSET Nat /\ below # {}
  BY <1>0
<1>2. PICK b \in below : \A y \in below : b <= y
  BY <1>1, LeastElement
<1>3. PICK x \in S : b = n - x
  OBVIOUS
<1>4. ASSUME NEW y \in S PROVE x >= y
  <2>1. n - y \in below
    OBVIOUS
  <2>2. n - x <= n - y
    BY <1>2, <1>3, <2>1
  <2> QED
    BY <2>2
<1> QED
  BY <1>4 DEF Max

----------------------------------------------------------------------------
(* The inductive invariant.                                                *)

Time == 0 .. chat
Rows == [status : Statuses, own : BOOLEAN, since : Time, upto : Time, published : Time]

EntriesOK ==
  /\ entry \in [Entries -> Rows \cup {NoEntry}]
  /\ \A e \in Entries : entry[e].since <= entry[e].upto
  /\ \A e \in (made + 1) .. MaxEntries : entry[e] = NoEntry

TaskStates ==
  {Idle} \cup [does : Steps, on : 1 .. made, since : {0}, upto : {0}]
         \cup [does : {"chat", "insert"}, on : {0}, since : Time, upto : Time]
TasksOK == task \in [Tasks -> TaskStates]

WorkersOK == worker \in [Workers -> {NoJob} \cup [does : {"job", "report"}, on : 1 .. made]]

CountersOK ==
  /\ backend \in {"vertex", "worker"}
  /\ chat \in 0 .. MaxChat /\ made \in 0 .. MaxEntries
  /\ rare \in 0 .. MaxRare
  /\ lost \subseteq 1 .. made /\ told \cup waited \cup passed \subseteq 1 .. chat

LEMMA FourParts == TypeOK <=> EntriesOK /\ TasksOK /\ WorkersOK /\ CountersOK
BY DEF TypeOK, EntriesOK, TasksOK, WorkersOK, CountersOK, Rows, Time, TaskStates

\* Requests on their way to a row of their own.
Asking == {t \in Tasks : Awaits(t, "chat") \/ Awaits(t, "insert")}

\* There is room for their rows, and they insert spans the right way round.
RequestsFit ==
  /\ made + Cardinality(Asking) <= MaxEntries
  /\ \A t \in Tasks : Awaits(t, "insert") => task[t].since <= task[t].upto

\* Whatever a transcript starts after, and whatever was said before a
\* publication, has been in a published transcript, or was passed over in
\* one of the two ways.
Covered == told \cup waited \cup passed
Told(n) == \A m \in 1 .. n : m \in Covered
SpansOK ==
  /\ \A e \in Entries : Told(entry[e].since) /\ Told(entry[e].published)
  /\ \A t \in Tasks : Told(task[t].since)

(* What every step keeps.                                                  *)
IInv == TypeOK /\ RequestsFit /\ GeneratingIsHeld /\ SpansOK

----------------------------------------------------------------------------
(* Helpers.                                                                *)

LEMMA CutoffIn ==
  ASSUME EntriesOK, CountersOK
  PROVE  /\ Cutoff \in Time
         /\ Cutoff = 0 \/ \E e \in Entries : Cutoff = entry[e].published
<1> DEFINE S == {0} \cup {entry[e].published : e \in {x \in Entries : Has(x, "published")}}
<1>1. chat \in Nat
  BY ChronicleAssumption DEF CountersOK
<1>2. \A e \in Entries : entry[e].published \in 0 .. chat
  BY <1>1 DEF EntriesOK, Rows, Time, NoEntry
<1>3. S \in SUBSET (0 .. chat) /\ S # {}
  BY <1>1, <1>2
<1>4. Max(S) \in S
  BY <1>1, <1>3, MaxIn
<1> QED
  BY <1>3, <1>4 DEF Cutoff, Time

LEMMA SetKeeps ==
  ASSUME EntriesOK, UNCHANGED <<chat, made>>,
         NEW e \in Entries, NEW status \in Statuses, Set(e, status)
  PROVE  /\ EntriesOK'
         /\ \A x \in Entries : x # e => entry'[x] = entry[x]
         /\ \A x \in Entries : /\ entry'[x].since = entry[x].since
                              /\ entry'[x].published = entry[x].published
         /\ entry'[e].status \in {status, "none"}
<1>1. CASE ~Exists(e)
  BY <1>1 DEF Set, EntriesOK, Exists, Rows, Time, NoEntry
<1>2. CASE Exists(e)
  <2>1. entry[e] \in Rows
    BY <1>2 DEF Exists, EntriesOK
  <2>2. entry' = [entry EXCEPT ![e].status = status]
    BY <1>2 DEF Set
  <2>3. /\ entry'[e] = [entry[e] EXCEPT !.status = status]
        /\ \A x \in Entries : x # e => entry'[x] = entry[x]
    BY <2>2 DEF EntriesOK
  <2>4. entry'[e] \in Rows /\ entry'[e].status = status
        /\ entry'[e].since = entry[e].since /\ entry'[e].upto = entry[e].upto
        /\ entry'[e].published = entry[e].published
    BY <2>1, <2>3 DEF Rows
  <2>5. entry' \in [Entries -> Rows \cup {NoEntry}]
    BY <2>2, <2>3, <2>4 DEF EntriesOK
  <2>6. \A x \in (made + 1) .. MaxEntries : x # e
    BY <1>2 DEF Exists, EntriesOK
  <2>7. \A x \in (made + 1) .. MaxEntries : entry'[x] = NoEntry
    BY <2>2, <2>6 DEF EntriesOK
  <2> QED
    BY <2>3, <2>4, <2>5, <2>7 DEF EntriesOK, Rows, Time
<1> QED
  BY <1>1, <1>2

LEMMA ResultKeeps ==
  ASSUME EntriesOK, UNCHANGED <<chat, made>>,
         NEW e \in Entries, NEW status \in Statuses, Result(e, status)
  PROVE  /\ EntriesOK'
         /\ \A x \in Entries : x # e => entry'[x] = entry[x]
         /\ \A x \in Entries : /\ entry'[x].since = entry[x].since
                              /\ entry'[x].published = entry[x].published
         /\ status # "generating" => entry'[e].status # "generating"
         /\ entry[e].status \notin {"generating", "pending"} => entry' = entry
<1>1. CASE entry[e].status \in {"generating", "pending"}
  BY <1>1, SetKeeps DEF Result
<1>2. CASE entry[e].status \notin {"generating", "pending"}
  BY <1>2 DEF Result, EntriesOK, Rows, Time
<1> QED
  BY <1>1, <1>2

LEMMA PendingMin ==
  ASSUME Pending # {}
  PROVE  Min(Pending) \in Entries /\ Has(Min(Pending), "pending")
<1>1. Pending \in SUBSET Nat
  BY ChronicleAssumption DEF Pending, Entries
<1> QED
  BY <1>1, MinIn DEF Pending

LEMMA InitOK == Init => IInv
<1> SUFFICES ASSUME Init PROVE IInv
  OBVIOUS
<1> USE ChronicleAssumption DEF Init
<1>1. EntriesOK
  BY DEF EntriesOK, Entries, NoEntry
<1>2. TasksOK /\ WorkersOK /\ CountersOK
  BY DEF TasksOK, TaskStates, WorkersOK, CountersOK
<1>3. RequestsFit
  <2>1. Asking = {}
    BY DEF Asking, Awaits, Idle
  <2> QED
    BY <2>1, FS_EmptySet DEF RequestsFit, Awaits, Idle
<1>4. GeneratingIsHeld
  BY DEF GeneratingIsHeld, Has, NoEntry, Entries
<1>5. SpansOK
  BY DEF SpansOK, Told, NoEntry, Idle, Entries
<1> QED
  BY <1>1, <1>2, <1>3, <1>4, <1>5, FourParts DEF IInv

----------------------------------------------------------------------------
(* Types.                                                                  *)

\* Later messages and rows only make more room for spans and rows.
LEMMA Grows ==
  ASSUME {chat, chat', made, made'} \subseteq Nat, chat <= chat', made <= made'
  PROVE  /\ Time \subseteq Time' /\ Rows \subseteq Rows' /\ TaskStates \subseteq TaskStates'
         /\ 1 .. made \subseteq 1 .. made'
<1>1. Time \subseteq Time'
  BY DEF Time
<1>2. 1 .. made \subseteq 1 .. made'
  OBVIOUS
<1>3. Rows \subseteq Rows'
  <2>1. ASSUME NEW x \in Rows PROVE x \in Rows'
    BY <1>1 DEF Rows
  <2> QED
    BY <2>1
<1>4. TaskStates \subseteq TaskStates'
  <2>1. ASSUME NEW x \in TaskStates PROVE x \in TaskStates'
    BY <1>1, <1>2 DEF TaskStates
  <2> QED
    BY <2>1
<1> QED
  BY <1>1, <1>2, <1>3, <1>4

LEMMA OnKeeps ==
  ASSUME TasksOK, UNCHANGED <<chat, made>>, NEW t \in Tasks,
         \/ Done(t)
         \/ \E what \in Steps, e \in 1 .. made : On(t, what, e)
  PROVE  TasksOK'
<1>1. TaskStates' = TaskStates
  BY DEF TaskStates, Time
<1>2. CASE Done(t)
  BY <1>1, <1>2 DEF Done, TasksOK, TaskStates
<1>3. ASSUME NEW what \in Steps, NEW e \in 1 .. made, On(t, what, e) PROVE TasksOK'
  <2>1. [does |-> what, on |-> e, since |-> 0, upto |-> 0] \in TaskStates
    BY DEF TaskStates
  <2> QED
    BY <1>1, <1>3, <2>1 DEF On, TasksOK
<1> QED
  BY <1>2, <1>3

LEMMA TypesOf ==
  ASSUME TypeOK
  PROVE  /\ chat \in Nat /\ made \in Nat /\ made <= MaxEntries
         /\ \A t \in Tasks : task[t].does \in Steps => task[t].on \in 1 .. made
         /\ \A t \in Tasks : Awaits(t, "chat") \/ Awaits(t, "insert") =>
              task[t] \in [does : {"chat", "insert"}, on : {0}, since : Time, upto : Time]
         /\ \A w \in Workers : worker[w] # NoJob => worker[w].on \in 1 .. made
         /\ \A w \in Workers : worker[w].does # "idle" => worker[w] # NoJob
         /\ 1 .. made \subseteq Entries
         /\ \A e \in Entries : Exists(e) => e \in 1 .. made
<1> USE ChronicleAssumption, FourParts
<1>1. chat \in Nat /\ made \in Nat /\ made <= MaxEntries
  BY DEF CountersOK
<1>2. /\ \A t \in Tasks : task[t].does \in Steps => task[t].on \in 1 .. made
      /\ \A t \in Tasks : Awaits(t, "chat") \/ Awaits(t, "insert") =>
              task[t] \in [does : {"chat", "insert"}, on : {0}, since : Time, upto : Time]
  BY DEF TasksOK, TaskStates, Steps, Idle, Awaits
<1>3. /\ \A w \in Workers : worker[w] # NoJob => worker[w].on \in 1 .. made
      /\ \A w \in Workers : worker[w].does # "idle" => worker[w] # NoJob
  BY DEF WorkersOK, NoJob
<1>4. 1 .. made \subseteq Entries /\ \A e \in Entries : Exists(e) => e \in 1 .. made
  BY <1>1 DEF Entries, Exists, EntriesOK
<1> QED
  BY <1>1, <1>2, <1>3, <1>4

LEMMA TypeStep ==
  ASSUME IInv, [Next]_vars
  PROVE  TypeOK'
<1> USE ChronicleAssumption
<1>0. TypeOK /\ EntriesOK /\ TasksOK /\ WorkersOK /\ CountersOK
  BY FourParts DEF IInv
<1>a. (EntriesOK /\ TasksOK /\ WorkersOK /\ CountersOK)' => TypeOK'
  BY FourParts, PTL
<1>e. UNCHANGED <<entry, chat, made>> => EntriesOK'
  BY <1>0 DEF EntriesOK, Rows, Time
<1>t. UNCHANGED <<task, chat, made>> => TasksOK'
  BY <1>0 DEF TasksOK, TaskStates, Time
<1>w. UNCHANGED <<worker, made>> => WorkersOK'
  BY <1>0 DEF WorkersOK
<1>c. UNCHANGED <<backend, chat, made, lost, history>> /\ rare' \in 0 .. MaxRare => CountersOK'
  BY <1>0 DEF CountersOK, history
<1>r. rare' = rare \/ Rarely => rare' \in 0 .. MaxRare
  BY <1>0 DEF CountersOK, Rarely
<1>1. CASE Say
  <2>1. {chat, chat', made, made'} \subseteq Nat /\ chat <= chat' /\ made <= made'
    BY <1>0, <1>1 DEF Say, CountersOK, history
  <2>2. EntriesOK' /\ TasksOK'
    BY <1>0, <1>1, <2>1, Grows DEF Say, EntriesOK, TasksOK
  <2>3. CountersOK'
    BY <1>0, <1>1 DEF Say, CountersOK, history
  <2> QED
    BY <1>1, <1>a, <1>w, <2>2, <2>3 DEF Say
<1>2. ASSUME NEW t \in Tasks, Forge(t) PROVE TypeOK'
  <2>1. Cutoff \in Time
    BY <1>0, CutoffIn
  <2>2. [Idle EXCEPT !.does = "chat", !.since = Cutoff]
          \in [does : {"chat", "insert"}, on : {0}, since : Time, upto : Time]
    <3>1. 0 \in Time
      BY <1>0 DEF Time, CountersOK
    <3> QED
      BY <2>1, <3>1 DEF Idle
  <2>3. TasksOK'
    BY <1>0, <1>2, <2>2 DEF Forge, TasksOK, TaskStates, Time
  <2> QED
    BY <1>2, <1>a, <1>e, <1>w, <1>c, <1>r, <2>3 DEF Forge
<1>3. ASSUME NEW t \in Tasks, ReadChat(t) PROVE TypeOK'
  <2>1. task[t] \in [does : {"chat", "insert"}, on : {0}, since : Time, upto : Time]
    BY <1>0, <1>3, TypesOf DEF ReadChat
  <2>2. TasksOK'
    <3>1. CASE task' = [task EXCEPT ![t].does = "insert", ![t].upto = chat]
      <4>1. task' = [task EXCEPT ![t] = [task[t] EXCEPT !.does = "insert", !.upto = chat]]
        BY <1>0, <3>1 DEF TasksOK
      <4>2. chat \in Time
        BY <1>0 DEF Time, CountersOK
      <4>3. TaskStates' = TaskStates
        BY <1>3 DEF ReadChat, TaskStates, Time
      <4>4. [task[t] EXCEPT !.does = "insert", !.upto = chat]
              \in [does : {"chat", "insert"}, on : {0}, since : Time, upto : Time]
        BY <2>1, <4>2
      <4> QED
        BY <1>0, <4>1, <4>3, <4>4 DEF TasksOK, TaskStates
    <3>2. CASE Done(t)
      <4>1. UNCHANGED <<chat, made>>
        BY <1>3 DEF ReadChat
      <4> QED
        BY <1>0, <3>2, <4>1, OnKeeps
    <3> QED
      BY <1>3, <3>1, <3>2 DEF ReadChat
  <2> QED
    BY <1>3, <1>a, <1>e, <1>w, <1>c, <1>r, <2>2 DEF ReadChat
<1>4. ASSUME NEW t \in Tasks, Insert(t) PROVE TypeOK'
  <2> DEFINE e == made + 1
             new == [status |-> "pending", own |-> FALSE, since |-> task[t].since,
                     upto |-> task[t].upto, published |-> 0]
  <2>1. t \in Asking /\ IsFiniteSet(Asking)
    BY <1>4, FS_Subset DEF Insert, Asking
  <2>2. Cardinality(Asking) \in Nat /\ Cardinality(Asking) # 0
    BY <2>1, FS_CardinalityType, FS_EmptySet
  <2>3. e \in Entries /\ e \in Nat /\ made < e
    BY <1>0, <2>2 DEF IInv, RequestsFit, CountersOK, Entries
  <2>4. {chat, chat', made, made'} \subseteq Nat /\ chat <= chat' /\ made <= made'
    BY <1>0, <1>4, <2>3 DEF Insert, CountersOK
  <2>5. task[t] \in [does : {"chat", "insert"}, on : {0}, since : Time, upto : Time]
    BY <1>0, <1>4, TypesOf DEF Insert
  <2>6. new \in Rows /\ new.since <= new.upto
    BY <1>0, <1>4, <2>5 DEF Rows, Statuses, Time, CountersOK, IInv, RequestsFit, Insert
  <2>7. entry' = [entry EXCEPT ![e] = new] /\ made' = e /\ chat' = chat
    BY <1>4 DEF Insert
  <2>8. EntriesOK'
    <3>1. Rows' = Rows
      BY <2>7 DEF Rows, Time
    <3>2. entry' \in [Entries -> Rows \cup {NoEntry}]
      BY <1>0, <2>6, <2>7 DEF EntriesOK
    <3>3. \A x \in Entries : entry'[x].since <= entry'[x].upto
      BY <1>0, <2>6, <2>7 DEF EntriesOK
    <3>4. \A x \in (made' + 1) .. MaxEntries : entry'[x] = NoEntry
      BY <1>0, <2>3, <2>7 DEF EntriesOK
    <3> QED
      BY <3>1, <3>2, <3>3, <3>4 DEF EntriesOK
  <2>9. TasksOK'
    <3>1. TaskStates \subseteq TaskStates'
      BY <2>4, Grows
    <3>2. [does |-> "mark", on |-> e, since |-> 0, upto |-> 0] \in TaskStates'
      <4>1. e \in 1 .. made' /\ "mark" \in Steps
        BY <2>3, <2>4, <2>7 DEF Steps
      <4> HIDE DEF e
      <4> QED
        BY <4>1 DEF TaskStates
    <3>3. Idle \in TaskStates'
      BY DEF TaskStates
    <3> QED
      BY <1>0, <1>4, <3>1, <3>2, <3>3 DEF Insert, Generate, On, Done, TasksOK
  <2>10. WorkersOK' /\ CountersOK'
    <3>1. 1 .. made \subseteq 1 .. made' /\ made' \in 0 .. MaxEntries
      BY <2>3, <2>7, <2>4 DEF Entries
    <3>2. WorkersOK'
      BY <1>0, <1>4, <3>1 DEF Insert, WorkersOK
    <3>3. CountersOK'
      BY <1>0, <1>4, <3>1 DEF Insert, CountersOK, history
    <3> QED
      BY <3>2, <3>3
  <2> QED
    BY <1>a, <2>8, <2>9, <2>10
<1>5. ASSUME NEW t \in Tasks, Publish(t) PROVE TypeOK'
  <2> DEFINE e == task[t].on
  <2>1. e \in 1 .. made /\ e \in Entries
    BY <1>0, <1>5, TypesOf DEF Publish, Awaits, Steps
  <2>2. TasksOK'
    BY <1>0, <1>5, OnKeeps DEF Publish
  <2>3. EntriesOK' /\ CountersOK'
    <3>1. CASE Exists(e)
      <4>1. entry[e] \in Rows
        BY <1>0, <2>1, <3>1 DEF EntriesOK, Exists
      <4>2. entry' = [entry EXCEPT ![e] = [entry[e] EXCEPT !.status = "published", !.published = chat]]
        BY <1>0, <1>5, <2>1, <3>1 DEF Publish, EntriesOK
      <4>3. /\ entry'[e] = [entry[e] EXCEPT !.status = "published", !.published = chat]
            /\ \A x \in Entries : x # e => entry'[x] = entry[x]
        BY <1>0, <2>1, <4>2 DEF EntriesOK
      <4>4. /\ entry'[e] \in Rows
            /\ entry'[e].since = entry[e].since /\ entry'[e].upto = entry[e].upto
        <5>1. chat \in Time /\ "published" \in Statuses
          BY <1>0 DEF Time, CountersOK, Statuses
        <5> QED
          BY <4>1, <4>3, <5>1 DEF Rows
      <4>5. EntriesOK'
        <5>1. Rows' = Rows /\ made' = made
          BY <1>5 DEF Publish, Rows, Time
        <5>2. entry' \in [Entries -> Rows \cup {NoEntry}]
          BY <1>0, <2>1, <4>2, <4>3, <4>4 DEF EntriesOK
        <5>3. \A x \in Entries : entry'[x].since <= entry'[x].upto
          BY <1>0, <4>3, <4>4 DEF EntriesOK
        <5>4. \A x \in (made + 1) .. MaxEntries : x \in Entries /\ x # e
          BY <1>0, <2>1 DEF CountersOK, Entries
        <5>5. \A x \in (made + 1) .. MaxEntries : entry'[x] = NoEntry
          BY <1>0, <4>3, <5>4 DEF EntriesOK
        <5> QED
          BY <5>1, <5>2, <5>3, <5>5 DEF EntriesOK
      <4>6. /\ {entry[e].since, entry[e].upto, entry[e].published} \subseteq 0 .. chat
            /\ chat \in Nat
        BY <1>0, <4>1 DEF Rows, Time, CountersOK
      <4>7. told' \cup waited' \cup passed' \subseteq 1 .. chat
        BY <1>0, <1>5, <3>1, <4>6 DEF Publish, CountersOK
      <4>8. CountersOK'
        BY <1>0, <1>5, <4>7 DEF Publish, CountersOK
      <4> QED
        BY <4>5, <4>8
    <3>2. CASE ~Exists(e)
      BY <1>0, <1>5, <3>2, <1>e, <1>c, <1>r DEF Publish
    <3> QED
      BY <3>1, <3>2
  <2> QED
    BY <1>5, <1>a, <1>w, <2>2, <2>3 DEF Publish
<1>6. ASSUME NEW t \in Tasks, Retry(t) \/ Mark(t) \/ Save(t) PROVE TypeOK'
  <2> DEFINE e == task[t].on
  <2>1. e \in 1 .. made /\ e \in Entries
    BY <1>0, <1>6, TypesOf DEF Retry, Mark, Save, Awaits, Steps
  <2>2. UNCHANGED <<backend, chat, made, worker, rare, lost, history>>
    BY <1>6 DEF Retry, Mark, Save
  <2>3. Done(t) \/ \E what \in Steps, x \in 1 .. made : On(t, what, x)
    BY <1>6, <2>1 DEF Retry, Mark, Save, Generate, Steps
  <2>4. \E status \in Statuses : Set(e, status)
    BY <1>6 DEF Retry, Mark, Save, Statuses
  <2>5. EntriesOK' /\ TasksOK'
    BY <1>0, <2>1, <2>2, <2>3, <2>4, SetKeeps, OnKeeps
  <2> QED
    BY <1>a, <1>w, <1>c, <1>r, <2>2, <2>5
<1>7. ASSUME NEW t \in Tasks, NEW e \in Entries, AskPublish(t, e) \/ AskRetry(t, e) PROVE TypeOK'
  <2>1. e \in 1 .. made
    <3>1. Exists(e)
      BY <1>7 DEF AskPublish, AskRetry, Exists, Has, NoEntry
    <3> QED
      BY <1>0, <3>1, TypesOf
  <2>2. UNCHANGED <<backend, chat, entry, made, worker, lost, history>> /\ (rare' = rare \/ Rarely)
    BY <1>7 DEF AskPublish, AskRetry
  <2>3. \E what \in Steps : On(t, what, e)
    BY <1>7 DEF AskPublish, AskRetry, Steps
  <2>4. TasksOK'
    BY <1>0, <2>1, <2>2, <2>3, OnKeeps
  <2> QED
    BY <1>a, <1>e, <1>w, <1>c, <1>r, <2>2, <2>4
<1>8. ASSUME NEW w \in Workers, Claim(w) PROVE TypeOK'
  <2>1. UNCHANGED <<backend, chat, made, task, rare, lost, history>>
    BY <1>8 DEF Claim
  <2>2. CASE Pending = {}
    BY <1>8, <1>a, <1>e, <1>t, <1>w, <1>c, <1>r, <2>1, <2>2 DEF Claim
  <2>3. CASE Pending # {}
    <3> DEFINE e == Min(Pending)
    <3>1. e \in Entries /\ Has(e, "pending")
      BY <2>3, PendingMin
    <3>2. e \in 1 .. made
      BY <1>0, <3>1, TypesOf DEF Exists, Has, NoEntry
    <3>3. /\ Set(e, "generating")
          /\ worker' = [worker EXCEPT ![w] = [does |-> "job", on |-> e]]
      BY <1>8, <2>3 DEF Claim
    <3> HIDE DEF e
    <3>4. WorkersOK'
      BY <1>0, <2>1, <3>2, <3>3 DEF WorkersOK
    <3>5. EntriesOK'
      BY <1>0, <2>1, <3>1, <3>3, SetKeeps DEF Statuses
    <3> QED
      BY <1>a, <1>t, <1>c, <1>r, <2>1, <3>4, <3>5
  <2> QED
    BY <2>2, <2>3
<1>9. ASSUME NEW w \in Workers, Answer(w) \/ AnswerUnheard(w) \/ Report(w) PROVE TypeOK'
  <2> DEFINE e == worker[w].on
  <2>1. UNCHANGED <<backend, chat, made, task, rare, lost, history>>
    BY <1>9 DEF Answer, AnswerUnheard, Report
  <2>2. worker[w].does \in {"job", "report"}
    BY <1>9 DEF Answer, AnswerUnheard, Report
  <2>3. e \in 1 .. made /\ e \in Entries
    BY <1>0, <2>2, TypesOf
  <2>4. UNCHANGED entry \/ \E status \in Statuses : Result(e, status)
    BY <1>9 DEF Answer, AnswerUnheard, Report, Statuses
  <2>5. EntriesOK'
    BY <1>0, <1>e, <2>1, <2>3, <2>4, ResultKeeps
  <2>6. WorkersOK'
    <3>1. [worker[w] EXCEPT !.does = "report"] \in [does : {"job", "report"}, on : 1 .. made]
      BY <1>0, <2>2 DEF WorkersOK, NoJob
    <3>2. worker' = [worker EXCEPT ![w] = NoJob]
          \/ worker' = [worker EXCEPT ![w] = [worker[w] EXCEPT !.does = "report"]]
      BY <1>0, <1>9 DEF Answer, AnswerUnheard, Report, Rests, WorkersOK
    <3> QED
      BY <1>0, <2>1, <3>1, <3>2 DEF WorkersOK
  <2> QED
    BY <1>a, <1>t, <1>c, <1>r, <2>1, <2>5, <2>6
<1>10. ASSUME NEW w \in Workers, LoseJob(w) PROVE TypeOK'
  <2>1. worker[w].on \in 1 .. made
    BY <1>0, <1>10, TypesOf DEF LoseJob
  <2>2. WorkersOK'
    BY <1>0, <1>10 DEF LoseJob, Rests, WorkersOK
  <2>3. CountersOK'
    BY <1>0, <1>10, <1>r, <2>1 DEF LoseJob, CountersOK, history
  <2> QED
    BY <1>10, <1>a, <1>e, <1>t, <2>2, <2>3 DEF LoseJob
<1>11. ASSUME NEW e \in Entries, Edit(e) \/ Delete(e) PROVE TypeOK'
  <2>1. UNCHANGED <<backend, chat, made, task, worker, lost, history>> /\ (rare' = rare \/ Rarely)
    BY <1>11 DEF Edit, Delete
  <2>2. e \in 1 .. made
    BY <1>0, <1>11, TypesOf DEF Edit, Delete
  <2>3. \A x \in (made + 1) .. MaxEntries : x \in Entries /\ x # e
    BY <1>0, <2>2 DEF CountersOK, Entries
  <2>4. EntriesOK'
    <3>1. entry[e] \in Rows
      BY <1>0, <1>11 DEF Edit, Delete, EntriesOK, Exists
    <3>2. PICK row : entry' = [entry EXCEPT ![e] = row] /\ row \in Rows \cup {NoEntry}
                     /\ row.since <= row.upto
      <4>1. CASE Edit(e)
        <5> DEFINE row == [entry[e] EXCEPT !.own = ~entry[e].own]
        <5>1. row \in Rows /\ row.since = entry[e].since /\ row.upto = entry[e].upto
          BY <3>1 DEF Rows
        <5>2. entry' = [entry EXCEPT ![e] = row]
          BY <1>0, <4>1 DEF Edit, EntriesOK
        <5> HIDE DEF row
        <5> QED
          BY <1>0, <5>1, <5>2 DEF EntriesOK
      <4>2. CASE Delete(e)
        <5>1. NoEntry.since <= NoEntry.upto
          BY DEF NoEntry
        <5> QED
          BY <4>2, <5>1 DEF Delete
      <4> QED
        BY <1>11, <4>1, <4>2
    <3>3. Rows' = Rows
      BY <2>1 DEF Rows, Time
    <3> QED
      BY <1>0, <2>1, <2>3, <3>2, <3>3 DEF EntriesOK
  <2> QED
    BY <1>a, <1>t, <1>w, <1>c, <1>r, <2>1, <2>4
<1>12. ASSUME NEW e \in Entries, Recover(e) PROVE TypeOK'
  <2>1. EntriesOK'
    BY <1>0, <1>12, SetKeeps DEF Recover, Statuses
  <2> QED
    BY <1>12, <1>a, <1>t, <1>w, <1>c, <1>r, <2>1 DEF Recover
<1>13. ASSUME NEW b \in {"vertex", "worker"}, Restart(b) PROVE TypeOK'
  <2>1. TasksOK'
    BY <1>13 DEF Restart, TasksOK, TaskStates
  <2>2. \A t \in Tasks : Awaits(t, "model") => task[t].on \in 1 .. made
    BY <1>0, TypesOf DEF Awaits, Steps
  <2>3. lost' \subseteq 1 .. made
    BY <1>0, <1>13, <2>2 DEF Restart, CountersOK
  <2>4. CountersOK'
    BY <1>0, <1>13, <1>r, <2>3 DEF Restart, CountersOK, history
  <2> QED
    BY <1>13, <1>a, <1>e, <1>w, <2>1, <2>4 DEF Restart
<1>14. CASE UNCHANGED vars
  BY <1>14, <1>a, <1>e, <1>t, <1>w, <1>c, <1>r DEF vars
<1> QED
  BY <1>1, <1>2, <1>3, <1>4, <1>5, <1>6, <1>7, <1>8, <1>9, <1>10, <1>11, <1>12, <1>13, <1>14
     DEF Next, ServerStep, WorkerStep

----------------------------------------------------------------------------
(* Room for the rows.                                                      *)

LEMMA RequestsStep ==
  ASSUME IInv, [Next]_vars
  PROVE  RequestsFit'
<1> USE ChronicleAssumption
<1>0. TypeOK /\ EntriesOK /\ TasksOK /\ CountersOK /\ RequestsFit
  BY FourParts DEF IInv
<1>1. IsFiniteSet(Asking) /\ Cardinality(Asking) \in Nat /\ made \in Nat
  BY <1>0, FS_Subset, FS_CardinalityType DEF Asking, CountersOK
\* Nobody joins those who ask, and their spans stay.
<1>2. ASSUME made' = made, Asking' \subseteq Asking,
             \A t \in Tasks : Awaits(t, "insert")' => Awaits(t, "insert") /\ task'[t] = task[t]
      PROVE  RequestsFit'
  <2>1. IsFiniteSet(Asking') /\ Cardinality(Asking') <= Cardinality(Asking)
    BY <1>1, <1>2, FS_Subset
  <2>2. Cardinality(Asking') \in Nat
    BY <2>1, FS_CardinalityType
  <2>3. (made + Cardinality(Asking) <= MaxEntries)'
    <3>1. made' + Cardinality(Asking') <= MaxEntries
      BY <1>0, <1>1, <1>2, <2>1, <2>2 DEF RequestsFit
    <3> QED
      BY <3>1
  <2> QED
    BY <1>0, <1>2, <2>3 DEF RequestsFit
<1>3. ASSUME made' = made, NEW t \in Tasks,
             \A u \in Tasks : u # t => task'[u] = task[u],
             ~Awaits(t, "chat")', ~Awaits(t, "insert")'
      PROVE  RequestsFit'
  <2>1. \A u \in Tasks : u # t => \A what : Awaits(u, what)' <=> Awaits(u, what)
    BY <1>3 DEF Awaits
  <2>2. Asking' \subseteq Asking
    BY <1>3, <2>1 DEF Asking
  <2> QED
    BY <1>2, <1>3, <2>1, <2>2
<1>4. ASSUME UNCHANGED <<made, task>> PROVE RequestsFit'
  BY <1>2, <1>4 DEF Asking, Awaits
<1>5. CASE Say
  BY <1>4, <1>5 DEF Say
<1>6. ASSUME NEW t \in Tasks, Forge(t) PROVE RequestsFit'
  <2>1. task'[t].does = "chat" /\ \A u \in Tasks : u # t => task'[u] = task[u]
    BY <1>0, <1>6 DEF Forge, TasksOK, Idle
  <2>2. Asking' = Asking \cup {t} /\ t \notin Asking
    BY <1>6, <2>1 DEF Forge, Asking, Awaits
  <2>3. Cardinality(Asking') = Cardinality(Asking) + 1
    BY <1>1, <2>2, FS_AddElement
  <2>4. made + Cardinality(Asking) < MaxEntries /\ made' = made
    BY <1>6 DEF Forge, Asking
  <2>5. (made + Cardinality(Asking) <= MaxEntries)'
    <3>1. made' + Cardinality(Asking') <= MaxEntries
      BY <1>1, <2>3, <2>4
    <3> QED
      BY <3>1
  <2>6. \A u \in Tasks : Awaits(u, "insert")' => task'[u].since <= task'[u].upto
    BY <1>0, <2>1 DEF Awaits, RequestsFit
  <2> QED
    BY <2>5, <2>6 DEF RequestsFit
<1>7. ASSUME NEW t \in Tasks, ReadChat(t) PROVE RequestsFit'
  <2>1. made' = made /\ t \in Asking
    BY <1>7 DEF ReadChat, Asking
  <2>2. CASE chat > task[t].since /\ task' = [task EXCEPT ![t].does = "insert", ![t].upto = chat]
    <3>1. task[t] \in [does : {"chat", "insert"}, on : {0}, since : Time, upto : Time]
      BY <1>0, <2>1, TypesOf DEF Asking
    <3>2. /\ task'[t] = [task[t] EXCEPT !.does = "insert", !.upto = chat]
          /\ \A u \in Tasks : u # t => task'[u] = task[u]
      BY <1>0, <2>2 DEF TasksOK
    <3>3. task'[t].since = task[t].since /\ task'[t].upto = chat /\ task'[t].does = "insert"
      BY <3>1, <3>2
    <3>4. task'[t].since <= task'[t].upto
      BY <1>0, <2>2, <3>1, <3>3 DEF Time, CountersOK
    <3>5. Asking' = Asking
      BY <2>1, <3>2, <3>3 DEF Asking, Awaits
    <3> QED
      BY <1>0, <2>1, <3>2, <3>4, <3>5 DEF RequestsFit, Awaits
  <2>3. CASE Done(t)
    BY <1>0, <1>3, <2>1, <2>3 DEF Done, TasksOK, Awaits, Idle
  <2> QED
    BY <1>7, <2>2, <2>3 DEF ReadChat
<1>8. ASSUME NEW t \in Tasks, Insert(t) PROVE RequestsFit'
  <2>1. t \in Asking /\ made' = made + 1
    BY <1>8 DEF Insert, Asking
  <2>2. /\ task'[t].does \in {"mark", "idle"}
        /\ \A u \in Tasks : u # t => task'[u] = task[u]
    BY <1>0, <1>8 DEF Insert, Generate, On, Done, TasksOK, Idle
  <2>3. Asking' = Asking \ {t}
    BY <2>2 DEF Asking, Awaits
  <2>4. Cardinality(Asking') = Cardinality(Asking) - 1
    BY <1>1, <2>1, <2>3, FS_RemoveElement
  <2>5. (made + Cardinality(Asking) <= MaxEntries)'
    <3>1. made' + Cardinality(Asking') <= MaxEntries
      BY <1>0, <1>1, <2>1, <2>4 DEF RequestsFit
    <3> QED
      BY <3>1
  <2>6. \A u \in Tasks : Awaits(u, "insert")' => task'[u].since <= task'[u].upto
    BY <1>0, <2>2 DEF Awaits, RequestsFit
  <2> QED
    BY <2>5, <2>6 DEF RequestsFit
<1>9. ASSUME NEW t \in Tasks, Publish(t) \/ Retry(t) \/ Mark(t) \/ Save(t) PROVE RequestsFit'
  <2>1. made' = made
    BY <1>9 DEF Publish, Retry, Mark, Save
  <2>2. Done(t) \/ \E e : On(t, "mark", e) \/ On(t, "model", e)
    BY <1>9 DEF Publish, Retry, Mark, Save, Generate
  <2>3. /\ task'[t].does \in {"mark", "model", "idle"}
        /\ \A u \in Tasks : u # t => task'[u] = task[u]
    BY <1>0, <2>2 DEF On, Done, TasksOK, Idle
  <2> QED
    BY <1>3, <2>1, <2>3 DEF Awaits
<1>10. ASSUME NEW t \in Tasks, NEW e \in Entries, AskPublish(t, e) \/ AskRetry(t, e) PROVE RequestsFit'
  <2>1. made' = made /\ (On(t, "publish", e) \/ On(t, "retry", e))
    BY <1>10 DEF AskPublish, AskRetry
  <2>2. /\ task'[t].does \in {"publish", "retry"}
        /\ \A u \in Tasks : u # t => task'[u] = task[u]
    BY <1>0, <2>1 DEF On, TasksOK
  <2> QED
    BY <1>3, <2>1, <2>2 DEF Awaits
<1>11. ASSUME NEW w \in Workers, WorkerStep(w) PROVE RequestsFit'
  BY <1>4, <1>11 DEF WorkerStep, Claim, Answer, AnswerUnheard, Report, LoseJob
<1>12. ASSUME NEW e \in Entries, Edit(e) \/ Delete(e) \/ Recover(e) PROVE RequestsFit'
  BY <1>4, <1>12 DEF Edit, Delete, Recover
<1>13. ASSUME NEW b \in {"vertex", "worker"}, Restart(b) PROVE RequestsFit'
  BY <1>2, <1>13 DEF Restart, Asking, Awaits, Idle
<1>14. CASE UNCHANGED vars
  BY <1>4, <1>14 DEF vars
<1> QED
  BY <1>5, <1>6, <1>7, <1>8, <1>9, <1>10, <1>11, <1>12, <1>13, <1>14 DEF Next, ServerStep

----------------------------------------------------------------------------
(* Who is at work on a row.                                                *)

Held(e) ==
  \/ e \in lost
  \/ \E w \in Workers : worker[w].on = e
  \/ \E t \in Tasks : Awaits(t, "model") /\ task[t].on = e

LEMMA GeneratingStep ==
  ASSUME IInv, [Next]_vars
  PROVE  GeneratingIsHeld'
<1> USE ChronicleAssumption
<1>0. TypeOK /\ EntriesOK /\ TasksOK /\ WorkersOK /\ CountersOK
  BY FourParts DEF IInv
<1>h. \A e \in Entries : Has(e, "generating") => Held(e)
  BY DEF IInv, GeneratingIsHeld, Held
<1>g. (\A e \in Entries : Has(e, "generating")' => Held(e)') => GeneratingIsHeld'
  BY DEF GeneratingIsHeld, Held
\* A task that does not leave the model takes nothing from anybody.
<1>t. ASSUME UNCHANGED <<lost, worker>>, NEW t \in Tasks, ~Awaits(t, "model"),
             \A u \in Tasks : u # t => task'[u] = task[u],
             NEW e, Held(e)
      PROVE  Held(e)'
  BY <1>t DEF Held, Awaits
<1>1. ASSUME UNCHANGED <<entry, lost, worker, task>> PROVE GeneratingIsHeld'
  BY <1>0, <1>g, <1>h, <1>1 DEF Held, Has, Awaits
<1>2. CASE Say
  BY <1>1, <1>2 DEF Say
<1>3. ASSUME NEW t \in Tasks, Forge(t) \/ ReadChat(t) PROVE GeneratingIsHeld'
  <2>1. /\ UNCHANGED <<entry, lost, worker>> /\ ~Awaits(t, "model")
        /\ \A u \in Tasks : u # t => task'[u] = task[u]
    BY <1>0, <1>3 DEF Forge, ReadChat, Done, Awaits, TasksOK
  <2> QED
    BY <1>g, <1>h, <1>t, <2>1 DEF Has
<1>4. ASSUME NEW t \in Tasks, NEW e \in Entries, AskPublish(t, e) \/ AskRetry(t, e)
      PROVE  GeneratingIsHeld'
  <2>1. /\ UNCHANGED <<entry, lost, worker>> /\ ~Awaits(t, "model")
        /\ \A u \in Tasks : u # t => task'[u] = task[u]
    BY <1>0, <1>4 DEF AskPublish, AskRetry, On, Awaits, TasksOK
  <2> QED
    BY <1>g, <1>h, <1>t, <2>1 DEF Has
<1>5. ASSUME NEW t \in Tasks, Insert(t) \/ Publish(t) PROVE GeneratingIsHeld'
  <2>1. /\ UNCHANGED <<lost, worker>> /\ ~Awaits(t, "model")
        /\ \A u \in Tasks : u # t => task'[u] = task[u]
    BY <1>0, <1>5 DEF Insert, Publish, Generate, On, Done, Awaits, TasksOK
  <2>2. \A e \in Entries : Has(e, "generating")' => Has(e, "generating")
    <3>1. CASE Insert(t)
      BY <1>0, <3>1 DEF Insert, Has, EntriesOK
    <3>2. CASE Publish(t)
      <4>1. \A e \in Entries : entry'[e] = entry[e] \/ entry'[e].status = "published"
        <5>1. CASE Exists(task[t].on)
          <6>1. entry[task[t].on] \in Rows
            BY <1>0, <3>2, <5>1, TypesOf DEF Publish, Awaits, Steps, EntriesOK, Exists
          <6>2. [[entry[task[t].on] EXCEPT !.status = "published"] EXCEPT !.published = chat].status
                  = "published"
            BY <6>1 DEF Rows
          <6> QED
            BY <1>0, <3>2, <5>1, <6>1, <6>2 DEF Publish, EntriesOK, Rows
        <5>2. CASE ~Exists(task[t].on)
          BY <3>2, <5>2 DEF Publish
        <5> QED
          BY <5>1, <5>2
      <4> QED
        BY <4>1 DEF Has
    <3> QED
      BY <1>5, <3>1, <3>2
  <2> QED
    BY <1>g, <1>h, <1>t, <2>1, <2>2
<1>6. ASSUME NEW t \in Tasks, Retry(t) PROVE GeneratingIsHeld'
  <2> DEFINE x == task[t].on
  <2>1. x \in Entries /\ UNCHANGED <<lost, worker, chat, made>> /\ Set(x, "pending")
    BY <1>0, <1>6, TypesOf DEF Retry, Awaits, Steps
  <2>2. ~Awaits(t, "model") /\ \A u \in Tasks : u # t => task'[u] = task[u]
    BY <1>0, <1>6 DEF Retry, Generate, On, Done, Awaits, TasksOK
  <2>3. \A e \in Entries : Has(e, "generating")' => Has(e, "generating")
    BY <1>0, <2>1, SetKeeps DEF Has, Statuses
  <2> QED
    BY <1>g, <1>h, <1>t, <2>1, <2>2, <2>3
<1>7. ASSUME NEW t \in Tasks, Mark(t) PROVE GeneratingIsHeld'
  <2>0. task[t].on \in Entries
    BY <1>0, <1>7, TypesOf DEF Mark, Awaits, Steps
  <2>x. PICK x \in Entries : x = task[t].on
    BY <2>0
  <2>1. x \in Entries /\ UNCHANGED <<lost, worker, chat, made>> /\ Set(x, "generating")
    BY <1>7, <2>x DEF Mark
  <2>2. ~Awaits(t, "model") /\ \A u \in Tasks : u # t => task'[u] = task[u]
    BY <1>0, <1>7 DEF Mark, On, Done, Awaits, TasksOK
  <2>3. \A e \in Entries : e # x => entry'[e] = entry[e]
    BY <1>0, <2>1, SetKeeps DEF Statuses
  <2>4. Has(x, "generating")' => Held(x)'
    <3>1. CASE Exists(x)
      <4>1. task'[t].does = "model" /\ task'[t].on = x
        BY <1>0, <1>7, <2>x, <3>1 DEF Mark, On, TasksOK
      <4> QED
        BY <4>1 DEF Held, Awaits
    <3>2. CASE ~Exists(x)
      BY <2>1, <3>2 DEF Set, Exists, Has, NoEntry
    <3> QED
      BY <3>1, <3>2
  <2>5. ASSUME NEW e \in Entries, Has(e, "generating")' PROVE Held(e)'
    <3>1. CASE e = x
      BY <2>4, <2>5, <3>1
    <3>2. CASE e # x
      BY <1>h, <1>t, <2>1, <2>2, <2>3, <2>5, <3>2 DEF Has
    <3> QED
      BY <3>1, <3>2
  <2> QED
    BY <1>g, <2>5
<1>8. ASSUME NEW t \in Tasks, Save(t) PROVE GeneratingIsHeld'
  <2> DEFINE x == task[t].on
  <2>1. x \in Entries /\ UNCHANGED <<lost, worker, chat, made>>
    BY <1>0, <1>8, TypesOf DEF Save, Awaits, Steps
  <2>2. PICK status \in {"draft", "failed"} : Set(x, status)
    BY <1>8 DEF Save
  <2>3. /\ \A e \in Entries : e # x => entry'[e] = entry[e]
        /\ entry'[x].status # "generating"
    BY <1>0, <2>1, <2>2, SetKeeps DEF Statuses
  <2>4. \A u \in Tasks : u # t => task'[u] = task[u]
    BY <1>0, <1>8 DEF Save, Done, TasksOK
  <2>5. ASSUME NEW e \in Entries, Has(e, "generating")' PROVE Held(e)'
    <3>1. e # x /\ Held(e)
      BY <1>h, <2>3, <2>5 DEF Has
    <3> QED
      BY <2>1, <2>4, <3>1 DEF Held, Awaits
  <2> QED
    BY <1>g, <2>5
<1>9. ASSUME NEW w \in Workers, Claim(w) PROVE GeneratingIsHeld'
  <2>1. UNCHANGED <<chat, made, task, lost>> /\ worker[w] = NoJob
    BY <1>9 DEF Claim
  <2>2. CASE Pending = {}
    BY <1>1, <1>9, <2>1, <2>2 DEF Claim
  <2>3. CASE Pending # {}
    <3> DEFINE x == Min(Pending)
    <3>1. x \in Entries
      BY <2>3, PendingMin
    <3>2. /\ Set(x, "generating")
          /\ worker' = [worker EXCEPT ![w] = [does |-> "job", on |-> x]]
      BY <1>9, <2>3 DEF Claim
    <3> HIDE DEF x
    <3>3. worker'[w].on = x /\ \A v \in Workers : v # w => worker'[v] = worker[v]
      BY <1>0, <3>2 DEF WorkersOK
    <3>4. \A e \in Entries : e # x => entry'[e] = entry[e]
      BY <1>0, <2>1, <3>1, <3>2, SetKeeps DEF Statuses
    <3>5. ASSUME NEW e \in Entries, Has(e, "generating")' PROVE Held(e)'
      <4>1. CASE e = x
        BY <3>3, <4>1 DEF Held
      <4>2. CASE e # x
        <5>1. Held(e)
          BY <1>h, <3>4, <3>5, <4>2 DEF Has
        <5>2. worker[w].on # e
          BY <2>1 DEF NoJob, Entries
        <5> QED
          BY <2>1, <3>3, <5>1, <5>2 DEF Held, Awaits
      <4> QED
        BY <4>1, <4>2
    <3> QED
      BY <1>g, <3>5
  <2> QED
    BY <2>2, <2>3
<1>10. ASSUME NEW w \in Workers, Answer(w) \/ Report(w) PROVE GeneratingIsHeld'
  <2> DEFINE x == worker[w].on
  <2>1. x \in Entries /\ UNCHANGED <<chat, made, task, lost>>
    BY <1>0, <1>10, TypesOf DEF Answer, Report
  <2>2. PICK status \in {"draft", "failed"} : Result(x, status)
    BY <1>10 DEF Answer, Report
  <2>3. /\ \A e \in Entries : e # x => entry'[e] = entry[e]
        /\ entry'[x].status # "generating"
    BY <1>0, <2>1, <2>2, ResultKeeps DEF Statuses
  <2>4. \A v \in Workers : v # w => worker'[v] = worker[v]
    BY <1>0, <1>10 DEF Answer, Report, Rests, WorkersOK
  <2>5. ASSUME NEW e \in Entries, Has(e, "generating")' PROVE Held(e)'
    <3>1. e # x /\ Held(e)
      BY <1>h, <2>3, <2>5 DEF Has
    <3> QED
      BY <2>1, <2>4, <3>1 DEF Held, Awaits
  <2> QED
    BY <1>g, <2>5
<1>11. ASSUME NEW w \in Workers, AnswerUnheard(w) PROVE GeneratingIsHeld'
  <2> DEFINE x == worker[w].on
  <2>1. x \in Entries /\ UNCHANGED <<chat, made, task, lost>>
    BY <1>0, <1>11, TypesOf DEF AnswerUnheard
  <2>2. \A e \in Entries : Has(e, "generating")' => Has(e, "generating")
    <3>1. Result(x, "draft") \/ UNCHANGED entry
      BY <1>11 DEF AnswerUnheard
    <3> QED
      BY <1>0, <2>1, <3>1, ResultKeeps DEF Statuses, Has
  <2>3. \A v \in Workers : worker'[v].on = worker[v].on
    BY <1>0, <1>11 DEF AnswerUnheard, WorkersOK, NoJob
  <2> QED
    BY <1>g, <1>h, <2>1, <2>2, <2>3 DEF Held, Awaits
<1>12. ASSUME NEW w \in Workers, LoseJob(w) PROVE GeneratingIsHeld'
  <2>1. UNCHANGED <<entry, task>> /\ lost' = lost \cup {worker[w].on}
    BY <1>12 DEF LoseJob
  <2>2. \A v \in Workers : v # w => worker'[v] = worker[v]
    BY <1>0, <1>12 DEF LoseJob, Rests, WorkersOK
  <2> QED
    BY <1>g, <1>h, <2>1, <2>2 DEF Held, Awaits, Has
<1>13. ASSUME NEW x \in Entries, Edit(x) \/ Delete(x) \/ Recover(x) PROVE GeneratingIsHeld'
  <2>1. UNCHANGED <<chat, made, task, worker, lost>>
    BY <1>13 DEF Edit, Delete, Recover
  <2>2. \A e \in Entries : Has(e, "generating")' => Has(e, "generating")
    <3>1. CASE Edit(x)
      BY <1>0, <3>1 DEF Edit, Has, EntriesOK, Rows, NoEntry
    <3>2. CASE Delete(x)
      BY <1>0, <3>2 DEF Delete, Has, EntriesOK, NoEntry
    <3>3. CASE Recover(x)
      BY <1>0, <2>1, <3>3, SetKeeps DEF Recover, Has, Statuses
    <3> QED
      BY <1>13, <3>1, <3>2, <3>3
  <2> QED
    BY <1>g, <1>h, <2>1, <2>2 DEF Held, Awaits
<1>14. ASSUME NEW b \in {"vertex", "worker"}, Restart(b) PROVE GeneratingIsHeld'
  <2>1. /\ UNCHANGED <<entry, worker>>
        /\ lost' = lost \cup {task[t].on : t \in {x \in Tasks : Awaits(x, "model")}}
    BY <1>14 DEF Restart
  <2> QED
    BY <1>g, <1>h, <2>1 DEF Held, Has
<1>15. CASE UNCHANGED vars
  BY <1>1, <1>15 DEF vars
<1> QED
  BY <1>2, <1>3, <1>4, <1>5, <1>6, <1>7, <1>8, <1>9, <1>10, <1>11, <1>12, <1>13, <1>14, <1>15
     DEF Next, ServerStep, WorkerStep

----------------------------------------------------------------------------
(* What has been told.                                                     *)

LEMMA SpansStep ==
  ASSUME IInv, [Next]_vars
  PROVE  SpansOK'
<1> USE ChronicleAssumption
<1>0. TypeOK /\ EntriesOK /\ TasksOK /\ WorkersOK /\ CountersOK /\ SpansOK
  BY FourParts DEF IInv
<1>n. Told(0)
  BY DEF Told
\* Rows and tasks that start or were published where others did keep it.
<1>s. ASSUME UNCHANGED history,
             \A e \in Entries : /\ Told(entry'[e].since)
                                /\ Told(entry'[e].published),
             \A t \in Tasks : Told(task'[t].since)
      PROVE  SpansOK'
  BY <1>s DEF SpansOK, Told, Covered, history
<1>1. ASSUME UNCHANGED <<entry, task, history>> PROVE SpansOK'
  BY <1>0, <1>s, <1>1 DEF SpansOK
<1>2. CASE Say
  BY <1>1, <1>2 DEF Say
<1>3. ASSUME NEW t \in Tasks, Forge(t) PROVE SpansOK'
  <2>1. Told(Cutoff)
    BY <1>0, <1>n, CutoffIn DEF SpansOK
  <2>2. task'[t].since = Cutoff /\ \A u \in Tasks : u # t => task'[u] = task[u]
    BY <1>0, <1>3 DEF Forge, TasksOK, Idle
  <2>3. \A u \in Tasks : Told(task'[u].since)
    BY <1>0, <2>1, <2>2 DEF SpansOK
  <2>4. UNCHANGED <<entry, history>>
    BY <1>3 DEF Forge
  <2> QED
    BY <1>0, <1>s, <2>3, <2>4 DEF SpansOK
<1>4. ASSUME NEW t \in Tasks, ReadChat(t) PROVE SpansOK'
  <2>1. task[t] \in [does : {"chat", "insert"}, on : {0}, since : Time, upto : Time]
    BY <1>0, <1>4, TypesOf DEF ReadChat
  <2>2. task'[t].since \in {0, task[t].since}
    <3>1. CASE task' = [task EXCEPT ![t].does = "insert", ![t].upto = chat]
      <4>1. task'[t] = [task[t] EXCEPT !.does = "insert", !.upto = chat]
        BY <1>0, <3>1 DEF TasksOK
      <4> QED
        BY <2>1, <4>1
    <3>2. CASE Done(t)
      BY <1>0, <3>2 DEF Done, TasksOK, Idle
    <3> QED
      BY <1>4, <3>1, <3>2 DEF ReadChat
  <2>3. \A u \in Tasks : u # t => task'[u] = task[u]
    BY <1>0, <1>4 DEF ReadChat, Done, TasksOK
  <2>4. \A u \in Tasks : Told(task'[u].since)
    BY <1>0, <1>n, <2>2, <2>3 DEF SpansOK
  <2>5. UNCHANGED <<entry, history>>
    BY <1>4 DEF ReadChat
  <2> QED
    BY <1>0, <1>s, <2>4, <2>5 DEF SpansOK
\* Tasks that are done, or go on with a row.
<1>t. ASSUME NEW t \in Tasks, Done(t) \/ \E what, e : On(t, what, e)
      PROVE  \A u \in Tasks : task'[u].since \in {0, task[u].since}
  BY <1>0, <1>t DEF Done, On, TasksOK, Idle
<1>u. ASSUME \A u \in Tasks : task'[u].since \in {0, task[u].since}
      PROVE  \A u \in Tasks : Told(task'[u].since)
  BY <1>0, <1>n, <1>u DEF SpansOK
<1>5. ASSUME NEW t \in Tasks, Insert(t) PROVE SpansOK'
  <2>1. \A u \in Tasks : Told(task'[u].since)
    BY <1>5, <1>t, <1>u DEF Insert, Generate
  <2>2. \A e \in Entries : \/ entry'[e] = entry[e]
                           \/ entry'[e].since = task[t].since /\ entry'[e].published = 0
    BY <1>0, <1>5 DEF Insert, EntriesOK
  <2>3. UNCHANGED history
    BY <1>5 DEF Insert
  <2> QED
    BY <1>0, <1>n, <1>s, <2>1, <2>2, <2>3 DEF SpansOK
<1>6. ASSUME NEW t \in Tasks, Publish(t) PROVE SpansOK'
  <2> DEFINE x == task[t].on
  <2>1. \A u \in Tasks : Told(task'[u].since)
    BY <1>6, <1>t, <1>u DEF Publish
  <2>2. x \in Entries
    BY <1>0, <1>6, TypesOf DEF Publish, Awaits, Steps
  <2>3. CASE ~Exists(x)
    BY <1>0, <1>6, <1>s, <2>1, <2>3 DEF Publish, SpansOK
  <2>4. CASE Exists(x)
    <3>1. entry[x] \in Rows
      BY <1>0, <2>2, <2>4 DEF EntriesOK, Exists
    <3>2. entry' = [entry EXCEPT ![x] = [entry[x] EXCEPT !.status = "published", !.published = chat]]
      BY <1>0, <1>6, <2>2, <2>4 DEF Publish, EntriesOK
    <3>3. entry'[x] = [entry[x] EXCEPT !.status = "published", !.published = chat]
      BY <1>0, <2>2, <3>2 DEF EntriesOK
    <3>4. entry'[x].since = entry[x].since /\ entry'[x].published = chat
      BY <3>1, <3>3 DEF Rows
    <3>5. \A e \in Entries : e # x => entry'[e] = entry[e]
      BY <1>0, <3>2 DEF EntriesOK
    <3>6. Covered \subseteq Covered'
      BY <1>6, <2>4 DEF Publish, Covered
    <3>7. /\ {entry[x].since, entry[x].upto, entry[x].published} \subseteq 0 .. chat
          /\ entry[x].since <= entry[x].upto /\ chat \in Nat
      BY <1>0, <2>2, <3>1 DEF Rows, Time, CountersOK, EntriesOK
    <3>8. \A m \in 1 .. chat : m \in Covered'
      <4>1. CASE entry[x].published = 0
        <5>1. /\ told' = told \cup (entry[x].since + 1) .. entry[x].upto
              /\ waited' = waited \cup (entry[x].upto + 1) .. chat
          BY <1>6, <2>4, <4>1 DEF Publish
        <5>2. Told(entry[x].since)
          BY <1>0, <2>2 DEF SpansOK
        <5> QED
          BY <3>6, <3>7, <5>1, <5>2 DEF Told, Covered
      <4>2. CASE entry[x].published # 0
        <5>1. passed' = passed \cup (entry[x].published + 1) .. chat
          BY <1>6, <2>4, <4>2 DEF Publish
        <5>2. Told(entry[x].published)
          BY <1>0, <2>2 DEF SpansOK
        <5> QED
          BY <3>6, <3>7, <5>1, <5>2 DEF Told, Covered
      <4> QED
        BY <4>1, <4>2
    <3>9. \A e \in Entries : /\ \A m \in 1 .. entry'[e].since : m \in Covered'
                             /\ \A m \in 1 .. entry'[e].published : m \in Covered'
      BY <1>0, <3>4, <3>5, <3>6, <3>8 DEF SpansOK, Told
    <3>10. \A u \in Tasks : \A m \in 1 .. task'[u].since : m \in Covered'
      BY <2>1, <3>6 DEF Told
    <3> HIDE DEF x
    <3> QED
      BY <3>9, <3>10 DEF SpansOK, Told
  <2> QED
    BY <2>3, <2>4
<1>7. ASSUME NEW t \in Tasks, Retry(t) \/ Mark(t) \/ Save(t) PROVE SpansOK'
  <2> DEFINE x == task[t].on
  <2>1. x \in Entries
    BY <1>0, <1>7, TypesOf DEF Retry, Mark, Save, Awaits, Steps
  <2>2. Done(t) \/ \E what, e : On(t, what, e)
    BY <1>7 DEF Retry, Mark, Save, Generate
  <2>3. UNCHANGED <<chat, made, history>> /\ \E status \in Statuses : Set(x, status)
    BY <1>7 DEF Retry, Mark, Save, Statuses
  <2>4. \A e \in Entries : /\ entry'[e].since = entry[e].since
                           /\ entry'[e].published = entry[e].published
    BY <1>0, <2>1, <2>3, SetKeeps
  <2>5. \A u \in Tasks : Told(task'[u].since)
    BY <1>t, <1>u, <2>2
  <2> QED
    BY <1>0, <1>s, <2>3, <2>4, <2>5 DEF SpansOK
<1>8. ASSUME NEW t \in Tasks, NEW e \in Entries, AskPublish(t, e) \/ AskRetry(t, e) PROVE SpansOK'
  <2>1. UNCHANGED <<entry, history>> /\ \E what : On(t, what, e)
    BY <1>8 DEF AskPublish, AskRetry
  <2>2. \A u \in Tasks : Told(task'[u].since)
    BY <1>t, <1>u, <2>1
  <2> QED
    BY <1>0, <1>s, <2>1, <2>2 DEF SpansOK
<1>9. ASSUME NEW w \in Workers, Claim(w) PROVE SpansOK'
  <2>1. UNCHANGED <<chat, made, task, history>>
    BY <1>9 DEF Claim
  <2>2. CASE Pending = {}
    BY <1>1, <1>9, <2>1, <2>2 DEF Claim
  <2>3. CASE Pending # {}
    <3>1. Min(Pending) \in Entries /\ Set(Min(Pending), "generating")
      BY <1>9, <2>3, PendingMin DEF Claim
    <3>2. \A e \in Entries : /\ entry'[e].since = entry[e].since
                             /\ entry'[e].published = entry[e].published
      BY <1>0, <2>1, <3>1, SetKeeps DEF Statuses
    <3> QED
      BY <1>0, <1>s, <2>1, <3>2 DEF SpansOK
  <2> QED
    BY <2>2, <2>3
<1>10. ASSUME NEW w \in Workers, Answer(w) \/ AnswerUnheard(w) \/ Report(w) PROVE SpansOK'
  <2> DEFINE x == worker[w].on
  <2>1. x \in Entries /\ UNCHANGED <<chat, made, task, history>>
    BY <1>0, <1>10, TypesOf DEF Answer, AnswerUnheard, Report
  <2>2. UNCHANGED entry \/ \E status \in Statuses : Result(x, status)
    BY <1>10 DEF Answer, AnswerUnheard, Report, Statuses
  <2>3. \A e \in Entries : /\ entry'[e].since = entry[e].since
                           /\ entry'[e].published = entry[e].published
    BY <1>0, <2>1, <2>2, ResultKeeps
  <2> QED
    BY <1>0, <1>s, <2>1, <2>3 DEF SpansOK
<1>11. ASSUME NEW w \in Workers, LoseJob(w) PROVE SpansOK'
  BY <1>1, <1>11 DEF LoseJob
<1>12. ASSUME NEW x \in Entries, Edit(x) \/ Delete(x) \/ Recover(x) PROVE SpansOK'
  <2>1. UNCHANGED <<chat, made, task, history>>
    BY <1>12 DEF Edit, Delete, Recover
  <2>2. \A e \in Entries : /\ entry'[e].since \in {0, entry[e].since}
                           /\ entry'[e].published \in {0, entry[e].published}
    <3>1. CASE Edit(x)
      <4>1. entry[x] \in Rows
        BY <1>0, <3>1 DEF Edit, EntriesOK, Exists
      <4> QED
        BY <1>0, <3>1, <4>1 DEF Edit, EntriesOK, Rows
    <3>2. CASE Delete(x)
      BY <1>0, <3>2 DEF Delete, EntriesOK, NoEntry
    <3>3. CASE Recover(x)
      BY <1>0, <2>1, <3>3, SetKeeps DEF Recover, Statuses
    <3> QED
      BY <1>12, <3>1, <3>2, <3>3
  <2> QED
    BY <1>0, <1>n, <1>s, <2>1, <2>2 DEF SpansOK
<1>13. ASSUME NEW b \in {"vertex", "worker"}, Restart(b) PROVE SpansOK'
  BY <1>0, <1>n, <1>s, <1>13 DEF Restart, SpansOK, Idle
<1>14. CASE UNCHANGED vars
  BY <1>1, <1>14 DEF vars
<1> QED
  BY <1>2, <1>3, <1>4, <1>5, <1>6, <1>7, <1>8, <1>9, <1>10, <1>11, <1>12, <1>13, <1>14
     DEF Next, ServerStep, WorkerStep

----------------------------------------------------------------------------
(* The theorems.                                                           *)

(* Every reachable state of the chronicle satisfies the inductive          *)
(* invariant, for any number of requests, workers, rows and faults.        *)
THEOREM Invariance == Spec => []IInv
<1>1. IInv /\ [Next]_vars => IInv'
  BY TypeStep, RequestsStep, GeneratingStep, SpansStep DEF IInv
<1> QED
  BY InitOK, <1>1, PTL DEF Spec

(* Rows, tasks and jobs always hold what their types say.                  *)
THEOREM TypeCorrect == Spec => []TypeOK
<1>1. IInv => TypeOK
  BY DEF IInv
<1> QED
  BY Invariance, <1>1, PTL

(* A row that says "generating" has somebody at work on it, or somebody    *)
(* died on it.                                                             *)
THEOREM NobodyLeavesARow == Spec => []GeneratingIsHeld
<1>1. IInv => GeneratingIsHeld
  BY DEF IInv
<1> QED
  BY Invariance, <1>1, PTL

(* The cutoff of the next transcript passes over a message only if a       *)
(* published transcript held it, if it was said while such a transcript    *)
(* waited for its publication, or between that and another publication.    *)
THEOREM NothingForgotten == Spec => []NothingSlipsBy
<1>1. IInv => NothingSlipsBy
  <2> SUFFICES ASSUME IInv PROVE NothingSlipsBy
    OBVIOUS
  <2>1. EntriesOK /\ CountersOK /\ SpansOK
    BY FourParts DEF IInv
  <2>2. Told(Cutoff)
    BY <2>1, CutoffIn DEF SpansOK, Told
  <2> QED
    BY <2>2 DEF NothingSlipsBy, Told, Covered
<1> QED
  BY Invariance, <1>1, PTL

(* No step of a worker changes a row that is a draft, published, failed or *)
(* gone.                                                                   *)
THEOREM LateAnswersChangeNothing == Spec => LateAnswerIsHarmless
<1> DEFINE Harmless ==
      \A w \in Workers : worker'[w] # worker[w] =>
        \A e \in Entries :
          entry[e].status \in {"draft", "published", "failed", "none"} =>
            entry'[e] = entry[e]
<1>1. IInv /\ [Next]_vars => [Harmless]_vars
  <2> SUFFICES ASSUME IInv, [Next]_vars PROVE Harmless
    OBVIOUS
  <2>0. TypeOK /\ EntriesOK /\ WorkersOK
    BY FourParts DEF IInv
  <2>1. CASE UNCHANGED worker \/ UNCHANGED entry
    BY <2>1
  <2>2. ASSUME NEW w \in Workers, Claim(w) PROVE Harmless
    <3>1. CASE Pending = {}
      BY <2>1, <2>2, <3>1 DEF Claim
    <3>2. CASE Pending # {}
      <4>1. /\ Min(Pending) \in Entries /\ Has(Min(Pending), "pending")
            /\ Set(Min(Pending), "generating")
        BY <2>2, <3>2, PendingMin DEF Claim
      <4>2. UNCHANGED <<chat, made>>
        BY <2>2 DEF Claim
      <4>3. \A e \in Entries : e # Min(Pending) => entry'[e] = entry[e]
        BY <2>0, <4>1, <4>2, SetKeeps DEF Statuses
      <4> QED
        BY <4>1, <4>3 DEF Has
    <3> QED
      BY <3>1, <3>2
  <2>3. ASSUME NEW w \in Workers, Answer(w) \/ AnswerUnheard(w) \/ Report(w) PROVE Harmless
    <3>1. worker[w].on \in Entries /\ UNCHANGED <<chat, made>>
      BY <2>0, <2>3, TypesOf DEF Answer, AnswerUnheard, Report
    <3>2. UNCHANGED entry \/ \E status \in Statuses : Result(worker[w].on, status)
      BY <2>3 DEF Answer, AnswerUnheard, Report, Statuses
    <3>3. CASE entry' # entry
      <4>1. entry[worker[w].on].status \in {"generating", "pending"}
        BY <2>0, <3>1, <3>2, <3>3, ResultKeeps
      <4>2. \A e \in Entries : e # worker[w].on => entry'[e] = entry[e]
        BY <2>0, <3>1, <3>2, ResultKeeps
      <4> QED
        BY <4>1, <4>2
    <3> QED
      BY <2>1, <3>3
  <2>4. ASSUME NEW w \in Workers, LoseJob(w) PROVE Harmless
    BY <2>1, <2>4 DEF LoseJob
  <2>5. ASSUME NEW t \in Tasks, ServerStep(t) PROVE Harmless
    BY <2>1, <2>5 DEF ServerStep, Forge, ReadChat, Insert, Publish, Retry, Mark, Save,
                      AskPublish, AskRetry
  <2>6. CASE \/ Say
             \/ \E e \in Entries : Edit(e) \/ Delete(e) \/ Recover(e)
             \/ \E b \in {"vertex", "worker"} : Restart(b)
             \/ UNCHANGED vars
    BY <2>1, <2>6 DEF Say, Edit, Delete, Recover, Restart, vars
  <2> QED
    BY <2>2, <2>3, <2>4, <2>5, <2>6 DEF Next, WorkerStep
<1> QED
  BY Invariance, <1>1, PTL DEF Spec, LateAnswerIsHarmless
================================================================================
