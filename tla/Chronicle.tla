------------------------------ MODULE Chronicle ------------------------------
(***************************************************************************)
(* The chronicle: recaps of what was said at the table, written by a       *)
(* language model and published by the DM (routes/chronicle.ts,            *)
(* routes/internalChronicle.ts and the worker in dgx-worker/worker.mjs).   *)
(*                                                                         *)
(* A row of chronicle_entries is a job: with the backend "vertex" a        *)
(* background task of the server does it, with any other an external       *)
(* worker that polls for pending rows.  Workers poll whatever the backend  *)
(* is, and the server's own UPDATEs do not look at the status.             *)
(*                                                                         *)
(* Time is the number of chat messages of the campaign.  A transcript is   *)
(* the one the server builds, and shorter than the 800 lines it keeps.     *)
(***************************************************************************)
EXTENDS Naturals, FiniteSetsExt

CONSTANTS
  Tasks,        \* requests and background generations in flight (bound)
  Workers,      \* external workers
  MaxEntries,   \* rows that are inserted (bound)
  MaxChat,      \* messages of the campaign (bound)
  MaxRare       \* retries, edits, crashes, restarts, recoveries (bound)

ASSUME ChronicleAssumption ==
  /\ {MaxEntries, MaxChat, MaxRare} \subseteq Nat
  /\ IsFiniteSet(Tasks) /\ IsFiniteSet(Workers)

VARIABLES
  backend,      \* CHRONICLER_BACKEND
  chat,         \* chat messages so far
  entry,        \* chronicle_entries in the order of created_at
  made,         \* rows inserted so far
  task,         \* what the server awaits a query or the model for
  worker,       \* the job of a worker
  rare,         \* retries, edits, crashes, restarts and recoveries so far
  lost,         \* rows whose worker or task died on them
  told,         \* messages in the transcript of a recap when it was published
  waited,       \* said after the transcript was read, before the first publication
  passed        \* said between one publication of a recap and the next

history == <<told, waited, passed>>
vars == <<backend, chat, entry, made, task, worker, rare, lost, history>>

Entries == 1 .. MaxEntries
Statuses == {"pending", "generating", "draft", "published", "failed"}
NoEntry == [status |-> "none", own |-> FALSE, since |-> 0, upto |-> 0,
            published |-> 0]
Idle == [does |-> "idle", on |-> 0, since |-> 0, upto |-> 0]
NoJob == [does |-> "idle", on |-> 0]

Steps == {"publish", "retry", "mark", "model"}

(* The invariant of types. *)
TypeOK ==
  LET time == 0 .. chat
      rows == [status : Statuses, own : BOOLEAN, since : time, upto : time,
               published : time]
  IN  /\ backend \in {"vertex", "worker"}
      /\ chat \in 0 .. MaxChat /\ made \in 0 .. MaxEntries
      /\ entry \in [Entries -> rows \cup {NoEntry}]
      /\ \A e \in Entries : entry[e].since <= entry[e].upto
      /\ \A e \in (made + 1) .. MaxEntries : entry[e] = NoEntry
      /\ task \in [Tasks -> {Idle}
           \cup [does : Steps, on : 1 .. made, since : {0}, upto : {0}]
           \cup [does : {"chat", "insert"}, on : {0}, since : time, upto : time]]
      /\ worker \in [Workers -> {NoJob} \cup [does : {"job", "report"}, on : 1 .. made]]
      /\ rare \in 0 .. MaxRare
      /\ lost \subseteq 1 .. made
      /\ told \cup waited \cup passed \subseteq 1 .. chat

Init ==
  /\ backend \in {"vertex", "worker"} /\ chat = 0
  /\ entry = [e \in Entries |-> NoEntry] /\ made = 0
  /\ task = [t \in Tasks |-> Idle] /\ worker = [w \in Workers |-> NoJob]
  /\ rare = 0
  /\ lost = {} /\ told = {} /\ waited = {} /\ passed = {}

Exists(e) == entry[e] # NoEntry
Has(e, status) == entry[e].status = status
Awaits(t, what) == task[t].does = what
On(t, what, e) ==
  task' = [task EXCEPT ![t] = [does |-> what, on |-> e, since |-> 0, upto |-> 0]]
Done(t) == task' = [task EXCEPT ![t] = Idle]

Rarely == rare < MaxRare /\ rare' = rare + 1

\* An UPDATE of one column, which finds no row when the row was deleted.
Set(e, status) ==
  entry' = IF Exists(e) THEN [entry EXCEPT ![e].status = status] ELSE entry

----------------------------------------------------------------------------
(* What the table and the DM do.                                           *)

Say ==
  /\ chat < MaxChat /\ chat' = chat + 1
  /\ UNCHANGED <<backend, entry, made, task, worker, rare, lost, history>>

\* Mutant: the newest transcript counts, published or not.
CutoffOfAnyEntry == Max({0} \cup {entry[e].upto : e \in Entries})

\* The transcript starts where the latest published recap was published.
Cutoff == Max({0} \cup {entry[e].published : e \in {x \in Entries : Has(x, "published")}})

\* Mutant: off by one, the transcript starts after the next message.
ForgeFromNext(t) ==
  /\ Awaits(t, "idle") /\ made < MaxEntries
  /\ task' = [task EXCEPT ![t] = [Idle EXCEPT !.does = "chat", !.since = Cutoff + 1]]
  /\ UNCHANGED <<backend, chat, entry, made, worker, rare, lost, history>>

\* POST generate up to the chat query: the cutoff has been read.
Forge(t) ==
  /\ Awaits(t, "idle")
  /\ made + Cardinality({x \in Tasks : Awaits(x, "chat") \/ Awaits(x, "insert")}) < MaxEntries
  /\ task' = [task EXCEPT ![t] = [Idle EXCEPT !.does = "chat", !.since = Cutoff]]
  /\ UNCHANGED <<backend, chat, entry, made, worker, rare, lost, history>>

\* The chat has been read; without anything new the request is refused.
ReadChat(t) ==
  /\ Awaits(t, "chat")
  /\ IF chat > task[t].since
       THEN task' = [task EXCEPT ![t].does = "insert", ![t].upto = chat]
       ELSE Done(t)
  /\ UNCHANGED <<backend, chat, entry, made, worker, rare, lost, history>>

\* runChronicleGeneration, which the request starts and does not await.
Generate(t, e) == IF backend = "vertex" THEN On(t, "mark", e) ELSE Done(t)

Insert(t) ==
  LET e == made + 1
  IN  /\ Awaits(t, "insert")
      /\ entry' = [entry EXCEPT ![e] =
           [status |-> "pending", own |-> FALSE, since |-> task[t].since,
            upto |-> task[t].upto, published |-> 0]]
      /\ made' = e /\ Generate(t, e)
      /\ UNCHANGED <<backend, chat, worker, rare, lost, history>>

\* PATCH: the DM writes a recap of their own, or takes it back.
Edit(e) ==
  /\ Exists(e) /\ Rarely
  /\ entry' = [entry EXCEPT ![e].own = ~@]
  /\ UNCHANGED <<backend, chat, made, task, worker, lost, history>>

AskPublish(t, e) ==
  /\ Awaits(t, "idle") /\ Exists(e)
  /\ entry[e].status \notin {"pending", "generating"}
  /\ Has(e, "failed") => entry[e].own
  /\ On(t, "publish", e)
  /\ UNCHANGED <<backend, chat, entry, made, worker, rare, lost, history>>

\* Nothing keeps the DM from publishing a published recap again, which moves
\* its published_at.
Publish(t) ==
  LET e == task[t].on
  IN  /\ Awaits(t, "publish") /\ Done(t)
      /\ IF Exists(e)
           THEN /\ entry' = [entry EXCEPT ![e].status = "published",
                                          ![e].published = chat]
                /\ told' = told \cup (entry[e].since + 1) .. entry[e].upto
                /\ IF entry[e].published = 0
                     THEN /\ waited' = waited \cup (entry[e].upto + 1) .. chat
                          /\ UNCHANGED passed
                     ELSE /\ passed' = passed \cup (entry[e].published + 1) .. chat
                          /\ UNCHANGED waited
           ELSE UNCHANGED <<entry, history>>
      /\ UNCHANGED <<backend, chat, made, worker, rare, lost>>

AskRetry(t, e) ==
  /\ Awaits(t, "idle") /\ Has(e, "failed")
  /\ Rarely
  /\ On(t, "retry", e)
  /\ UNCHANGED <<backend, chat, entry, made, worker, lost, history>>

Retry(t) ==
  /\ Awaits(t, "retry") /\ Set(task[t].on, "pending")
  /\ Generate(t, task[t].on)
  /\ UNCHANGED <<backend, chat, made, worker, rare, lost, history>>

Delete(e) ==
  /\ Exists(e)
  /\ entry' = [entry EXCEPT ![e] = NoEntry]
  /\ UNCHANGED <<backend, chat, made, task, worker, rare, lost, history>>

----------------------------------------------------------------------------
(* The server's own generation: it reads the row, marks it, asks the       *)
(* model and writes what came back.                                        *)

Mark(t) ==
  /\ Awaits(t, "mark") /\ Set(task[t].on, "generating")
  /\ IF Exists(task[t].on) THEN On(t, "model", task[t].on) ELSE Done(t)
  /\ UNCHANGED <<backend, chat, made, worker, rare, lost, history>>

Save(t) ==
  /\ Awaits(t, "model") /\ Done(t)
  /\ \E status \in {"draft", "failed"} : Set(task[t].on, status)
  /\ UNCHANGED <<backend, chat, made, worker, rare, lost, history>>

----------------------------------------------------------------------------
(* The external worker: one job at a time, one answer per job.             *)

Pending == {e \in Entries : Has(e, "pending")}

\* POST jobs/claim: the oldest pending row.
Claim(w) ==
  /\ worker[w] = NoJob
  /\ IF Pending = {}
       THEN UNCHANGED <<entry, worker>>
       ELSE LET e == Min(Pending)
            IN  /\ Set(e, "generating")
                /\ worker' = [worker EXCEPT ![w] = [does |-> "job", on |-> e]]
  /\ UNCHANGED <<backend, chat, made, task, rare, lost, history>>

\* Mutant: the result is written whatever the row has become.
Overwrite(e, status) == Set(e, status)

\* POST jobs/:id/result: only a row that is still open is changed.
Result(e, status) ==
  IF entry[e].status \in {"generating", "pending"}
    THEN Set(e, status) ELSE UNCHANGED entry

Rests(w) == worker' = [worker EXCEPT ![w] = NoJob]

\* Mutant: the worker tries again until its result is accepted.
AnswerUntilAccepted(w) ==
  /\ worker[w].does = "job"
  /\ \E status \in {"draft", "failed"} : Result(worker[w].on, status)
  /\ IF entry[worker[w].on].status \in {"generating", "pending"}
       THEN Rests(w) ELSE UNCHANGED worker
  /\ UNCHANGED <<backend, chat, made, task, rare, lost, history>>

\* The recap or the model's failure is posted, and heard.
Answer(w) ==
  /\ worker[w].does = "job" /\ Rests(w)
  /\ \E status \in {"draft", "failed"} : Result(worker[w].on, status)
  /\ UNCHANGED <<backend, chat, made, task, rare, lost, history>>

\* The post of a recap fails on the way there or back.
AnswerUnheard(w) ==
  /\ worker[w].does = "job"
  /\ worker' = [worker EXCEPT ![w].does = "report"]
  /\ Result(worker[w].on, "draft") \/ UNCHANGED entry
  /\ UNCHANGED <<backend, chat, made, task, rare, lost, history>>

\* Mutant: the failure is only logged.
ReportToLog(w) ==
  /\ worker[w].does = "report" /\ Rests(w)
  /\ UNCHANGED <<backend, chat, entry, made, task, rare, lost, history>>

\* That failure is caught and posted like any other.
Report(w) ==
  /\ worker[w].does = "report" /\ Rests(w)
  /\ Result(worker[w].on, "failed")
  /\ UNCHANGED <<backend, chat, made, task, rare, lost, history>>

----------------------------------------------------------------------------
(* Faults.                                                                 *)

\* The worker dies on its job and is started again, the answer to its claim
\* or its report gets lost, or what it posts is refused, which it only logs.
LoseJob(w) ==
  /\ Rarely
  /\ worker[w] # NoJob /\ Rests(w)
  /\ lost' = lost \cup {worker[w].on}
  /\ UNCHANGED <<backend, chat, entry, made, task, history>>

\* A new server, with the backend it is configured for.
Restart(b) ==
  /\ Rarely
  /\ backend' = b
  /\ task' = [t \in Tasks |-> Idle]
  /\ lost' = lost \cup {task[t].on : t \in {x \in Tasks : Awaits(x, "model")}}
  /\ UNCHANGED <<chat, entry, made, worker, history>>

\* The manual recovery of dgx-worker/README.md.
Recover(e) ==
  /\ Rarely
  /\ Has(e, "generating") /\ Set(e, "pending")
  /\ UNCHANGED <<backend, chat, made, task, worker, lost, history>>

----------------------------------------------------------------------------
ServerStep(t) ==
  \/ Forge(t) \/ ReadChat(t) \/ Insert(t) \/ Publish(t) \/ Retry(t)
  \/ Mark(t) \/ Save(t)
  \/ \E e \in Entries : AskPublish(t, e) \/ AskRetry(t, e)

WorkerStep(w) ==
  Claim(w) \/ Answer(w) \/ AnswerUnheard(w) \/ Report(w) \/ LoseJob(w)

Next ==
  \/ Say
  \/ \E t \in Tasks : ServerStep(t)
  \/ \E w \in Workers : WorkerStep(w)
  \/ \E e \in Entries : Edit(e) \/ Delete(e) \/ Recover(e)
  \/ \E b \in {"vertex", "worker"} : Restart(b)

\* A worker polls for as long as it runs, the model comes to an end, and
\* what it says is posted.
Fairness == \A w \in Workers : WF_vars(Claim(w)) /\ WF_vars(Answer(w) \/ Report(w))

Spec == Init /\ [][Next]_vars
LiveSpec == Spec /\ Fairness

----------------------------------------------------------------------------
(* Properties.                                                             *)

(* A row that says "generating" has somebody at work on it, or somebody    *)
(* died on it: nothing else leaves a recap stuck, however claims, retries, *)
(* publications and both backends meet.                                    *)
GeneratingIsHeld ==
  \A e \in Entries :
    Has(e, "generating") =>
      \/ e \in lost
      \/ \E w \in Workers : worker[w].on = e
      \/ \E t \in Tasks : Awaits(t, "model") /\ task[t].on = e

(* Nothing a worker does, however late, touches a row that has left        *)
(* "pending" and "generating": a recap the DM published meanwhile stays    *)
(* published, and a draft that was saved is not turned into a failure.     *)
LateAnswerIsHarmless ==
  [][\A w \in Workers : worker'[w] # worker[w] =>
       \A e \in Entries :
         entry[e].status \in {"draft", "published", "failed", "none"} =>
           entry'[e] = entry[e]]_vars

(* What the cutoff passes over without its having been in the transcript   *)
(* of a published recap was said while such a transcript waited for its    *)
(* publication, or between a publication of a recap and a repeated one:    *)
(* these two are the only ways in which chat is left out.  Recaps that     *)
(* fail, are retried, deleted, published out of order or never, and        *)
(* transcripts that overlap, leave nothing out.                            *)
NothingSlipsBy == \A m \in 1 .. Cutoff : m \in told \cup waited \cup passed

(* A pending row does not wait for ever while a worker runs, whatever      *)
(* becomes of other jobs, of late answers and of the server.               *)
BacklogDrains == \A e \in Entries : Has(e, "pending") ~> ~Has(e, "pending")
=============================================================================
