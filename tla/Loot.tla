-------------------------------- MODULE Loot --------------------------------
(***************************************************************************)
(* Loot and inventories (routes/loot.ts): entries of loot_entries that lie *)
(* in a bag or with a character, and the JSON column characters.inventory. *)
(*                                                                         *)
(* Take, transfer and drop are transactions with row locks, split at their *)
(* queries; the last write and the COMMIT are one action.  Two requests    *)
(* rewrite an inventory without a lock: the guarded write of attunement    *)
(* and of a sheet edit, and the enrichment that runs whenever a sheet with *)
(* an unknown item is opened.  What they change in the items (attuned,     *)
(* equipped, artwork) is left out, and so is who may do what.              *)
(*                                                                         *)
(* `fresh` of a request stands for the comparison of versions: it is FALSE *)
(* once the row has been written after the request read it.                *)
(***************************************************************************)
EXTENDS Integers, Sequences, FiniteSets, FiniteSetsExt

CONSTANTS
  Pcs,          \* characters with an inventory
  Items,        \* kinds of items, as slugs of the compendium
  Start,        \* the inventories at first
  Requests,     \* requests in flight (bound)
  MaxIds,       \* entries, and bags, that are inserted (bound)
  MaxEdits      \* additions, edits and removals by the DM (bound)

Counts == 1 .. 2

ASSUME LootAssumption ==
  /\ MaxIds \in Nat /\ MaxEdits \in Nat
  /\ IsFiniteSet(Pcs) /\ IsFiniteSet(Items) /\ IsFiniteSet(Requests)
  /\ Start \in [Pcs -> Seq([item : Items, qty : Nat \ {0}])]
  /\ \A c \in Pcs : c \notin Nat    \* a bag is a character of its own

VARIABLES
  inventory,    \* characters.inventory
  entry,        \* loot_entries: where it lies, what and how many
  made,         \* entries inserted so far
  bags,         \* characters of race "loot", numbered like their first entry
  token,        \* bags with a token in the table, which the room shows
  req,          \* requests between two queries, with what they have read
  edits,
  ledger,       \* how many of each item there should be
  blind,        \* an unguarded write went over a newer inventory
  spilled,      \* bags emptied otherwise than by a take, or whose removal failed
  late          \* bags that got something while they were being removed

vars == <<inventory, entry, made, bags, token, req, edits, ledger, blind,
          spilled, late>>

Ids == 1 .. MaxIds
NoEntry == [at |-> 0, item |-> 0, qty |-> 0]
Idle == [does |-> "idle"]
Does(r, what) == req[r].does = what

\* The rows a request has locked: its entry, its character.
HoldsEntry(r, e) ==
  req[r].does \in {"take target", "take", "transfer"} /\ req[r].e = e

\* Mutant: a take locks the character before it waits for the entry.
HoldsRowFirst(r, c) ==
  req[r].does \in {"take entry", "take target", "take", "drop"} /\ req[r].to = c

HoldsRow(r, c) == req[r].does \in {"take", "drop"} /\ req[r].to = c

\* SELECT ... FOR UPDATE waits for whoever holds the row.
EntryFree(e) == \A r \in Requests : ~HoldsEntry(r, e)
RowFree(c) == \A r \in Requests : ~HoldsRow(r, c)

\* Whose COMMIT or ROLLBACK a request waits for.
WaitsFor(r, s) ==
  /\ r # s
  /\ \/ /\ req[r].does \in {"take entry", "transfer entry"}
        /\ HoldsEntry(s, req[r].e)
     \/ /\ req[r].does \in {"take target", "transfer", "drop row", "enrich", "rewrite"}
        /\ HoldsRow(s, req[r].to)

Slot(list, item) == {i \in DOMAIN list : list[i].item = item}

\* One more of an item: on the first stack of it, or at the end.
Added(list, item) ==
  IF Slot(list, item) = {}
    THEN Append(list, [item |-> item, qty |-> 1])
    ELSE [list EXCEPT ![Min(Slot(list, item))].qty = @ + 1]

\* One less at a position, which disappears with the last one.
Dropped(list, i) ==
  IF list[i].qty > 1
    THEN [list EXCEPT ![i].qty = @ - 1]
    ELSE SubSeq(list, 1, i - 1) \o SubSeq(list, i + 1, Len(list))

InList(list, item) ==
  SumFunctionOnSet([i \in DOMAIN list |-> list[i].qty], Slot(list, item))
InLists(lists, item) == SumFunctionOnSet([c \in Pcs |-> InList(lists[c], item)], Pcs)
Owned(item) == InLists(inventory, item)
Lying(item) ==
  SumFunctionOnSet([e \in Ids |-> entry[e].qty], {e \in Ids : entry[e].item = item})

Within(place) == {e \in Ids : entry[e].at = place}

Places == Pcs \cup bags
Lists == Seq([item : Items, qty : Nat \ {0}])
OneStack(list) == \A i, j \in DOMAIN list : list[i].item = list[j].item => i = j

States ==
  {Idle}
    \cup [does : {"take entry", "take target"}, e : 1 .. made, from : Places, to : Pcs]
    \cup [does : {"take"}, e : 1 .. made, from : Places, to : Pcs,
          qty : Nat \ {0}, item : Items, list : Lists]
    \cup [does : {"transfer entry", "transfer"}, e : 1 .. made, from : Places, to : Places]
    \cup [does : {"remains", "despawn"}, from : bags]
    \cup [does : {"drop row"}, to : Pcs, i : Nat \ {0}]
    \cup [does : {"drop"}, to : Pcs, i : Nat \ {0}, list : Lists]
    \cup [does : {"enrich", "rewrite"}, to : Pcs, list : Lists, fresh : BOOLEAN]

(* The invariant of types; no request makes a second stack of an item.     *)
TypeOK ==
  /\ inventory \in [Pcs -> Lists]
  /\ \A c \in Pcs : OneStack(Start[c]) => OneStack(inventory[c])
  /\ made \in 0 .. MaxIds /\ bags \subseteq 1 .. made /\ token \subseteq bags
  /\ entry \in [Ids -> [at : Places, item : Items, qty : Nat \ {0}] \cup {NoEntry}]
  /\ \A e \in Ids : entry[e] # NoEntry => e <= made
  /\ req \in [Requests -> States]
  /\ \A r \in Requests : Does(r, "drop") => req[r].i \in DOMAIN inventory[req[r].to]
  /\ edits \in 0 .. MaxEdits /\ ledger \in [Items -> Int] /\ blind \in BOOLEAN
  /\ spilled \subseteq bags /\ late \subseteq bags

Init ==
  /\ inventory = Start /\ entry = [e \in Ids |-> NoEntry] /\ made = 0
  /\ bags = {} /\ token = {} /\ req = [r \in Requests |-> Idle] /\ edits = 0
  /\ ledger = [item \in Items |-> InLists(Start, item)]
  /\ blind = FALSE /\ spilled = {} /\ late = {}

history == <<ledger, blind, spilled, late>>

\* Entries that are still to come.
Dropping == {r \in Requests : req[r].does \in {"drop row", "drop"}}

Goes(r, next) == req' = [req EXCEPT ![r] = next]
Ends(r) == Goes(r, Idle)

\* A write of the row of c makes what others have read of it old.
Written(c) ==
  [r \in Requests |->
     IF req[r].does \in {"enrich", "rewrite"} /\ req[r].to = c
       THEN [req[r] EXCEPT !.fresh = FALSE] ELSE req[r]]

WriteRow(r, c, list, next) ==
  /\ inventory' = [inventory EXCEPT ![c] = list]
  /\ req' = [Written(c) EXCEPT ![r] = next]

----------------------------------------------------------------------------
(* POST loot/take.                                                         *)

AskTake(r, e, to) ==
  /\ Does(r, "idle") /\ entry[e] # NoEntry
  /\ Goes(r, [does |-> "take entry", e |-> e, from |-> entry[e].at, to |-> to])
  /\ UNCHANGED <<inventory, entry, made, bags, token, edits, history>>

\* An entry that has gone or moved: ROLLBACK and 404.
TakeEntry(r) ==
  LET q == req[r]
  IN  /\ Does(r, "take entry") /\ EntryFree(q.e)
      /\ IF entry[q.e].at = q.from
           THEN Goes(r, [q EXCEPT !.does = "take target"]) ELSE Ends(r)
      /\ UNCHANGED <<inventory, entry, made, bags, token, edits, history>>

\* The target row is locked and its inventory read.
TakeTarget(r) ==
  LET q == req[r]
  IN  /\ Does(r, "take target") /\ RowFree(q.to)
      /\ Goes(r, [does |-> "take", e |-> q.e, from |-> q.from, to |-> q.to,
                  qty |-> entry[q.e].qty, item |-> entry[q.e].item,
                  list |-> inventory[q.to]])
      /\ UNCHANGED <<inventory, entry, made, bags, token, edits, history>>

\* Mutant: the last one leaves an entry of none behind.
TakeDown(r) ==
  LET q == req[r]
  IN  /\ Does(r, "take")
      /\ entry' = [entry EXCEPT ![q.e].qty = @ - 1]
      /\ WriteRow(r, q.to, Added(q.list, q.item), Idle)
      /\ UNCHANGED <<made, bags, token, edits, history>>

\* The bag gives one item away, and with it what happens after the response.
Take(r) ==
  LET q == req[r]
      after == IF q.from \in bags THEN [does |-> "remains", from |-> q.from] ELSE Idle
  IN  /\ Does(r, "take")
      /\ entry' = IF q.qty <= 1 THEN [entry EXCEPT ![q.e] = NoEntry]
                                ELSE [entry EXCEPT ![q.e].qty = @ - 1]
      /\ WriteRow(r, q.to, Added(q.list, q.item), after)
      /\ spilled' = spilled \ {q.from}
      /\ UNCHANGED <<made, bags, token, edits, ledger, blind, late>>

\* Mutant: the tokens go whatever is left in the bag.
RemainsUnread(r) ==
  /\ Does(r, "remains") /\ Goes(r, [req[r] EXCEPT !.does = "despawn"])
  /\ UNCHANGED <<inventory, entry, made, bags, token, edits, history>>

\* Mutant: the tokens of an emptied bag are left to the client.
RemainsIgnored(r) ==
  /\ Does(r, "remains") /\ Ends(r)
  /\ UNCHANGED <<inventory, entry, made, bags, token, edits, history>>

\* Is anything left in the bag?
Remains(r) ==
  /\ Does(r, "remains")
  /\ IF Within(req[r].from) = {}
       THEN Goes(r, [req[r] EXCEPT !.does = "despawn"]) ELSE Ends(r)
  /\ UNCHANGED <<inventory, entry, made, bags, token, edits, history>>

Despawn(r) ==
  LET b == req[r].from
  IN  /\ Does(r, "despawn") /\ Ends(r)
      /\ token' = token \ {b}
      /\ UNCHANGED <<inventory, entry, made, bags, edits, history>>

LooksAfter(r, b) == req[r].does \in {"remains", "despawn"} /\ req[r].from = b

\* A query fails, or the server stops.  A transaction rolls back, and nothing
\* is retried.  What a take does after its COMMIT only logs the failure: an
\* emptied bag that nobody else is looking after stays, or its tokens are
\* deleted and the room is not told.  A take whose COMMIT is not answered fails
\* just after Take; other requests whose last query took effect have done what
\* their last action does.
Fail(r) ==
  /\ ~Does(r, "idle") /\ Ends(r)
  /\ \/ UNCHANGED token
     \/ Does(r, "despawn") /\ token' = token \ {req[r].from}
  /\ spilled' = spilled \cup
       {b \in token' : /\ LooksAfter(r, b) /\ Within(b) = {}
                       /\ \A s \in Requests \ {r} : ~LooksAfter(s, b)}
  /\ UNCHANGED <<inventory, entry, made, bags, edits, ledger, blind, late>>

----------------------------------------------------------------------------
(* POST loot/transfer.                                                     *)

AskTransfer(r, e, to) ==
  /\ Does(r, "idle") /\ entry[e] # NoEntry /\ to # entry[e].at
  /\ Goes(r, [does |-> "transfer entry", e |-> e, from |-> entry[e].at, to |-> to])
  /\ UNCHANGED <<inventory, entry, made, bags, token, edits, history>>

TransferEntry(r) ==
  LET q == req[r]
  IN  /\ Does(r, "transfer entry") /\ EntryFree(q.e)
      /\ IF entry[q.e].at = q.from
           THEN Goes(r, [q EXCEPT !.does = "transfer"]) ELSE Ends(r)
      /\ UNCHANGED <<inventory, entry, made, bags, token, edits, history>>

Removing(b) == \E r \in Requests : Does(r, "despawn") /\ req[r].from = b

\* Something is put into a bag, or leaves it, by another way than a take.
PutInto(place) ==
  late' = IF place \in bags /\ (Removing(place) \/ place \notin token)
            THEN late \cup {place} ELSE late
OutOf(place, e) ==
  spilled' = IF place \in bags /\ Within(place) = {e}
               THEN spilled \cup {place} ELSE spilled

\* The foreign key takes a share lock on the target's row.
Transfer(r) ==
  LET q == req[r]
  IN  /\ Does(r, "transfer") /\ RowFree(q.to) /\ Ends(r)
      /\ entry' = [entry EXCEPT ![q.e].at = q.to]
      /\ PutInto(q.to) /\ OutOf(q.from, q.e)
      /\ UNCHANGED <<inventory, made, bags, token, edits, ledger, blind>>

----------------------------------------------------------------------------
(* POST loot/drop: one of the item at an index becomes a bag with a token. *)

AskDrop(r, c, i) ==
  /\ Does(r, "idle") /\ i \in DOMAIN inventory[c]
  /\ made + Cardinality(Dropping) < MaxIds
  /\ Goes(r, [does |-> "drop row", to |-> c, i |-> i])
  /\ UNCHANGED <<inventory, entry, made, bags, token, edits, history>>

DropRow(r) ==
  LET q == req[r]
  IN  /\ Does(r, "drop row") /\ RowFree(q.to)
      /\ IF q.i \in DOMAIN inventory[q.to]
           THEN Goes(r, [does |-> "drop", to |-> q.to, i |-> q.i,
                         list |-> inventory[q.to]])
           ELSE Ends(r)
      /\ UNCHANGED <<inventory, entry, made, bags, token, edits, history>>

Drop(r) ==
  LET q == req[r]
      b == made + 1
  IN  /\ Does(r, "drop")
      /\ made' = b /\ bags' = bags \cup {b} /\ token' = token \cup {b}
      /\ entry' = [entry EXCEPT ![b] = [at |-> b, item |-> q.list[q.i].item, qty |-> 1]]
      /\ WriteRow(r, q.to, Dropped(q.list, q.i), Idle)
      /\ UNCHANGED <<edits, history>>

----------------------------------------------------------------------------
(* Inventories rewritten from what was read, without a lock.               *)

Read(r, c, what) ==
  /\ Does(r, "idle")
  /\ Goes(r, [does |-> what, to |-> c, list |-> inventory[c], fresh |-> TRUE])
  /\ UNCHANGED <<inventory, entry, made, bags, token, edits, history>>

\* POST inventory/enrich: UPDATE ... WHERE id = $2.
Enrich(r) ==
  LET q == req[r]
  IN  /\ Does(r, "enrich") /\ RowFree(q.to)
      /\ WriteRow(r, q.to, q.list, Idle)
      /\ blind' = (blind \/ ~q.fresh)
      /\ UNCHANGED <<entry, made, bags, token, edits, ledger, spilled, late>>

\* Mutant: the version is not compared.
RewriteUnguarded(r) ==
  LET q == req[r]
  IN  /\ Does(r, "rewrite") /\ RowFree(q.to)
      /\ WriteRow(r, q.to, q.list, Idle)
      /\ UNCHANGED <<entry, made, bags, token, edits, history>>

\* !attune and character:update: UPDATE ... WHERE id = $2 AND version = $3.
Rewrite(r) ==
  LET q == req[r]
  IN  /\ Does(r, "rewrite") /\ RowFree(q.to)
      /\ IF q.fresh THEN WriteRow(r, q.to, q.list, Idle)
                    ELSE Ends(r) /\ UNCHANGED inventory
      /\ UNCHANGED <<entry, made, bags, token, edits, history>>

----------------------------------------------------------------------------
(* The DM adds an entry, changes its quantity, removes it.                 *)

Edited == edits < MaxEdits /\ edits' = edits + 1

Post(place, item) ==
  /\ Edited
  /\ made + Cardinality(Dropping) < MaxIds
  /\ RowFree(place)
  /\ made' = made + 1
  /\ entry' = [entry EXCEPT ![made + 1] = [at |-> place, item |-> item, qty |-> 1]]
  /\ ledger' = [ledger EXCEPT ![item] = @ + 1]
  /\ PutInto(place)
  /\ UNCHANGED <<inventory, bags, token, req, blind, spilled>>

Patch(e, n) ==
  /\ Edited /\ entry[e] # NoEntry /\ EntryFree(e)
  /\ entry' = [entry EXCEPT ![e].qty = n]
  /\ ledger' = [ledger EXCEPT ![entry[e].item] = (@ + n) - entry[e].qty]
  /\ UNCHANGED <<inventory, made, bags, token, req, blind, spilled, late>>

Remove(e) ==
  /\ Edited /\ entry[e] # NoEntry /\ EntryFree(e)
  /\ entry' = [entry EXCEPT ![e] = NoEntry]
  /\ ledger' = [ledger EXCEPT ![entry[e].item] = @ - entry[e].qty]
  /\ OutOf(entry[e].at, e)
  /\ UNCHANGED <<inventory, made, bags, token, req, blind, late>>

----------------------------------------------------------------------------
Ask(r) ==
  \/ \E e \in Ids : \/ \E c \in Pcs : AskTake(r, e, c)
                    \/ \E place \in Pcs \cup bags : AskTransfer(r, e, place)
  \/ \E c \in Pcs : \/ \E i \in DOMAIN inventory[c] : AskDrop(r, c, i)
                    \/ Read(r, c, "enrich")
                    \/ Read(r, c, "rewrite")

Lock(r) == TakeEntry(r) \/ TakeTarget(r) \/ TransferEntry(r) \/ DropRow(r)

Finish(r) ==
  \/ Take(r) \/ Remains(r) \/ Despawn(r) \/ Transfer(r) \/ Drop(r)
  \/ Enrich(r) \/ Rewrite(r) \/ Fail(r)

Edit ==
  \/ \E place \in Pcs \cup bags, item \in Items : Post(place, item)
  \/ \E e \in Ids : Remove(e) \/ \E n \in Counts : Patch(e, n)

Next == (\E r \in Requests : Ask(r) \/ Lock(r) \/ Finish(r)) \/ Edit

Spec == Init /\ [][Next]_vars

----------------------------------------------------------------------------
(* Properties.                                                             *)

(* Takes, transfers, drops and guarded rewrites, in flight together, never *)
(* lose or double an item: every one the table had or the DM added is in   *)
(* exactly one inventory or entry.  Only the unguarded enrichment can      *)
(* break this, and only by going over a newer inventory.                   *)
NothingLostOrDoubled ==
  ~blind => \A item \in Items : Owned(item) + Lying(item) = ledger[item]

(* A bag with something in it can be found on the map, unless that was put *)
(* in while the bag was already being removed.                             *)
LootKeepsItsToken == \A b \in bags \ late : Within(b) # {} => b \in token

(* When no request is in flight, a bag that the last take emptied is gone  *)
(* from the map, whoever took what together, unless the last request that  *)
(* was going to look into it failed after its COMMIT (spilled).            *)
EmptiedBagGoes ==
  (\A r \in Requests : Does(r, "idle")) =>
    \A b \in bags \ spilled : Within(b) = {} => b \notin token

(* No circle of requests waits for each other's rows: the entry is always  *)
(* locked before the character, whichever transactions meet.               *)
NobodyWaitsInACircle ==
  \A circle \in (SUBSET Requests) \ {{}} :
    \E r \in circle : \A s \in circle : ~WaitsFor(r, s)
=============================================================================
