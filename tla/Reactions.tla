----------------------------- MODULE Reactions ------------------------------
(***************************************************************************)
(* What the service of opportunity attacks promises.  An opportunity is    *)
(* offered once, and from then on it is open until somebody commits to it  *)
(* or it lapses.  Who commits stakes a reaction that is neither used nor   *)
(* staked; the commitment ends in a strike, is withdrawn with the reaction *)
(* unused, or is forfeited with the reaction lost.  A reaction of another  *)
(* kind is used at once, or staked too and then used or given back.        *)
(***************************************************************************)
CONSTANTS Opportunities, Economies

VARIABLES
  offered,     \* opportunities there have been
  open,        \* those that can still be taken
  committed,   \* who is on the way: an opportunity with the reaction it costs
  struck,      \* opportunities attacked on
  braced,      \* reactions of another kind that are staked
  used         \* economies whose reaction is gone

rvars == <<offered, open, committed, struck, braced, used>>

Init == offered = {} /\ open = {} /\ committed = {} /\ struck = {}
        /\ braced = {} /\ used = {}

Available(e) == e \notin used \cup braced /\ \A c \in committed : c.with # e

\* A new opportunity, which may take the place of open ones.
Offer(x) ==
  /\ x \notin offered /\ offered' = offered \cup {x}
  /\ \E lapsed \in SUBSET open : open' = (open \ lapsed) \cup {x}
  /\ UNCHANGED <<committed, struck, braced, used>>

Lapse(x) ==
  /\ x \in open /\ open' = open \ {x}
  /\ UNCHANGED <<offered, committed, struck, braced, used>>

Commit(x, e) ==
  /\ x \in open /\ Available(e)
  /\ open' = open \ {x}
  /\ committed' = committed \cup {[on |-> x, with |-> e]}
  /\ UNCHANGED <<offered, struck, braced, used>>

\* What c has staked is used, or not.
Ends(c, loses) ==
  /\ c \in committed /\ committed' = committed \ {c}
  /\ used' = IF loses THEN used \cup {c.with} ELSE used
  /\ UNCHANGED <<offered, open, braced>>

Strike(c) == Ends(c, TRUE) /\ c.on \notin struck /\ struck' = struck \cup {c.on}
Withdraw(c) == Ends(c, FALSE) /\ UNCHANGED struck
Forfeit(c) == Ends(c, TRUE) /\ UNCHANGED struck

\* A reaction of another kind.
React(e) ==
  /\ Available(e) /\ used' = used \cup {e}
  /\ UNCHANGED <<offered, open, committed, struck, braced>>

Brace(e) ==
  /\ Available(e) /\ braced' = braced \cup {e}
  /\ UNCHANGED <<offered, open, committed, struck, used>>

Settle(e) ==
  /\ e \in braced /\ braced' = braced \ {e}
  /\ used' \in {used, used \cup {e}}
  /\ UNCHANGED <<offered, open, committed, struck>>

Next ==
  \/ \E x \in Opportunities : Offer(x) \/ Lapse(x) \/ \E e \in Economies : Commit(x, e)
  \/ \E c \in committed : Strike(c) \/ Withdraw(c) \/ Forfeit(c)
  \/ \E e \in Economies : React(e) \/ Brace(e) \/ Settle(e)

Spec == Init /\ [][Next]_rvars
=============================================================================
