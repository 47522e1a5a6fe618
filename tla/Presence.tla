------------------------------ MODULE Presence ------------------------------
(***************************************************************************)
(* What a room promises to the rest of the server: there is one set of     *)
(* tracked tabs, and who is online and whether the room exists follow from *)
(* it.  A tab enters, a tab closes, a user is evicted with all tabs, or    *)
(* the room is torn down; nothing else changes presence.                   *)
(***************************************************************************)
CONSTANTS Users, Sockets, UserOf

VARIABLES
  tracked,   \* the tabs the server counts as being in the room
  online,    \* the users it shows as present
  open       \* the room exists

pvars == <<tracked, online, open>>

Becomes(tabs) ==
  /\ tracked' = tabs
  /\ online' = {UserOf[s] : s \in tabs}
  /\ open' = (tabs # {})

Init == tracked = {} /\ online = {} /\ open = FALSE

Enter(s) == Becomes(tracked \cup {s})
Close(s) == s \in tracked /\ Becomes(tracked \ {s})
Evict(u) == Becomes({s \in tracked : UserOf[s] # u})
TearDown == Becomes({})

Next ==
  \/ \E s \in Sockets : Enter(s) \/ Close(s)
  \/ \E u \in Users : Evict(u)
  \/ TearDown

Spec == Init /\ [][Next]_pvars
=============================================================================
