--------------------------- MODULE MCRoomPresence ---------------------------
(* One DM with one socket and a player with two tabs (or a tab and its     *)
(* reconnection).                                                          *)
EXTENDS RoomPresence, TLC

CONSTANTS dm, alice, d1, a1, a2

MCUsers == {dm, alice}
MCSockets == {d1, a1, a2}
Tabs == Permutations({a1, a2})
MCOneTabEach == {d1, a1}
OwnerOf == d1 :> dm @@ a1 :> alice @@ a2 :> alice
MCUserOf == [s \in Sockets |-> OwnerOf[s]]
=============================================================================
