SPECIFICATION Spec
CONSTANTS
  dm = dm
  alice = alice
  d1 = d1
  a1 = a1
  a2 = a2
  Users <- MCUsers
  Sockets <- MCSockets
  UserOf <- MCUserOf
  Owner = dm
  RoomIds = {r1, r2}
  Reqs = {q1}
  NoSocket = NoSocket
  NoRoom = NoRoom
INVARIANTS
  TypeOK
  IndexMatchesRoom
  PrimaryIsTracked
  LiveRoomIsOccupied
  TrackedIsSubscribed
PROPERTIES
  UserLeavesWithLastTab
  ImplementsPresence

CHECK_DEADLOCK FALSE
SYMMETRY Tabs
