\* Administrators changed by each other, under roles given, left, renamed and created.
SPECIFICATION Spec
CONSTANTS
  u1 = u1  u2 = u2  u3 = u3  r1 = r1  r2 = r2  r3 = r3  e1 = e1
  Users = {u1, u2, u3}
  Roles = {r1, r2, r3}
  Super = Super  Coord = Coord  Staff = Staff  Other = Other
  Unnamed = Unnamed  NoRole = NoRole  NoUser = NoUser  Keep = Keep
  Events = {e1}
  Reqs = {c1, c2}
  Ops = {"grant", "update", "delete", "role", "assign", "edit", "logout", "restart"}
  FirstRoles <- TwoRoles
  FirstAdmins <- TwoSupers
  Patches <- SomePatches
  RoleBodies <- SomeBodies
  TTL = 1
  MaxNow = 1
  MaxAsks = 3
SYMMETRY Alike
INVARIANTS TypeOK AuthorityIsRecent ChangesReachCache ScopeFitsRole
PROPERTY SuperSurvivesDeletion
CHECK_DEADLOCK FALSE
