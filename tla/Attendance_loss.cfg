\* Rights are lost while check-ins run.
SPECIFICATION Spec
CONSTANTS
  s1 = s1  t1 = t1  t2 = t2  m1 = m1  m2 = m2  m3 = m3
  u1 = u1  u2 = u2  door = door  hall = hall  solo = solo  teams = teams
  NoProfile = NoProfile  NoMember = NoMember  NoHolder = NoHolder  NoEvent = NoEvent
  TeamOf <- TwoTeams
  OwnerOf <- OwnedByU1
  EventOf <- TwoEvents
  EventAt <- DoorAndHall
  Solos = {s1}
  Teams = {t1}
  Members = {m1, m2}
  Leaders = {m1}
  Profiles = {u1}
  Checkpoints = {hall}
  Reqs = {c1}
  MaxClock = 1
  Ops = {"Scan", "AdminPresent", "Revoke", "Cancel", "Patch", "Leave", "Fulfil"}
SYMMETRY ReqSymmetry
INVARIANTS AttendanceInv NoEntryAfterLoss
CHECK_DEADLOCK FALSE
