\* Two teams and the public scanner roster.
SPECIFICATION Spec
CONSTANTS
  s1 = s1  t1 = t1  t2 = t2  m1 = m1  m2 = m2  m3 = m3
  u1 = u1  u2 = u2  door = door  hall = hall  solo = solo  teams = teams
  NoProfile = NoProfile  NoMember = NoMember  NoHolder = NoHolder  NoEvent = NoEvent
  TeamOf <- TwoTeams
  OwnerOf <- OwnedByU1
  EventOf <- TwoEvents
  EventAt <- DoorAndHall
  Solos = {}
  Teams = {t1, t2}
  Members = {m1, m2, m3}
  Leaders = {m1, m3}
  Profiles = {u1, u2}
  Checkpoints = {door}
  Reqs = {c1}
  MaxClock = 3
  Ops = {"Scan", "Roster", "Absence", "Configure"}
SYMMETRY ReqSymmetry
INVARIANTS RosterWasOpened
CHECK_DEADLOCK FALSE
