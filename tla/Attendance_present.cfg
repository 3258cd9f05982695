\* Who is present, by the single and by the batch query; one request at a time.
SPECIFICATION Spec
CONSTANTS
  s1 = s1  t1 = t1  t2 = t2  m1 = m1  m2 = m2  m3 = m3
  u1 = u1  u2 = u2  door = door  hall = hall  solo = solo  teams = teams
  NoProfile = NoProfile  NoMember = NoMember  NoHolder = NoHolder  NoEvent = NoEvent
  TeamOf <- TwoTeams
  OwnerOf <- OwnedByU1
  EventOf <- TwoEvents
  EventAt <- DoorAndHall
  Solos = {s1}
  Teams = {t1}
  Members = {m1, m2}
  Leaders = {m1}
  Profiles = {u1, u2}
  Checkpoints = {door}
  Reqs = {c1}
  MaxClock = 4
  Ops = {"Scan", "Manual", "AdminPresent", "Absence", "Link"}
SYMMETRY ReqSymmetry
INVARIANTS TypeOK BatchAgrees OneEntryAtATime
CHECK_DEADLOCK FALSE
