\* Additions to a range of two to three members.
SPECIFICATION Spec
CONSTANTS
  Unset = Unset
  MaxRequired = 30
  MaxSubstitutes = 20
  Teams = {t1}
  Profiles = {p1, p2}
  Reqs = {c1, c2}
  Seats = {1, 2, 3, 4}
  NoTeam = NoTeam
  NoProfile = NoProfile
  NoSeat = NoSeat
  Event = Event
  Rules <- TwoToThree
  LeaderManaged = TRUE
  Capacity = 2
  MaxAsks = 4
  Ops = {"add"}
SYMMETRY Alike
INVARIANT AdmittedIsKept
CHECK_DEADLOCK FALSE
