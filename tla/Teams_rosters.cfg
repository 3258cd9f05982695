\* Rosters, roles and capacity under any two requests.
SPECIFICATION Spec
CONSTANTS
  Unset = Unset
  MaxRequired = 30
  MaxSubstitutes = 20
  Teams = {t1}
  Profiles = {p1, p2}
  Reqs = {c1, c2}
  Seats = {1, 2, 3, 4}
  NoTeam = NoTeam
  NoProfile = NoProfile
  NoSeat = NoSeat
  Event = Event
  Rules <- TwoAndOne
  LeaderManaged = TRUE
  Capacity = 1
  MaxAsks = 4
  Ops = {"join", "add", "adminAdd", "confirm", "transfer", "patch", "leave", "remove", "cancelUnpaid", "cancelTeam", "cancelReg", "revoke", "patchReg"}
SYMMETRY Alike
INVARIANTS TypeOK RosterWithinLimits CheckedSeatsFit LeaderHoldsTheTeam
PROPERTY NothingEntersCancelled
CHECK_DEADLOCK FALSE
