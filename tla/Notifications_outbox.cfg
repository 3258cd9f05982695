\* Confirmations, resends and campaigns of two participants.
SPECIFICATION Spec
CONSTANTS
  lead = lead  mate = mate  guest = guest
  Lead = lead
  People = {lead, guest}
  Linked = {lead}
  Reachable = {lead, guest}
  Keys = {k1}
  NoKey = NoKey
  NoProfile = NoProfile
  Nobody = Nobody
  Reqs = {c1, c2}
  Ops = {"confirm", "campaign", "admin", "resend"}
  MaxRows = 2
  MaxAsks = 3
  MaxFaults = 1
INVARIANTS TypeOK SentMeansDelivered OneConfirmationEach KeyedOnce
PROPERTY PendingSettles
CHECK_DEADLOCK FALSE
