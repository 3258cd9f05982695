\* Two registrations, one with two attempts, race for one seat; no confirmation is taken back.
SPECIFICATION Spec
CONSTANTS
  r1 = r1  r2 = r2  r3 = r3
  p1 = p1  p2 = p2  p3 = p3  p4 = p4
  NoPay = NoPay  NoReq = NoReq
  Regs = {r1, r2}
  Pays = {p1, p2, p4}
  RegOf <- PairedRegOf
  Reqs = {c1, c2}
  Capacity = 1
  Ops = {"CreateOrder", "Webhook", "Verify", "Sync", "Reconcile", "Fail", "Offline", "Recover", "Cancel"}
  Fulfils = {TRUE}
  MaxAborts = 0
SYMMETRY ReqSymmetry
INVARIANTS CapacityRespected MoneyBacked
