\* Two attempts to pay one registration, every operation that puts no settled registration back.
SPECIFICATION Spec
CONSTANTS
  r1 = r1  r2 = r2  r3 = r3
  p1 = p1  p2 = p2  p3 = p3  p4 = p4
  NoPay = NoPay  NoReq = NoReq
  Regs = {r1}
  Pays = {p1, p2}
  RegOf <- AllToR1
  Reqs = {c1, c2}
  Capacity = 1
  Ops = {"CreateOrder", "Webhook", "Verify", "Sync", "Reconcile", "Fail", "Offline", "Recover", "Cancel", "AdminCancel", "PatchCancel", "Refund"}
  Fulfils = {TRUE, FALSE}
  MaxAborts = 1
SYMMETRY AttemptSymmetry
INVARIANTS TypeOK PaidImpliesSettled AppliedOnce OneOpenAttempt SettleInv
PROPERTIES NoDowngrade ImplementsLedger
