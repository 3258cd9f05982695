\* A captured order is applied in the end; a seat is free for it.
SPECIFICATION FairSpec
CONSTANTS
  r1 = r1  r2 = r2  r3 = r3
  p1 = p1  p2 = p2  p3 = p3  p4 = p4
  NoPay = NoPay  NoReq = NoReq
  Regs = {r1}
  Pays = {p1, p2}
  RegOf <- AllToR1
  Reqs = {c1, c2}
  Capacity = 1
  Ops = {"CreateOrder", "Webhook", "Fail", "Recover", "Cancel", "Refund"}
  Fulfils = {TRUE}
  MaxAborts = 1
PROPERTIES CapturedIsApplied
\* A refunded registration whose attempts are used up may have nothing left to do.
CHECK_DEADLOCK FALSE
