\* Lock cycles are broken, every request ends, and who is confirmed has a QR.
SPECIFICATION HandledSpec
CONSTANTS
  r1 = r1  r2 = r2  r3 = r3
  p1 = p1  p2 = p2  p3 = p3  p4 = p4
  NoPay = NoPay  NoReq = NoReq
  Regs = {r1}
  Pays = {p1, p2}
  RegOf <- AllToR1
  Reqs = {c1, c2}
  Capacity = 1
  Ops = {"CreateOrder", "Webhook", "Offline", "Recover", "Cancel", "Reopen", "Revoke", "Refund"}
  Fulfils = {TRUE}
  MaxAborts = 0
INVARIANTS ConfirmedCanEnter
PROPERTIES RequestsEnd
\* A refunded registration whose attempts are used up may have nothing left to do.
CHECK_DEADLOCK FALSE
