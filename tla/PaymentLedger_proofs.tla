------------------------ MODULE PaymentLedger_proofs ------------------------
(***************************************************************************)
(* PaymentCore implements PaymentLedger, for every number of registrations *)
(* payments and requests, in instances where nothing is put back.          *)
(*                                                                         *)
(* SettleInv does not say why a repeated delivery may confirm: what the    *)
(* session remembers of the payment must be backed by the row.  MoneyInv   *)
(* adds that, and is inductive together with SettleInv.                    *)
(***************************************************************************)
EXTENDS PaymentCore_proofs

Settled == {"PAID", "REFUNDED"}
Applying == {"repoint", "capacity", "commit"}

\* A payment remembered as settled is settled, one remembered as payable has
\* a row, and who confirms without writing PAID does so for settled money.
MoneyMemory(c) ==
    /\ req[c].pc # "idle" /\ req[c].seenPay \in Settled => payStatus[req[c].p] \in Settled
    /\ req[c].pc # "idle" /\ req[c].seenPay \in Payable => payStatus[req[c].p] # "ABSENT"
    /\ req[c].pc \in Applying /\ ~ req[c].newly => payStatus[req[c].p] \in Settled

MoneyInv == SettleInv /\ \A c \in Reqs : MoneyMemory(c)

\* Money stays, and so do rows.
LEMMA PaymentsGrow ==
    ASSUME SettleInv, [Next]_vars, NEW p \in Pays
    PROVE  /\ payStatus[p] \in Settled => payStatus'[p] \in Settled
           /\ payStatus[p] # "ABSENT" => payStatus'[p] # "ABSENT"
BY PaymentMoves DEF SettleInv, OwnInv, TypeOK, Settled

\* A request that remembers what it remembered, no further than it was.
LEMMA MemoryKept ==
    ASSUME SettleInv, [Next]_vars, NEW c \in Reqs, MoneyMemory(c), req[c].pc # "idle",
           req'[c].p = req[c].p, req'[c].seenPay = req[c].seenPay,
           req'[c].newly = req[c].newly,
           req'[c].pc \in Applying => req[c].pc \in Applying
    PROVE  MoneyMemory(c)'
<1>1. CASE req[c].p \in Pays
  BY <1>1, PaymentsGrow DEF MoneyMemory
<1>2. CASE req[c].p \notin Pays
  BY <1>2 DEF MoneyMemory, Applying, SettleInv, OwnInv, OwnPayment, Settled, Payable
<1> QED
  BY <1>1, <1>2

LEMMA MemoryOther ==
    ASSUME SettleInv, [Next]_vars, NEW c \in Reqs, MoneyMemory(c), req'[c] = req[c]
    PROVE  MoneyMemory(c)'
<1>1. CASE req[c].pc = "idle"
  BY <1>1 DEF MoneyMemory, Applying
<1>2. CASE req[c].pc # "idle"
  BY <1>2, MemoryKept DEF MoneyMemory
<1> QED
  BY <1>1, <1>2

LEMMA MemoryFinish ==
    ASSUME TypeOK, NEW c \in Reqs, Finish(c)
    PROVE  MoneyMemory(c)'
BY DEF TypeOK, Finish, MoneyMemory, Idle, Applying

\* A request remembers the payment as it is when it begins.
LEMMA MemoryStart ==
    ASSUME TypeOK, NEW c \in Reqs, NEW pc \in PCs \ Applying, NEW r \in Regs,
           NEW p \in Pays \cup {NoPay}, NEW sp \in PayStatus \cup {"UNREAD"},
           NEW sr \in RegStatus \cup {"UNREAD"}, NEW sptr \in Pays \cup {NoPay},
           Start(c, pc, r, p, sp, sr, sptr), payStatus' = payStatus,
           sp = "UNREAD" \/ sp = payStatus[p]
    PROVE  MoneyMemory(c)'
BY DEF TypeOK, Start, MoneyMemory, Settled, Payable, Applying

-----------------------------------------------------------------------------
\* Every request of PaymentCore keeps MoneyMemory.
LEMMA MemoryGoesOn ==
    ASSUME MoneyInv, [Next]_vars, NEW c \in Reqs, Progress(c) \/ Abort(c)
    PROVE  MoneyMemory(c)'
<1> USE DEF MoneyInv
<1>1. TypeOK /\ OwnInv /\ MoneyMemory(c)
  BY DEF SettleInv, OwnInv
<1>2. CASE Finish(c)
  BY <1>1, <1>2, MemoryFinish
<1>3. ASSUME NEW pc \in PCs, Step(c, pc), req[c].pc # "idle",
             pc \in Applying => req[c].pc \in Applying
      PROVE  MoneyMemory(c)'
  <2>1. /\ req'[c].p = req[c].p /\ req'[c].seenPay = req[c].seenPay
        /\ req'[c].newly = req[c].newly /\ req'[c].pc = pc
    BY <1>1, <1>3 DEF TypeOK, Request, Step
  <2> QED
    BY <1>1, <1>3, <2>1, MemoryKept
<1>4. CASE ReconcileSibling(c)
  BY <1>2, <1>3, <1>4 DEF ReconcileSibling, PCs, Applying
<1>5. CASE ApplyRepoint(c)
  BY <1>3, <1>5 DEF ApplyRepoint, ConfirmPc, PCs, Applying
<1>6. CASE ApplyCapacity(c)
  BY <1>2, <1>3, <1>6 DEF ApplyCapacity, PCs, Applying
<1>7. CASE OfflineCommit(c)
  <2>1. CASE Step(c, "fulfil")
    BY <1>3, <1>7, <2>1 DEF OfflineCommit, PCs, Applying
  <2>2. CASE req' = [req EXCEPT ![c] = Idle]
    BY <1>1, <2>2 DEF TypeOK, MoneyMemory, Idle, Applying
  <2> QED
    BY <1>7, <2>1, <2>2 DEF OfflineCommit
<1>8. CASE ApplyLock(c)
  <2> DEFINE p == req[c].p
             sr == IF req[c].seenReg = "UNREAD" THEN regStatus[req[c].r]
                                                ELSE req[c].seenReg
             sptr == IF req[c].seenReg = "UNREAD" THEN regPtr[req[c].r]
                                                  ELSE req[c].seenPtr
             pc == AfterLockPc(p, sr, sptr)
             Moved(newly) == [req[c] EXCEPT !.pc = pc, !.seenReg = sr, !.seenPtr = sptr,
                                            !.newly = newly]
  <2>1. p \in Pays /\ req[c].pc = "lockPay" /\ payStatus' = payStatus
    BY <1>1, <1>8, RequestPayment DEF ApplyLock, payVars
  <2>2. PICK outcome \in TransitionOutcomes(req[c].seenPay, payStatus[p]) :
          IF outcome = "stop" THEN Finish(c)
                              ELSE req' = [req EXCEPT ![c] = Moved(outcome = "newly")]
    BY <1>8, Zenon DEF ApplyLock
  <2>3. CASE outcome = "stop"
    BY <1>1, <2>2, <2>3, MemoryFinish
  <2>4. CASE outcome # "stop"
    <3>1. req[c] \in Request /\ req'[c] = Moved(outcome = "newly")
      BY <1>1, <2>2, <2>4 DEF TypeOK
    <3>2. /\ req'[c].p = p /\ req'[c].seenPay = req[c].seenPay
          /\ req'[c].newly = (outcome = "newly")
      <4> HIDE DEF pc, sr, sptr
      <4> QED
        BY <3>1 DEF Request
    <3>3. outcome # "newly" => payStatus[p] \in Settled
      BY <1>1, <2>1, <2>4
      DEF TransitionOutcomes, MoneyMemory, TypeOK, PayStatus, Payable, Settled
    <3> QED
      BY <1>1, <2>1, <3>2, <3>3 DEF MoneyMemory
  <2> QED
    BY <2>3, <2>4
<1>9. CASE RecoverPay(c)
  <2> DEFINE p == req[c].p
             seen == IF req[c].seenPay = "UNREAD" THEN payStatus[p] ELSE req[c].seenPay
  <2>1. p \in Pays /\ req[c].pc = "recoverPay" /\ payStatus' = payStatus
    BY <1>1, <1>9, RequestPayment DEF RecoverPay, payVars
  <2>2. CASE Finish(c)
    BY <1>1, <2>2, MemoryFinish
  <2>3. CASE req' = [req EXCEPT ![c] = [req[c] EXCEPT !.pc = "lockPay", !.seenPay = seen]]
    <3>1. req[c] \in Request
      BY <1>1 DEF TypeOK
    <3>2. req'[c].p = p /\ req'[c].seenPay = seen /\ req'[c].pc = "lockPay"
      BY <1>1, <2>3, <3>1 DEF TypeOK, Request
    <3> QED
      BY <1>1, <2>1, <3>2 DEF MoneyMemory, Settled, Payable, Applying
  <2> QED
    BY <1>9, <2>2, <2>3 DEF RecoverPay
<1>10. ASSUME \/ ApplyCommit(c) \/ CreateOrderCommit(c) \/ OfflineFulfil(c)
              \/ CancelCommit(c) \/ PatchCommit(c) \/ RevokeCommit(c) \/ RefundCommit(c)
              \/ DeadlockVictim(c) \/ Abort(c)
       PROVE  Finish(c)
  BY <1>10
  DEF ApplyCommit, CreateOrderCommit, OfflineFulfil, CancelCommit, PatchCommit, RevokeCommit,
      RefundCommit, DeadlockVictim, Abort
<1> QED
  BY <1>2, <1>4, <1>5, <1>6, <1>7, <1>8, <1>9, <1>10 DEF Progress

\* A request that begins has nothing to answer for yet.
LEMMA MemoryArrives ==
    ASSUME MoneyInv, [Next]_vars, NEW c \in Reqs, NEW d \in Reqs,
           \/ \E p \in Pays : \/ Webhook(c, p) \/ Verify(c, p) \/ Sync(c, p)
                             \/ Reconcile(c, p) \/ RecoverBegin(c, p) \/ RefundBegin(c, p)
           \/ \E r \in Regs :
                \/ \E byId \in BOOLEAN : \/ CreateOrderSync(c, r, byId)
                                       \/ \E p \in Pays : CreateOrderNew(c, r, byId, p)
                \/ CancelBegin(c, r) \/ PatchBegin(c, r) \/ RevokeBegin(c, r)
                \/ \E p \in Pays : OfflineBegin(c, r, p)
    PROVE  MoneyMemory(d)'
<1> USE DEF MoneyInv
<1>1. TypeOK /\ MoneyMemory(d) /\ CoreAssumption
  BY CoreAssumption DEF SettleInv, OwnInv
<1>2. ASSUME NEW pc \in PCs \ Applying, NEW r \in Regs, NEW p \in Pays \cup {NoPay},
             NEW sp \in PayStatus \cup {"UNREAD"}, NEW sr \in RegStatus \cup {"UNREAD"},
             NEW sptr \in Pays \cup {NoPay}, Start(c, pc, r, p, sp, sr, sptr),
             payStatus' = payStatus, sp = "UNREAD" \/ sp = payStatus[p]
      PROVE  MoneyMemory(d)'
  <2>1. CASE c = d
    BY <1>1, <1>2, <2>1, MemoryStart
  <2>2. CASE c # d
    <3>1. req'[d] = req[d]
      BY <1>1, <1>2, <2>2 DEF TypeOK, Start
    <3> QED
      BY <1>1, <3>1, MemoryOther
  <2> QED
    BY <2>1, <2>2
<1>3. {"lockPay", "sibling", "recoverPay", "refund", "order", "cancel", "offline", "patch",
       "revoke"}
        \subseteq PCs \ Applying
  BY DEF PCs, Applying
<1>4. ASSUME NEW p \in Pays, Webhook(c, p) \/ Verify(c, p) \/ Sync(c, p)
      PROVE  MoneyMemory(d)'
  <2>1. /\ Start(c, "lockPay", RegOf[p], p, payStatus[p], "UNREAD", NoPay)
        /\ payStatus' = payStatus
    BY <1>4 DEF Webhook, Verify, Sync, payVars
  <2>2. RegOf[p] \in Regs /\ payStatus[p] \in PayStatus
    BY <1>1 DEF CoreAssumption, TypeOK
  <2> QED
    BY <1>2, <1>3, <2>1, <2>2
<1>5. ASSUME NEW p \in Pays, Reconcile(c, p)
      PROVE  MoneyMemory(d)'
  BY <1>1, <1>2, <1>3, <1>5 DEF Reconcile, payVars, TypeOK, CoreAssumption
<1>6. ASSUME NEW p \in Pays, RecoverBegin(c, p)
      PROVE  MoneyMemory(d)'
  <2> DEFINE sp == IF regPtr[RegOf[p]] = p THEN payStatus[p] ELSE "UNREAD"
  <2>1. /\ Start(c, "recoverPay", RegOf[p], p, sp, regStatus[RegOf[p]], regPtr[RegOf[p]])
        /\ payStatus' = payStatus
    BY <1>6 DEF RecoverBegin, payVars
  <2>2. sp \in PayStatus \cup {"UNREAD"} /\ (sp = "UNREAD" \/ sp = payStatus[p])
    BY <1>1 DEF TypeOK
  <2>3. RegOf[p] \in Regs
    BY <1>1 DEF CoreAssumption
  <2> HIDE DEF sp
  <2> QED
    BY <1>1, <1>2, <1>3, <2>1, <2>2, <2>3 DEF TypeOK
<1>7. ASSUME NEW p \in Pays, RefundBegin(c, p)
      PROVE  MoneyMemory(d)'
  <2>1. /\ Start(c, "refund", RegOf[p], p, payStatus[p], "UNREAD", NoPay)
        /\ payStatus' = payStatus
    BY <1>7 DEF RefundBegin, payVars
  <2>2. RegOf[p] \in Regs /\ payStatus[p] \in PayStatus
    BY <1>1 DEF CoreAssumption, TypeOK
  <2> QED
    BY <1>2, <1>3, <2>1, <2>2
<1>8. ASSUME NEW r \in Regs, NEW p \in Pays,
             OfflineBegin(c, r, p) \/ \E byId \in BOOLEAN : CreateOrderNew(c, r, byId, p)
      PROVE  MoneyMemory(d)'
  <2>1. /\ \/ Start(c, "offline", r, p, "UNREAD", regStatus[r], regPtr[r])
           \/ Start(c, "order", r, p, "UNREAD", regStatus[r], regPtr[r])
        /\ payStatus' = payStatus
    BY <1>8 DEF OfflineBegin, CreateOrderNew, payVars
  <2>2. regStatus[r] \in RegStatus /\ regPtr[r] \in Pays \cup {NoPay}
    BY <1>1 DEF TypeOK
  <2> QED
    BY <1>2, <1>3, <2>1, <2>2
<1>9. ASSUME NEW r \in Regs, NEW byId \in BOOLEAN, CreateOrderSync(c, r, byId)
      PROVE  MoneyMemory(d)'
  BY <1>1, <1>2, <1>3, <1>9 DEF CreateOrderSync, payVars, TypeOK
<1>10. ASSUME NEW r \in Regs, CancelBegin(c, r)
       PROVE  MoneyMemory(d)'
  <2> DEFINE p == regPtr[r]
             sp == IF p = NoPay THEN "UNREAD" ELSE payStatus[p]
  <2>1. Start(c, "cancel", r, p, sp, regStatus[r], p) /\ payStatus' = payStatus
    BY <1>10 DEF CancelBegin, payVars
  <2>2. /\ p \in Pays \cup {NoPay}
        /\ sp \in PayStatus \cup {"UNREAD"} /\ (sp = "UNREAD" \/ sp = payStatus[p])
    BY <1>1 DEF TypeOK
  <2> HIDE DEF p, sp
  <2> QED
    BY <1>1, <1>2, <1>3, <2>1, <2>2 DEF TypeOK
<1>11. ASSUME NEW r \in Regs, PatchBegin(c, r) \/ RevokeBegin(c, r)
       PROVE  MoneyMemory(d)'
  <2>1. /\ \/ Start(c, "patch", r, NoPay, "UNREAD", regStatus[r], NoPay)
           \/ Start(c, "revoke", r, NoPay, "UNREAD", regStatus[r], NoPay)
        /\ payStatus' = payStatus
    BY <1>11 DEF PatchBegin, RevokeBegin, payVars
  <2> QED
    BY <1>1, <1>2, <1>3, <2>1 DEF TypeOK
<1> QED
  BY <1>4, <1>5, <1>6, <1>7, <1>8, <1>9, <1>10, <1>11

LEMMA MemoryStep ==
    ASSUME MoneyInv, [Next]_vars, NEW d \in Reqs
    PROVE  MoneyMemory(d)'
<1> USE DEF MoneyInv
<1>1. OwnInv /\ TypeOK /\ MoneyMemory(d)
  BY DEF SettleInv, OwnInv
<1>2. ASSUME req' = req
      PROVE  MoneyMemory(d)'
  BY <1>1, <1>2, MemoryOther
<1>3. ASSUME NEW c \in Reqs, Progress(c) \/ Abort(c)
      PROVE  MoneyMemory(d)'
  <2>1. CASE c = d
    BY <1>3, <2>1, MemoryGoesOn
  <2>2. CASE c # d
    <3>1. req'[d] = req[d]
      BY <1>1, <1>3, <2>2
      DEF Progress, Abort, ReconcileSibling, ApplyLock, ApplyRepoint, ApplyCapacity,
          ApplyCommit, CreateOrderCommit, OfflineCommit, OfflineFulfil, RecoverPay,
          CancelCommit, PatchCommit, RevokeCommit, RefundCommit, DeadlockVictim, Finish, Step,
          TypeOK
    <3> QED
      BY <1>1, <3>1, MemoryOther
  <2> QED
    BY <2>1, <2>2
<1>4. ASSUME \/ \E p \in Pays : ProviderCapture(p) \/ FailPayment(p)
             \/ \E r \in Regs : OfflineAgain(r) \/ AdminCancel(r)
             \/ UNCHANGED vars
      PROVE  req' = req
  BY <1>4 DEF ProviderCapture, FailPayment, OfflineAgain, AdminCancel, vars
<1>5. CASE Arrival
  BY <1>2, <1>4, <1>5, MemoryArrives DEF Arrival
<1> QED
  BY <1>2, <1>3, <1>4, <1>5 DEF Next

LEMMA MoneyInit == Init => MoneyInv
BY SettleInit DEF Init, MoneyInv, MoneyMemory, Idle, Applying

\* What a session remembers of a payment is backed by the row, in every
\* reachable state: the strengthening the refinement rests on.
THEOREM MoneyInvariant ==
    ASSUME NeverReopened
    PROVE  Spec => []MoneyInv
<1>1. Init => MoneyInv
  BY MoneyInit
<1>2. MoneyInv /\ [Next]_vars => MoneyInv'
  BY MemoryStep, SettleStep DEF MoneyInv
<1> QED
  BY <1>1, <1>2, PTL DEF Spec

-----------------------------------------------------------------------------
\* Each step of a session is one step of the ledger, or none.
LEMMA LedgerQuiet ==
    ASSUME regStatus' = regStatus, payStatus' = payStatus
    PROVE  UNCHANGED Ledger!ledger
BY DEF Ledger!ledger

LEMMA LedgerApply ==
    ASSUME MoneyInv, NEW c \in Reqs, ApplyCommit(c)
    PROVE  [Ledger!Next]_Ledger!ledger
<1> DEFINE p == req[c].p
           r == req[c].r
<1>1. p \in Pays /\ r \in Regs /\ RegOf[p] = r /\ req[c].pc = "commit"
  BY RequestPayment DEF ApplyCommit, SettleInv, MoneyInv
<1>2. TypeOK /\ RequestOK(c) /\ MoneyMemory(c)
  BY DEF MoneyInv, SettleInv, OwnInv
<1>3. /\ payStatus' = IF req[c].newly THEN [payStatus EXCEPT ![p] = "PAID"] ELSE payStatus
      /\ regStatus' = [regStatus EXCEPT ![r] = ConfirmedStatus(req[c].seenReg, r)]
  BY DEF ApplyCommit
<1>4. req[c].newly \in BOOLEAN
  BY <1>2, RequestFields DEF TypeOK
<1>5. CASE req[c].newly
  <2>1. payStatus[p] \in Payable
    BY <1>2, <1>5 DEF RequestOK, NewlyPayable
  <2>2. CASE req[c].seenReg # "CANCELLED"
    BY <1>1, <1>3, <1>5, <2>1, <2>2
    DEF ConfirmedStatus, Payable, Ledger!Next, Ledger!Settle
  <2>3. CASE req[c].seenReg = "CANCELLED"
    <3>1. regStatus[r] \in {"CONFIRMED", "CANCELLED"} /\ regStatus' = regStatus
      BY <1>1, <1>2, <1>3, <2>3
      DEF RequestOK, SettledMemory, TypeOK, RegStatus, ConfirmedStatus
    <3>2. regStatus[r] = "CONFIRMED" => regStatus' = [regStatus EXCEPT ![r] = "CONFIRMED"]
      BY <1>1, <1>2, <3>1 DEF TypeOK
    <3>3. Ledger!Settle(p)
      BY <1>1, <1>3, <1>5, <2>1, <3>1, <3>2 DEF Payable, Ledger!Settle
    <3> QED
      BY <1>1, <3>3 DEF Ledger!Next
  <2> QED
    BY <2>2, <2>3
<1>6. CASE ~ req[c].newly
  <2>1. payStatus[p] \in Settled /\ payStatus' = payStatus
    BY <1>1, <1>2, <1>3, <1>6 DEF MoneyMemory, Applying
  <2>2. CASE req[c].seenReg # "CANCELLED"
    <3>1. Ledger!Reconfirm(p)
      BY <1>1, <1>3, <2>1, <2>2 DEF ConfirmedStatus, Settled, Ledger!Reconfirm
    <3> QED
      BY <1>1, <3>1 DEF Ledger!Next
  <2>3. CASE req[c].seenReg = "CANCELLED"
    <3>1. regStatus' = regStatus
      BY <1>1, <1>2, <1>3, <2>3 DEF TypeOK, ConfirmedStatus
    <3> QED
      BY <2>1, <3>1, LedgerQuiet
  <2> QED
    BY <2>2, <2>3
<1> QED
  BY <1>4, <1>5, <1>6

LEMMA LedgerInsert ==
    ASSUME MoneyInv, NEW c \in Reqs, CreateOrderCommit(c) \/ OfflineCommit(c)
    PROVE  [Ledger!Next]_Ledger!ledger
<1> DEFINE p == req[c].p
           r == req[c].r
<1>1. req[c].pc \in {"order", "offline"}
  BY DEF CreateOrderCommit, OfflineCommit
<1>2. p \in Pays /\ RegOf[p] = r /\ payStatus[p] = "ABSENT"
  BY <1>1, RequestPayment DEF SettleInv, MoneyInv, RequestOK, Reserved
<1>3. CASE CreateOrderCommit(c)
  <2>1. Ledger!Order(p)
    BY <1>2, <1>3 DEF CreateOrderCommit, Ledger!Order
  <2> QED
    BY <1>2, <2>1 DEF Ledger!Next
<1>4. CASE OfflineCommit(c)
  <2>1. \/ UNCHANGED <<payStatus, regStatus>>
        \/ /\ payStatus' = [payStatus EXCEPT ![p] = "PAID"]
           /\ regStatus' = [regStatus EXCEPT ![r] = "CONFIRMED"]
    BY <1>4 DEF OfflineCommit
  <2>2. payStatus' = [payStatus EXCEPT ![p] = "PAID"]
          /\ regStatus' = [regStatus EXCEPT ![r] = "CONFIRMED"] => Ledger!Settle(p)
    BY <1>2 DEF Ledger!Settle
  <2> QED
    BY <1>2, <2>1, <2>2, LedgerQuiet DEF Ledger!Next
<1> QED
  BY <1>3, <1>4

LEMMA LedgerCancel ==
    ASSUME MoneyInv, NEW c \in Reqs, CancelCommit(c)
    PROVE  [Ledger!Next]_Ledger!ledger
<1> DEFINE p == req[c].p
           r == req[c].r
<1>1. TypeOK /\ OwnPayment(c) /\ RequestOK(c) /\ req[c].pc = "cancel" /\ req[c] \in Request
  BY DEF MoneyInv, SettleInv, OwnInv, CancelCommit, TypeOK
<1>2. r \in Regs /\ regStatus[r] = "PENDING"
  BY <1>1, RequestFields DEF RequestOK, CancelIsSafe
<1>3. /\ regStatus' = [regStatus EXCEPT ![r] = "CANCELLED"]
      /\ payStatus' = IF req[c].seenPay = "CREATED" THEN [payStatus EXCEPT ![p] = "FAILED"]
                                                    ELSE payStatus
  BY DEF CancelCommit
<1>4. \/ payStatus' = payStatus
      \/ /\ p \in Pays /\ RegOf[p] = r /\ payStatus[p] = "CREATED"
         /\ payStatus' = [payStatus EXCEPT ![p] = "FAILED"]
  <2>1. CASE req[c].seenPay # "CREATED"
    BY <1>3, <2>1
  <2>2. CASE req[c].seenPay = "CREATED"
    <3>1. p \in Pays /\ RegOf[p] = r /\ payStatus[p] \in Payable
      BY <1>1, <2>2 DEF OwnPayment, RequestOK, CancelIsSafe
    <3>2. payStatus[p] = "FAILED" => [payStatus EXCEPT ![p] = "FAILED"] = payStatus
      BY <1>1, <3>1 DEF TypeOK
    <3> QED
      BY <1>3, <2>2, <3>1, <3>2 DEF Payable
  <2> QED
    BY <2>1, <2>2
<1>5. Ledger!Cancel(r)
  BY <1>2, <1>3, <1>4 DEF Ledger!Cancel
<1> QED
  BY <1>2, <1>5 DEF Ledger!Next

\* A refund reaches the registration its payment was made for, and no other.
LEMMA LedgerRefund ==
    ASSUME MoneyInv, NEW c \in Reqs, RefundCommit(c)
    PROVE  [Ledger!Next]_Ledger!ledger
<1> DEFINE p == req[c].p
           r == RegOf[p]
<1>1. TypeOK /\ PointersAreOwn /\ p \in Pays
  BY RequestPayment DEF MoneyInv, SettleInv, OwnInv, RefundCommit
<1>2. CASE payStatus[p] = "PAID"
  <2>1. /\ payStatus' = [payStatus EXCEPT ![p] = "REFUNDED"]
        /\ regStatus' = [s \in Regs |-> IF s \in PointingTo(p) THEN "CANCELLED"
                                                               ELSE regStatus[s]]
    BY <1>2 DEF RefundCommit
  <2>2. PointingTo(p) \subseteq {r} /\ PointingTo(p) \subseteq Regs
    BY <1>1, CoreAssumption DEF PointingTo, PointersAreOwn, CoreAssumption
  <2>3. \/ regStatus' = regStatus
        \/ regStatus' = [regStatus EXCEPT ![r] = "CANCELLED"]
    <3> DEFINE New(S) == [s \in Regs |-> IF s \in S THEN "CANCELLED" ELSE regStatus[s]]
    <3>1. regStatus = [s \in Regs |-> regStatus[s]]
      BY <1>1 DEF TypeOK
    <3>2. New({}) = regStatus
      BY <3>1
    <3>3. New({r}) = [regStatus EXCEPT ![r] = "CANCELLED"]
      BY <3>1
    <3>4. PointingTo(p) = {} \/ PointingTo(p) = {r}
      BY <2>2
    <3>5. regStatus' = New(PointingTo(p))
      BY <2>1
    <3> QED
      BY <3>2, <3>3, <3>4, <3>5
  <2>4. Ledger!Refund(p)
    BY <1>2, <2>1, <2>3 DEF Ledger!Refund
  <2> QED
    BY <1>1, <2>4 DEF Ledger!Next
<1>3. CASE payStatus[p] # "PAID"
  BY <1>3, LedgerQuiet DEF RefundCommit
<1> QED
  BY <1>2, <1>3

\* The administrator's PATCH withdraws the registration; nobody revokes.
LEMMA LedgerPatch ==
    ASSUME MoneyInv, NEW c \in Reqs, PatchCommit(c) \/ RevokeCommit(c)
    PROVE  [Ledger!Next]_Ledger!ledger
<1>1. req[c].pc = "patch" /\ req[c].seenReg # "CANCELLED" /\ req[c].r \in Regs
  BY RequestFields
  DEF PatchCommit, RevokeCommit, MoneyInv, SettleInv, RequestOK, PutsNothingBack, OwnInv, TypeOK
<1>2. Ledger!Withdraw(req[c].r)
  BY <1>1 DEF PatchCommit, RevokeCommit, payVars, Ledger!Withdraw
<1> QED
  BY <1>1, <1>2 DEF Ledger!Next

LEMMA LedgerInit == Init => Ledger!Init
BY DEF Init, Ledger!Init

LEMMA LedgerStep ==
    ASSUME MoneyInv, NeverReopened, [Next]_vars
    PROVE  [Ledger!Next]_Ledger!ledger
<1>1. ASSUME NEW c \in Reqs, Progress(c) \/ Abort(c)
      PROVE  [Ledger!Next]_Ledger!ledger
  <2>1. CASE \/ ReconcileSibling(c) \/ ApplyLock(c) \/ ApplyRepoint(c) \/ ApplyCapacity(c)
             \/ OfflineFulfil(c) \/ RecoverPay(c) \/ DeadlockVictim(c) \/ Abort(c)
    BY <2>1, LedgerQuiet
    DEF ReconcileSibling, ApplyLock, ApplyRepoint, ApplyCapacity, OfflineFulfil, RecoverPay,
        DeadlockVictim, Abort, regVars, payVars
  <2> QED
    BY <1>1, <2>1, LedgerApply, LedgerInsert, LedgerCancel, LedgerRefund, LedgerPatch
    DEF Progress
<1>2. ASSUME NEW p \in Pays, FailPayment(p)
      PROVE  [Ledger!Next]_Ledger!ledger
  <2>1. Ledger!Fail(p)
    BY <1>2 DEF FailPayment, regVars, Ledger!Fail
  <2> QED
    BY <2>1 DEF Ledger!Next
<1>3. ASSUME NEW r \in Regs, AdminCancel(r)
      PROVE  [Ledger!Next]_Ledger!ledger
  <2>1. Ledger!Withdraw(r)
    BY <1>3 DEF AdminCancel, payVars, Ledger!Withdraw
  <2> QED
    BY <2>1 DEF Ledger!Next
<1>4. CASE /\ Arrival
           /\ \A p \in Pays : ~ FailPayment(p)
           /\ \A r \in Regs : ~ AdminCancel(r)
  <2>1. ASSUME NEW c \in Reqs, NEW p \in Pays,
               \/ Webhook(c, p) \/ Verify(c, p) \/ Sync(c, p) \/ Reconcile(c, p)
               \/ RecoverBegin(c, p) \/ RefundBegin(c, p)
        PROVE  regStatus' = regStatus /\ payStatus' = payStatus
    BY <2>1
    DEF Webhook, Verify, Sync, Reconcile, RecoverBegin, RefundBegin, regVars, payVars
  <2>2. ASSUME NEW c \in Reqs, NEW r \in Regs,
               \/ \E byId \in BOOLEAN :
                    \/ CreateOrderSync(c, r, byId)
                    \/ \E p \in Pays : CreateOrderNew(c, r, byId, p)
               \/ CancelBegin(c, r) \/ PatchBegin(c, r) \/ RevokeBegin(c, r)
               \/ \E p \in Pays : OfflineBegin(c, r, p)
        PROVE  regStatus' = regStatus /\ payStatus' = payStatus
    BY <2>2
    DEF CreateOrderSync, CreateOrderNew, CancelBegin, PatchBegin, RevokeBegin, OfflineBegin,
        regVars, payVars
  <2>3. ASSUME NEW r \in Regs, OfflineAgain(r)
        PROVE  regStatus' = regStatus /\ payStatus' = payStatus
    BY <2>3 DEF OfflineAgain
  <2>4. regStatus' = regStatus /\ payStatus' = payStatus
    BY <1>4, <2>1, <2>2, <2>3 DEF Arrival
  <2> QED
    BY <2>4, LedgerQuiet
<1>5. CASE (\E p \in Pays : ProviderCapture(p)) \/ UNCHANGED vars
  BY <1>5, LedgerQuiet DEF ProviderCapture, vars, regVars, payVars
<1> QED
  BY <1>1, <1>2, <1>3, <1>4, <1>5 DEF Next

\* The sessions, row locks and memories of PaymentCore implement the ledger of
\* atomic operations: whatever requests interleave, die or repeat, a payment
\* becomes PAID in the transaction that confirms its registration or for a
\* cancelled one, and money moves in no other way.
THEOREM CoreImplementsLedger ==
    ASSUME NeverReopened
    PROVE  Spec => ImplementsLedger
<1>1. Init => Ledger!Init
  BY LedgerInit
<1>2. MoneyInv /\ [Next]_vars => [Ledger!Next]_Ledger!ledger
  BY LedgerStep
<1>3. Spec => []MoneyInv
  BY MoneyInvariant
<1> QED
  BY <1>1, <1>2, <1>3, PTL DEF Spec, ImplementsLedger, Ledger!Spec
=============================================================================
