------------------------ MODULE PaymentLimits_proofs ------------------------
(***************************************************************************)
(* What PaymentCore keeps besides the ledger: the event's capacity, the    *)
(* money behind a confirmation, one open attempt per registration, and the *)
(* QR code of who is confirmed.  For every number of registrations,        *)
(* payments and requests; each theorem names the operations it does        *)
(* without.                                                                *)
(***************************************************************************)
EXTENDS PaymentLedger_proofs, FiniteSetTheorems

-----------------------------------------------------------------------------
(* Which steps write registrations and payments.                           *)

\* A request that writes neither registrations nor payments.
Handles(c) ==
    \/ ReconcileSibling(c) \/ ApplyLock(c) \/ ApplyRepoint(c) \/ ApplyCapacity(c)
    \/ OfflineFulfil(c) \/ RecoverPay(c) \/ DeadlockVictim(c) \/ Abort(c)

\* An administrator's PATCH or revocation writes the status.
Revises(c) == PatchCommit(c) \/ RevokeCommit(c)

\* A request that begins.
Begins(c) ==
    \/ \E p \in Pays : \/ Webhook(c, p) \/ Verify(c, p) \/ Sync(c, p) \/ Reconcile(c, p)
                      \/ RecoverBegin(c, p) \/ RefundBegin(c, p)
    \/ \E r \in Regs : \/ \E byId \in BOOLEAN : \/ CreateOrderSync(c, r, byId)
                                              \/ \E p \in Pays : CreateOrderNew(c, r, byId, p)
                       \/ CancelBegin(c, r) \/ PatchBegin(c, r) \/ RevokeBegin(c, r)
                       \/ \E p \in Pays : OfflineBegin(c, r, p)

LEMMA StepCases ==
    ASSUME [Next]_vars
    PROVE  \/ \E c \in Reqs : Handles(c) \/ Begins(c)
           \/ \E c \in Reqs : \/ ApplyCommit(c) \/ CreateOrderCommit(c) \/ OfflineCommit(c)
                              \/ CancelCommit(c) \/ RefundCommit(c) \/ Revises(c)
           \/ \E p \in Pays : ProviderCapture(p) \/ FailPayment(p)
           \/ \E r \in Regs : OfflineAgain(r) \/ AdminCancel(r)
           \/ UNCHANGED vars
BY DEF Next, Arrival, Progress, Handles, Begins, Revises

LEMMA HandlesFrame ==
    ASSUME OwnInv, NEW c \in Reqs, Handles(c)
    PROVE  /\ UNCHANGED <<regStatus, regPtr, payStatus>>
           /\ \A d \in Reqs \ {c} : req'[d] = req[d]
           /\ \/ eventLock' = eventLock
              \/ eventLock = c /\ eventLock' = NoReq
              \/ eventLock = NoReq /\ eventLock' = c
<1>1. ASSUME Finish(c)
      PROVE  /\ \A d \in Reqs \ {c} : req'[d] = req[d]
             /\ eventLock' = eventLock \/ (eventLock = c /\ eventLock' = NoReq)
  BY <1>1 DEF Finish, ReleaseLocks, OwnInv, TypeOK
<1>2. ASSUME NEW pc, Step(c, pc)
      PROVE  \A d \in Reqs \ {c} : req'[d] = req[d]
  BY <1>2, StepFrame
<1>3. CASE ReconcileSibling(c)
  BY <1>1, <1>2, <1>3 DEF ReconcileSibling, regVars, payVars, locks
<1>4. CASE ApplyLock(c)
  <2>1. UNCHANGED <<regStatus, regPtr, payStatus>>
    BY <1>4 DEF ApplyLock, regVars, payVars
  <2>2. \/ Finish(c)
        \/ eventLock' = eventLock /\ \E q : req' = [req EXCEPT ![c] = q]
    BY <1>4, Zenon DEF ApplyLock
  <2> QED BY <1>1, <2>1, <2>2 DEF OwnInv, TypeOK
<1>5. CASE ApplyRepoint(c)
  BY <1>2, <1>5 DEF ApplyRepoint, regVars, payVars
<1>6. CASE ApplyCapacity(c)
  BY <1>1, <1>2, <1>6 DEF ApplyCapacity, regVars, payVars
<1>7. CASE OfflineFulfil(c)
  BY <1>1, <1>7 DEF OfflineFulfil
<1>8. CASE RecoverPay(c)
  <2>1. UNCHANGED <<regStatus, regPtr, payStatus>>
    BY <1>8 DEF RecoverPay, regVars, payVars
  <2>2. \/ Finish(c)
        \/ eventLock' = eventLock /\ \E q : req' = [req EXCEPT ![c] = q]
    BY <1>8, Zenon DEF RecoverPay
  <2> QED BY <1>1, <2>1, <2>2 DEF OwnInv, TypeOK
<1>9. CASE DeadlockVictim(c) \/ Abort(c)
  BY <1>1, <1>9 DEF DeadlockVictim, Abort, regVars, payVars
<1> QED BY <1>3, <1>4, <1>5, <1>6, <1>7, <1>8, <1>9 DEF Handles

\* A request begins with the rows of its registration that it reads.
LEMMA BeginsFrame ==
    ASSUME OwnInv, NEW c \in Reqs, Begins(c)
    PROVE  /\ UNCHANGED <<regStatus, regPtr, payStatus, payLock, eventLock>>
           /\ \A d \in Reqs \ {c} : req'[d] = req[d]
           /\ req'[c].r \in Regs /\ ~ req'[c].newly /\ req'[c].pc \notin Applying \cup {"fulfil"}
           /\ req'[c].seenReg \in {"UNREAD", regStatus[req'[c].r]}
           /\ req'[c].pc = "refund" => "Refund" \in Ops
           /\ req'[c].pc = "order" => NeedsOrder(req'[c].r)
           /\ req'[c].pc = "revoke" => "Revoke" \in Ops /\ req'[c].seenReg = "CONFIRMED"
           /\ req'[c].pc = "patch" =>
                (IF req'[c].seenReg = "CANCELLED" THEN "Reopen" ELSE "PatchCancel") \in Ops
           /\ req'[c].pc = "cancel" =>
                LET p == regPtr[req'[c].r]
                IN /\ req'[c].p = p
                   /\ p # NoPay => req'[c].seenPay = payStatus[p] /\ payStatus[p] # "PAID"
                   /\ regStatus[req'[c].r] = "PENDING"
<1> DEFINE Goal ==
           /\ UNCHANGED <<regStatus, regPtr, payStatus, payLock, eventLock>>
           /\ \A d \in Reqs \ {c} : req'[d] = req[d]
           /\ req'[c].r \in Regs /\ ~ req'[c].newly /\ req'[c].pc \notin Applying \cup {"fulfil"}
           /\ req'[c].seenReg \in {"UNREAD", regStatus[req'[c].r]}
           /\ req'[c].pc = "refund" => "Refund" \in Ops
           /\ req'[c].pc = "order" => NeedsOrder(req'[c].r)
           /\ req'[c].pc = "revoke" => "Revoke" \in Ops /\ req'[c].seenReg = "CONFIRMED"
           /\ req'[c].pc = "patch" =>
                (IF req'[c].seenReg = "CANCELLED" THEN "Reopen" ELSE "PatchCancel") \in Ops
           /\ req'[c].pc = "cancel" =>
                LET p == regPtr[req'[c].r]
                IN /\ req'[c].p = p
                   /\ p # NoPay => req'[c].seenPay = payStatus[p] /\ payStatus[p] # "PAID"
                   /\ regStatus[req'[c].r] = "PENDING"
<1>1. ASSUME NEW pc, NEW r, NEW p, NEW sp, NEW sr, NEW sptr, Start(c, pc, r, p, sp, sr, sptr)
      PROVE  /\ \A d \in Reqs \ {c} : req'[d] = req[d]
             /\ req'[c].pc = pc /\ req'[c].r = r /\ req'[c].p = p /\ req'[c].seenPay = sp
             /\ req'[c].seenReg = sr /\ ~ req'[c].newly
  BY <1>1 DEF Start, OwnInv, TypeOK
<1>2. ASSUME NEW p \in Pays, Webhook(c, p) \/ Verify(c, p) \/ Sync(c, p)
      PROVE  Goal
  <2>1. Start(c, "lockPay", RegOf[p], p, payStatus[p], "UNREAD", NoPay)
    BY <1>2 DEF Webhook, Verify, Sync
  <2> QED BY <1>1, <1>2, <2>1, CoreAssumption
          DEF Webhook, Verify, Sync, regVars, payVars, locks, Applying
<1>3. ASSUME NEW p \in Pays, Reconcile(c, p)
      PROVE  Goal
  BY <1>1, <1>3, CoreAssumption DEF Reconcile, regVars, payVars, locks, Applying
<1>4. ASSUME NEW p \in Pays, RecoverBegin(c, p)
      PROVE  Goal
  <2>1. PICK sp : Start(c, "recoverPay", RegOf[p], p, sp, regStatus[RegOf[p]], regPtr[RegOf[p]])
    BY <1>4 DEF RecoverBegin
  <2> QED BY <1>1, <1>4, <2>1, CoreAssumption DEF RecoverBegin, regVars, payVars, Applying
<1>5. ASSUME NEW p \in Pays, RefundBegin(c, p)
      PROVE  Goal
  BY <1>1, <1>5, CoreAssumption DEF RefundBegin, regVars, payVars, locks, Applying
<1>6. ASSUME NEW r \in Regs, NEW byId \in BOOLEAN, CreateOrderSync(c, r, byId)
      PROVE  Goal
  BY <1>1, <1>6 DEF CreateOrderSync, regVars, payVars, Applying
<1>7. ASSUME NEW r \in Regs, NEW byId \in BOOLEAN, NEW p \in Pays, CreateOrderNew(c, r, byId, p)
      PROVE  Goal
  BY <1>1, <1>7 DEF CreateOrderNew, regVars, payVars, Applying
<1>8. ASSUME NEW r \in Regs, NEW p \in Pays, OfflineBegin(c, r, p)
      PROVE  Goal
  BY <1>1, <1>8 DEF OfflineBegin, regVars, payVars, Applying
<1>9. ASSUME NEW r \in Regs, CancelBegin(c, r)
      PROVE  Goal
  <2> DEFINE p == regPtr[r]
             sp == IF p = NoPay THEN "UNREAD" ELSE payStatus[p]
  <2>1. Start(c, "cancel", r, p, sp, regStatus[r], p)
    BY <1>9 DEF CancelBegin
  <2>2. p # NoPay => sp = payStatus[p] /\ payStatus[p] # "PAID"
    BY <1>9 DEF CancelBegin
  <2>3. /\ UNCHANGED <<regStatus, regPtr, payStatus, payLock, eventLock>>
        /\ regStatus[r] = "PENDING"
    BY <1>9 DEF CancelBegin, regVars, payVars
  <2> HIDE DEF p, sp
  <2>4. /\ \A d \in Reqs \ {c} : req'[d] = req[d]
        /\ req'[c].pc = "cancel" /\ req'[c].r = r /\ req'[c].p = p /\ req'[c].seenPay = sp
        /\ req'[c].seenReg = regStatus[r] /\ ~ req'[c].newly
    BY <1>1, <2>1
  <2> QED BY <2>2, <2>3, <2>4 DEF Applying, p
<1>10. ASSUME NEW r \in Regs, PatchBegin(c, r)
      PROVE  Goal
  BY <1>1, <1>10 DEF PatchBegin, regVars, payVars, locks, Applying
<1>11. ASSUME NEW r \in Regs, RevokeBegin(c, r)
      PROVE  Goal
  BY <1>1, <1>11 DEF RevokeBegin, regVars, payVars, locks, Applying
<1> HIDE DEF Goal
<1>12. Goal
  BY <1>2, <1>3, <1>4, <1>5, <1>6, <1>7, <1>8, <1>9, <1>10, <1>11 DEF Begins
<1> QED BY <1>12 DEF Goal

\* A revision writes one registration, whose row nobody holds, and ends.
LEMMA RevisesFrame ==
    ASSUME OwnInv, NEW c \in Reqs, Revises(c)
    PROVE  /\ UNCHANGED <<regPtr, payStatus>> /\ Finish(c)
           /\ req[c].pc \in {"patch", "revoke"}
           /\ req[c].r \in Regs /\ regLock[req[c].r] = NoReq
           /\ \E s \in {"PENDING", "CANCELLED"} :
                /\ regStatus' = [regStatus EXCEPT ![req[c].r] = s]
                /\ s = "PENDING" => \/ req[c].pc = "revoke"
                                    \/ req[c].seenReg = "CANCELLED"
BY RequestFields DEF Revises, PatchCommit, RevokeCommit, OwnInv, TypeOK, payVars

-----------------------------------------------------------------------------
(* The capacity, where no confirmation is ever taken back.                 *)

Lasting == Ops \cap {"AdminCancel", "PatchCancel", "Reopen", "Revoke", "Refund"} = {}

\* A registration remembered as CONFIRMED still has its seat, and who is about
\* to take a seat holds the event and has found one.
SeatMemory(c) ==
    /\ req[c].pc \notin {"patch", "revoke", "refund"}
    /\ req[c].seenReg = "CONFIRMED" => regStatus[req[c].r] = "CONFIRMED"
    /\ req[c].pc = "commit" /\ req[c].seenReg \notin {"CONFIRMED", "CANCELLED"}
         => eventLock = c /\ HasRoom

SeatsInv == SettleInv /\ CapacityRespected /\ \A c \in Reqs : SeatMemory(c)

LEMMA ConfirmedFinite == IsFiniteSet(Confirmed) /\ Cardinality(Confirmed) \in Nat
<1>1. Confirmed \subseteq Regs
  BY DEF Confirmed
<1> QED BY <1>1, CoreAssumption, FS_Subset, FS_CardinalityType

\* One more seat at most.
LEMMA OneSeat ==
    ASSUME OwnInv, NEW r \in Regs, regStatus' = [regStatus EXCEPT ![r] = "CONFIRMED"]
    PROVE  /\ \A x \in Regs : regStatus[x] = "CONFIRMED" => regStatus'[x] = "CONFIRMED"
           /\ regStatus[r] = "CONFIRMED" => Confirmed' = Confirmed
           /\ HasRoom => CapacityRespected'
<1>1. Confirmed' = Confirmed \cup {r}
  BY DEF Confirmed, OwnInv, TypeOK
<1>2. regStatus[r] = "CONFIRMED" => Confirmed' = Confirmed
  BY <1>1 DEF Confirmed
<1>3. HasRoom => CapacityRespected'
  <2>1. /\ Cardinality(Confirmed \cup {r}) <= Cardinality(Confirmed) + 1
        /\ Cardinality(Confirmed \cup {r}) \in Nat
    <3>1. Cardinality(Confirmed \cup {r})
            = IF r \in Confirmed THEN Cardinality(Confirmed) ELSE Cardinality(Confirmed) + 1
      BY ConfirmedFinite, FS_AddElement, Zenon
    <3> QED BY <3>1, ConfirmedFinite
  <2>2. CapacityRespected' <=> Cardinality(Confirmed \cup {r}) <= Capacity
    BY <1>1 DEF CapacityRespected
  <2> QED BY <2>1, <2>2, ConfirmedFinite, CoreAssumption DEF HasRoom
<1>4. \A x \in Regs : regStatus[x] = "CONFIRMED" => regStatus'[x] = "CONFIRMED"
  BY DEF OwnInv, TypeOK
<1> QED BY <1>2, <1>3, <1>4

\* A request that does not act keeps its seat: it holds the event, or needs not.
LEMMA SeatOther ==
    ASSUME OwnInv, NEW d \in Reqs, SeatMemory(d), req'[d] = req[d],
           \A x \in Regs : regStatus[x] = "CONFIRMED" => regStatus'[x] = "CONFIRMED",
           eventLock = d => eventLock' = d /\ Confirmed' = Confirmed
    PROVE  SeatMemory(d)'
<1>1. req[d].r \in Regs
  BY RequestFields DEF OwnInv, TypeOK
<1> QED BY <1>1 DEF SeatMemory, HasRoom

LEMMA SeatFinish ==
    ASSUME OwnInv, NEW c \in Reqs, Finish(c)
    PROVE  /\ SeatMemory(c)'
           /\ \A d \in Reqs \ {c} : req'[d] = req[d] /\ (eventLock = d => eventLock' = d)
BY DEF Finish, ReleaseLocks, SeatMemory, Idle, OwnInv, TypeOK

\* Steps that confirm nobody and cancel nobody.
LEMMA SeatQuiet ==
    ASSUME SeatsInv, regStatus' = regStatus, NEW c \in Reqs, SeatMemory(c)',
           \A d \in Reqs \ {c} : req'[d] = req[d] /\ (eventLock = d => eventLock' = d)
    PROVE  CapacityRespected' /\ \A d \in Reqs : SeatMemory(d)'
<1>1. Confirmed' = Confirmed /\ CapacityRespected'
  BY DEF Confirmed, SeatsInv, CapacityRespected
<1>2. \A d \in Reqs \ {c} : SeatMemory(d)'
  BY <1>1, SeatOther DEF SeatsInv, SettleInv
<1> QED BY <1>1, <1>2

LEMMA SeatHandles ==
    ASSUME SeatsInv, NEW c \in Reqs, Handles(c)
    PROVE  SeatMemory(c)'
<1>0. OwnInv /\ SeatMemory(c) /\ req[c] \in Request /\ RequestOK(c)
  BY DEF SeatsInv, SettleInv, OwnInv, TypeOK
<1>1. CASE Finish(c)
  BY <1>0, <1>1, SeatFinish
<1>2. regStatus' = regStatus
  BY <1>0, HandlesFrame
<1>3. ASSUME NEW pc, Step(c, pc), pc \notin {"patch", "revoke", "refund"},
             \/ pc # "commit"
             \/ req[c].seenReg = "CONFIRMED"
             \/ eventLock' = c /\ HasRoom
      PROVE  SeatMemory(c)'
  BY <1>0, <1>2, <1>3, StepFrame DEF SeatMemory, HasRoom, Confirmed
<1>4. CASE ReconcileSibling(c)
  BY <1>1, <1>3, <1>4 DEF ReconcileSibling
<1>5. CASE ApplyRepoint(c)
  BY <1>3, <1>5 DEF ApplyRepoint, ConfirmPc
<1>6. CASE ApplyCapacity(c)
  BY <1>1, <1>3, <1>6 DEF ApplyCapacity
<1>7. CASE ApplyLock(c)
  <2> DEFINE sr == IF req[c].seenReg = "UNREAD" THEN regStatus[req[c].r] ELSE req[c].seenReg
             sptr == IF req[c].seenReg = "UNREAD" THEN regPtr[req[c].r] ELSE req[c].seenPtr
             Moved(newly) == [req[c] EXCEPT !.pc = AfterLockPc(req[c].p, sr, sptr),
                                !.seenReg = sr, !.seenPtr = sptr, !.newly = newly]
  <2>1. CASE \E newly : req' = [req EXCEPT ![c] = Moved(newly)]
    <3>1. PICK newly : req'[c] = Moved(newly)
      BY <1>0, <2>1 DEF OwnInv, TypeOK
    <3>2. /\ req'[c].pc = AfterLockPc(req[c].p, sr, sptr) /\ req'[c].seenReg = sr
          /\ req'[c].r = req[c].r
      <4> HIDE DEF sr, sptr
      <4> QED BY <1>0, <3>1 DEF Request
    <3>3. AfterLockPc(req[c].p, sr, sptr) \in {"repoint", "capacity", "commit"}
      BY DEF AfterLockPc, ConfirmPc
    <3>4. AfterLockPc(req[c].p, sr, sptr) = "commit" => sr \in {"CONFIRMED", "CANCELLED"}
      BY DEF AfterLockPc, ConfirmPc
    <3>5. sr = "CONFIRMED" => regStatus[req[c].r] = "CONFIRMED"
      BY <1>0 DEF SeatMemory
    <3> HIDE DEF sr, sptr
    <3> QED BY <1>2, <3>2, <3>3, <3>4, <3>5 DEF SeatMemory
  <2>2. \/ Finish(c)
        \/ \E newly : req' = [req EXCEPT ![c] = Moved(newly)]
    BY <1>7, Zenon DEF ApplyLock
  <2> QED BY <1>1, <2>1, <2>2
<1>8. CASE RecoverPay(c)
  <2> DEFINE Moved(seen) == [req[c] EXCEPT !.pc = "lockPay", !.seenPay = seen]
  <2>1. CASE \E seen : req' = [req EXCEPT ![c] = Moved(seen)]
    <3>1. PICK seen : req'[c] = Moved(seen)
      BY <1>0, <2>1 DEF OwnInv, TypeOK
    <3>2. /\ req'[c].pc = "lockPay" /\ req'[c].seenReg = req[c].seenReg
          /\ req'[c].r = req[c].r
      BY <1>0, <3>1 DEF Request
    <3> QED BY <1>0, <1>2, <3>2 DEF SeatMemory
  <2>2. Finish(c) \/ \E seen : req' = [req EXCEPT ![c] = Moved(seen)]
    BY <1>8, Zenon DEF RecoverPay
  <2> QED BY <1>1, <2>1, <2>2
<1>9. CASE OfflineFulfil(c) \/ DeadlockVictim(c) \/ Abort(c)
  BY <1>1, <1>9 DEF OfflineFulfil, DeadlockVictim, Abort
<1> QED BY <1>4, <1>5, <1>6, <1>7, <1>8, <1>9 DEF Handles

\* A confirmation takes a seat that was found free under the event's lock, or
\* writes what is written already.
LEMMA SeatCommit ==
    ASSUME SeatsInv, NEW c \in Reqs, ApplyCommit(c) \/ OfflineCommit(c)
    PROVE  CapacityRespected' /\ \A d \in Reqs : SeatMemory(d)'
<1> DEFINE r == req[c].r
<1>0. /\ OwnInv /\ SeatMemory(c) /\ req[c] \in Request /\ r \in Regs /\ RequestOK(c)
      /\ CapacityRespected /\ CoreAssumption
  BY RequestFields, CoreAssumption DEF SeatsInv, SettleInv, OwnInv, TypeOK
<1>1. SeatMemory(c)' /\ \A d \in Reqs \ {c} : req'[d] = req[d] /\ (eventLock = d => eventLock' = d)
  <2>1. CASE Finish(c)
    BY <1>0, <2>1, SeatFinish
  <2>2. CASE OfflineCommit(c) /\ Step(c, "fulfil") /\ regStatus' = [regStatus EXCEPT ![r] = "CONFIRMED"]
    <3>1. /\ \A d \in Reqs \ {c} : req'[d] = req[d]
          /\ req'[c].pc = "fulfil" /\ req'[c].r = r
      BY <1>0, <2>2, StepFrame
    <3>2. regStatus'[r] = "CONFIRMED"
      BY <1>0, <2>2 DEF OwnInv, TypeOK
    <3> QED BY <2>2, <3>1, <3>2, CoreAssumption DEF OfflineCommit, ReleaseLocks, SeatMemory
  <2>3. CASE OfflineCommit(c) /\ req' = [req EXCEPT ![c] = Idle]
    <3>1. Finish(c)
      BY <2>3 DEF OfflineCommit, Finish
    <3> QED BY <2>1, <3>1
  <2> QED BY <2>1, <2>2, <2>3 DEF ApplyCommit, OfflineCommit
<1>2. \/ regStatus' = regStatus
      \/ /\ regStatus' = [regStatus EXCEPT ![r] = "CONFIRMED"]
         /\ regStatus[r] = "CONFIRMED" \/ (HasRoom /\ eventLock \in {c, NoReq})
  <2>1. CASE ApplyCommit(c)
    <3>1. /\ req[c].pc = "commit"
          /\ regStatus' = [regStatus EXCEPT ![r] = ConfirmedStatus(req[c].seenReg, r)]
      BY <2>1 DEF ApplyCommit
    <3>2. CASE req[c].seenReg = "CANCELLED"
      <4>1. regStatus' = [regStatus EXCEPT ![r] = regStatus[r]]
        BY <3>1, <3>2 DEF ConfirmedStatus
      <4> QED BY <1>0, <4>1 DEF OwnInv, TypeOK
    <3>3. CASE req[c].seenReg # "CANCELLED"
      <4>1. regStatus' = [regStatus EXCEPT ![r] = "CONFIRMED"]
        BY <3>1, <3>3 DEF ConfirmedStatus
      <4>2. regStatus[r] = "CONFIRMED" \/ (HasRoom /\ eventLock = c)
        BY <1>0, <3>1, <3>3 DEF SeatMemory
      <4> QED BY <4>1, <4>2
    <3> QED BY <3>2, <3>3
  <2>2. CASE OfflineCommit(c)
    BY <1>0, <2>2 DEF OfflineCommit, SeatMemory
  <2> QED BY <2>1, <2>2
<1>3. CASE regStatus' = regStatus
  BY <1>1, <1>3, SeatQuiet
<1>4. CASE regStatus' = [regStatus EXCEPT ![r] = "CONFIRMED"]
  <2>1. /\ \A x \in Regs : regStatus[x] = "CONFIRMED" => regStatus'[x] = "CONFIRMED"
        /\ regStatus[r] = "CONFIRMED" => Confirmed' = Confirmed
        /\ HasRoom => CapacityRespected'
    BY <1>0, <1>4, OneSeat
  <2>2. CapacityRespected'
    BY <1>0, <1>2, <1>3, <2>1 DEF CapacityRespected
  <2>3. ASSUME NEW d \in Reqs \ {c}
        PROVE  SeatMemory(d)'
    <3>1. eventLock = d => Confirmed' = Confirmed
      BY <1>0, <1>2, <2>1, CoreAssumption DEF Confirmed
    <3>2. SeatMemory(d)
      BY DEF SeatsInv
    <3> QED BY <1>0, <1>1, <2>1, <3>1, <3>2, SeatOther
  <2> QED BY <1>1, <2>2, <2>3
<1> QED BY <1>2, <1>3, <1>4

\* Who cancels waits for payment: no seat is given back.
LEMMA SeatCancel ==
    ASSUME SeatsInv, NEW c \in Reqs, CancelCommit(c)
    PROVE  CapacityRespected' /\ \A d \in Reqs : SeatMemory(d)'
<1> DEFINE r == req[c].r
<1>0. /\ OwnInv /\ r \in Regs /\ regStatus[r] = "PENDING" /\ Finish(c)
      /\ regStatus' = [regStatus EXCEPT ![r] = "CANCELLED"]
  BY RequestFields
  DEF SeatsInv, SettleInv, OwnInv, TypeOK, RequestOK, CancelIsSafe, CancelCommit
<1>1. \A x \in Regs : regStatus'[x] = "CONFIRMED" <=> regStatus[x] = "CONFIRMED"
  BY <1>0 DEF OwnInv, TypeOK
<1>2. Confirmed' = Confirmed
  BY <1>1 DEF Confirmed
<1>3. CapacityRespected'
  BY <1>2 DEF SeatsInv, CapacityRespected
<1>4. SeatMemory(c)' /\ \A d \in Reqs \ {c} : req'[d] = req[d] /\ (eventLock = d => eventLock' = d)
  BY <1>0, SeatFinish
<1>5. ASSUME NEW d \in Reqs \ {c}
      PROVE  SeatMemory(d)'
  <2>1. SeatMemory(d)
    BY DEF SeatsInv
  <2> QED BY <1>0, <1>1, <1>2, <1>4, <2>1, SeatOther
<1> QED BY <1>3, <1>4, <1>5

LEMMA SeatsStep ==
    ASSUME SeatsInv, Lasting, [Next]_vars
    PROVE  SeatsInv'
<1> DEFINE Goal == CapacityRespected' /\ \A d \in Reqs : SeatMemory(d)'
<1>0. SettleInv' /\ OwnInv /\ TypeOK
  BY SettleStep DEF SeatsInv, SettleInv, OwnInv, Lasting, NeverReopened
<1>1. ASSUME NEW c \in Reqs, Handles(c) PROVE Goal
  <2>1. SeatMemory(c)'
    BY <1>1, SeatHandles
  <2>2. /\ regStatus' = regStatus
        /\ \A d \in Reqs \ {c} : req'[d] = req[d] /\ (eventLock = d => eventLock' = d)
    BY <1>0, <1>1, HandlesFrame, CoreAssumption
  <2> QED BY <2>1, <2>2, SeatQuiet
<1>2. ASSUME NEW c \in Reqs, Begins(c) PROVE Goal
  <2>1. /\ regStatus' = regStatus /\ eventLock' = eventLock
        /\ \A d \in Reqs \ {c} : req'[d] = req[d]
        /\ req'[c].pc \notin Applying /\ req'[c].r \in Regs
        /\ req'[c].seenReg \in {"UNREAD", regStatus[req'[c].r]}
        /\ req'[c].pc = "refund" => "Refund" \in Ops
        /\ req'[c].pc = "revoke" => "Revoke" \in Ops
        /\ req'[c].pc = "patch" => "Reopen" \in Ops \/ "PatchCancel" \in Ops
    BY <1>0, <1>2, BeginsFrame
  <2>2. SeatMemory(c)'
    BY <2>1 DEF SeatMemory, Applying, Lasting
  <2> QED BY <2>1, <2>2, SeatQuiet
<1>3. ASSUME NEW c \in Reqs, CreateOrderCommit(c) PROVE Goal
  <2>1. Finish(c) /\ regStatus' = regStatus
    BY <1>3 DEF CreateOrderCommit
  <2> QED BY <1>0, <2>1, SeatFinish, SeatQuiet
<1>4. ASSUME NEW c \in Reqs, RefundCommit(c) \/ Revises(c) PROVE FALSE
  BY <1>0, <1>4, RevisesFrame DEF RefundCommit, SeatsInv, SeatMemory
<1>5. ASSUME UNCHANGED <<regStatus, req, eventLock>> PROVE Goal
  BY <1>5 DEF SeatsInv, SeatMemory, CapacityRespected, HasRoom, Confirmed
<1>6. ASSUME \/ \E p \in Pays : ProviderCapture(p) \/ FailPayment(p)
             \/ \E r \in Regs : OfflineAgain(r) \/ AdminCancel(r)
             \/ UNCHANGED vars
      PROVE  Goal
  <2>1. UNCHANGED <<regStatus, req, eventLock>>
    BY <1>6
    DEF ProviderCapture, FailPayment, OfflineAgain, AdminCancel, Lasting, vars,
        regVars, locks
  <2> QED BY <1>5, <2>1
<1> HIDE DEF Goal
<1>7. ASSUME NEW c \in Reqs, ApplyCommit(c) \/ OfflineCommit(c) \/ CancelCommit(c) PROVE Goal
  BY <1>7, SeatCommit, SeatCancel DEF Goal
<1>8. Goal
  BY <1>1, <1>2, <1>3, <1>4, <1>6, <1>7, StepCases
<1> QED BY <1>0, <1>8 DEF SeatsInv, Goal

LEMMA SeatsInit == Init => SeatsInv
<1> SUFFICES ASSUME Init PROVE SeatsInv
  OBVIOUS
<1>1. Confirmed = {}
  BY DEF Init, Confirmed
<1>2. CapacityRespected
  BY <1>1, FS_EmptySet, CoreAssumption DEF CapacityRespected
<1>3. \A c \in Reqs : SeatMemory(c)
  BY DEF Init, SeatMemory, Idle
<1> QED BY <1>2, <1>3, SettleInit DEF SeatsInv

\* However confirmations race for the last seat, from webhooks, checkouts,
\* polls, recoveries and the desk, the event is never overbooked while
\* confirmations last.
THEOREM NeverOverbooked ==
    ASSUME Lasting
    PROVE  Spec => []CapacityRespected
<1>1. Init => SeatsInv
  BY SeatsInit
<1>2. SeatsInv /\ [Next]_vars => SeatsInv'
  BY SeatsStep
<1>3. SeatsInv => CapacityRespected
  BY DEF SeatsInv
<1> QED BY <1>1, <1>2, <1>3, PTL DEF Spec

-----------------------------------------------------------------------------
(* The money behind a confirmation, where nothing is refunded and no         *)
(* cancelled registration is reopened.                                     *)

MoneyStays == Ops \cap {"Refund", "Reopen"} = {}

\* A request that is handled ends, or goes on with its payment and remembers more.
LEMMA HandlesRemembers ==
    ASSUME OwnInv, NEW c \in Reqs, Handles(c)
    PROVE  \/ Finish(c)
           \/ /\ \A d \in Reqs \ {c} : req'[d] = req[d]
              /\ req'[c].r = req[c].r /\ req'[c].p = req[c].p
              /\ req[c].pc \in {"sibling", "lockPay", "recoverPay"} \cup Applying
              /\ req'[c].pc \in {"lockPay"} \cup Applying
              /\ req'[c].seenPay \in {req[c].seenPay, payStatus[req[c].p]}
              /\ req'[c].seenReg \in {req[c].seenReg, regStatus[req[c].r]}
              /\ req'[c].pc \in Applying /\ ~ req'[c].newly =>
                   \/ req[c].pc \in Applying /\ ~ req[c].newly
                   \/ req[c].seenPay = "PAID"
                   \/ payStatus[req[c].p] \notin Payable
<1> DEFINE Goes ==
              /\ \A d \in Reqs \ {c} : req'[d] = req[d]
              /\ req'[c].r = req[c].r /\ req'[c].p = req[c].p
              /\ req[c].pc \in {"sibling", "lockPay", "recoverPay"} \cup Applying
              /\ req'[c].pc \in {"lockPay"} \cup Applying
              /\ req'[c].seenPay \in {req[c].seenPay, payStatus[req[c].p]}
              /\ req'[c].seenReg \in {req[c].seenReg, regStatus[req[c].r]}
              /\ req'[c].pc \in Applying /\ ~ req'[c].newly =>
                   \/ req[c].pc \in Applying /\ ~ req[c].newly
                   \/ req[c].seenPay = "PAID"
                   \/ payStatus[req[c].p] \notin Payable
<1>0. req[c] \in Request /\ TypeOK
  BY DEF OwnInv, TypeOK
<1>1. ASSUME NEW pc \in {"lockPay"} \cup Applying, Step(c, pc),
             req[c].pc \in {"sibling"} \cup Applying,
             pc \in Applying => req[c].pc \in Applying
      PROVE  Goes
  BY <1>1, StepFrame
<1>2. CASE ReconcileSibling(c)
  BY <1>1, <1>2 DEF ReconcileSibling, Applying
<1>3. CASE ApplyRepoint(c)
  BY <1>1, <1>3 DEF ApplyRepoint, ConfirmPc, Applying
<1>4. CASE ApplyCapacity(c)
  BY <1>1, <1>4 DEF ApplyCapacity, Applying
<1>5. CASE ApplyLock(c)
  <2> DEFINE sr == IF req[c].seenReg = "UNREAD" THEN regStatus[req[c].r] ELSE req[c].seenReg
             sptr == IF req[c].seenReg = "UNREAD" THEN regPtr[req[c].r] ELSE req[c].seenPtr
             pc == AfterLockPc(req[c].p, sr, sptr)
             Moved(newly) == [req[c] EXCEPT !.pc = pc, !.seenReg = sr, !.seenPtr = sptr,
                                            !.newly = newly]
  <2>1. pc \in Applying /\ req[c].pc = "lockPay" /\ sr \in {req[c].seenReg, regStatus[req[c].r]}
    BY <1>5 DEF ApplyLock, AfterLockPc, ConfirmPc, Applying
  <2>2. ASSUME NEW outcome \in TransitionOutcomes(req[c].seenPay, payStatus[req[c].p]),
               outcome # "stop", req' = [req EXCEPT ![c] = Moved(outcome = "newly")]
        PROVE  Goes
    <3>1. req'[c] = Moved(outcome = "newly") /\ \A d \in Reqs \ {c} : req'[d] = req[d]
      BY <1>0, <2>2 DEF TypeOK
    <3>2. \/ outcome = "newly" \/ req[c].seenPay = "PAID"
          \/ payStatus[req[c].p] \notin Payable
      BY <2>2 DEF TransitionOutcomes
    <3> HIDE DEF pc, sr, sptr
    <3> QED BY <1>0, <2>1, <3>1, <3>2 DEF Request
  <2>3. \/ Finish(c)
        \/ \E outcome \in TransitionOutcomes(req[c].seenPay, payStatus[req[c].p]) :
              outcome # "stop" /\ req' = [req EXCEPT ![c] = Moved(outcome = "newly")]
    BY <1>5, Zenon DEF ApplyLock
  <2> HIDE DEF Moved, Goes
  <2>4. Goes \/ Finish(c)
    BY <2>2, <2>3
  <2> QED BY <2>4 DEF Goes
<1>6. CASE RecoverPay(c)
  <2> DEFINE seen == IF req[c].seenPay = "UNREAD" THEN payStatus[req[c].p] ELSE req[c].seenPay
             Moved == [req[c] EXCEPT !.pc = "lockPay", !.seenPay = seen]
  <2>1. CASE req' = [req EXCEPT ![c] = Moved]
    <3>1. req'[c] = Moved /\ \A d \in Reqs \ {c} : req'[d] = req[d]
      BY <1>0, <2>1 DEF TypeOK
    <3>2. req[c].pc = "recoverPay" /\ seen \in {req[c].seenPay, payStatus[req[c].p]}
      BY <1>6 DEF RecoverPay
    <3> HIDE DEF seen
    <3> QED BY <1>0, <3>1, <3>2 DEF Request, Applying
  <2>2. Finish(c) \/ req' = [req EXCEPT ![c] = Moved]
    BY <1>6, Zenon DEF RecoverPay
  <2> QED BY <2>1, <2>2
<1>7. CASE OfflineFulfil(c) \/ DeadlockVictim(c) \/ Abort(c)
  BY <1>7 DEF OfflineFulfil, DeadlockVictim, Abort
<1> QED BY <1>2, <1>3, <1>4, <1>5, <1>6, <1>7 DEF Handles

\* Only apply and the desk confirm, each with a payment of the registration.
LEMMA ConfirmedBy ==
    ASSUME OwnInv, [Next]_vars, NEW r \in Regs,
           regStatus[r] # "CONFIRMED", regStatus'[r] = "CONFIRMED"
    PROVE  \E c \in Reqs :
             /\ \/ ApplyCommit(c) /\ req[c].seenReg # "CANCELLED"
                \/ OfflineCommit(c) /\ Step(c, "fulfil")
                   /\ payStatus' = [payStatus EXCEPT ![req[c].p] = "PAID"]
             /\ req[c].r = r
<1>1. ASSUME NEW c \in Reqs, ApplyCommit(c)
      PROVE  req[c].r = r /\ req[c].seenReg # "CANCELLED"
  <2>1. regStatus' = [regStatus EXCEPT ![req[c].r] = ConfirmedStatus(req[c].seenReg, req[c].r)]
    BY <1>1 DEF ApplyCommit
  <2>2. req[c].r \in Regs
    BY RequestFields DEF OwnInv, TypeOK
  <2>3. req[c].r = r
    BY <2>1, <2>2 DEF OwnInv, TypeOK
  <2>4. req[c].seenReg # "CANCELLED"
    BY <2>1, <2>2, <2>3 DEF ConfirmedStatus, OwnInv, TypeOK
  <2> QED BY <2>3, <2>4
<1>2. ASSUME NEW c \in Reqs, OfflineCommit(c)
      PROVE  /\ req[c].r = r /\ Step(c, "fulfil")
             /\ payStatus' = [payStatus EXCEPT ![req[c].p] = "PAID"]
  BY <1>2, RequestFields DEF OfflineCommit, OwnInv, TypeOK
<1>3. ASSUME NEW c \in Reqs, CreateOrderCommit(c) \/ CancelCommit(c) \/ RefundCommit(c) \/ Revises(c)
      PROVE  FALSE
  BY <1>3, RevisesFrame DEF CreateOrderCommit, CancelCommit, RefundCommit, OwnInv, TypeOK
<1>4. ASSUME NEW c \in Reqs, Handles(c) \/ Begins(c) PROVE FALSE
  BY <1>4, HandlesFrame, BeginsFrame
<1>5. ASSUME \/ \E p \in Pays : ProviderCapture(p) \/ FailPayment(p)
             \/ \E x \in Regs : OfflineAgain(x) \/ AdminCancel(x)
             \/ UNCHANGED vars
      PROVE  FALSE
  BY <1>5 DEF ProviderCapture, FailPayment, OfflineAgain, AdminCancel, vars, regVars,
              OwnInv, TypeOK
<1> QED BY <1>1, <1>2, <1>3, <1>4, <1>5, StepCases

NoRefunds == /\ \A p \in Pays : payStatus[p] # "REFUNDED"
             /\ \A c \in Reqs : req[c].pc # "refund"

Paid(r) == \E p \in ReqPays(r) : payStatus[p] = "PAID"

\* The payment row that a request works on was inserted.
UsesRow(c) ==
    \/ req[c].pc \in {"sibling", "lockPay", "recoverPay"} \cup Applying
    \/ req[c].pc = "cancel" /\ req[c].seenPay = "CREATED"

RowsOK(c) ==
    /\ req[c].pc \in {"order", "offline", "cancel"} => regLock[req[c].r] = c
    /\ Reserved(c)
    /\ UsesRow(c) => payStatus[req[c].p] # "ABSENT"

\* Whoever goes by money taken or by a confirmation made, or remembers CANCELLED
\* of a registration that waits again, does so for a registration that has paid.
RemembersPaid(c) ==
    \/ req[c].seenPay = "PAID"
    \/ req[c].pc \in Applying /\ ~ req[c].newly
    \/ req[c].seenReg = "CONFIRMED" \/ req[c].pc = "revoke"
    \/ req[c].seenReg = "CANCELLED" /\ regStatus[req[c].r] = "PENDING"

\* A cancellation that fails a payment takes no money away: another payment is
\* PAID, or this one is not and nobody will make it so meanwhile: the
\* registration is locked, and only who remembers CANCELLED pays without it.
Spares(c) ==
    LET r == req[c].r  p == req[c].p IN
    \/ \E q \in ReqPays(r) \ {p} : payStatus[q] = "PAID"
    \/ /\ payStatus[p] \in Payable
       /\ \A d \in Reqs : req[d].r = r => req[d].seenReg # "CANCELLED"

KnowsMoney(c) ==
    /\ RemembersPaid(c) => Paid(req[c].r)
    /\ req[c].pc = "cancel" => /\ regStatus[req[c].r] = "PENDING"
                               /\ req[c].seenPay = "CREATED" => Spares(c)
    /\ req[c].pc = "patch" => req[c].seenReg # "CANCELLED"

PaidInv ==
    /\ OwnInv /\ NoRefunds /\ MoneyBacked
    /\ \A c \in Reqs : RowsOK(c) /\ KnowsMoney(c)

LEMMA RefundsStep ==
    ASSUME OwnInv, NoRefunds, "Refund" \notin Ops, [Next]_vars
    PROVE  NoRefunds'
<1>1. ASSUME NEW c \in Reqs, Handles(c) PROVE NoRefunds'
  <2>1. req'[c].pc # "refund"
    BY <1>1, HandlesRemembers DEF Applying, Finish, Idle, OwnInv, TypeOK
  <2> QED BY <1>1, <2>1, HandlesFrame DEF NoRefunds
<1>2. ASSUME NEW c \in Reqs, Begins(c) PROVE NoRefunds'
  BY <1>2, BeginsFrame DEF NoRefunds
<1>3. ASSUME NEW c \in Reqs, \/ ApplyCommit(c) \/ CreateOrderCommit(c) \/ OfflineCommit(c)
                             \/ CancelCommit(c) \/ Revises(c)
      PROVE  NoRefunds'
  <2>1. \A p \in Pays : payStatus'[p] # "REFUNDED"
    BY <1>3, RevisesFrame DEF ApplyCommit, CreateOrderCommit, OfflineCommit, CancelCommit,
                              NoRefunds, OwnInv, TypeOK
  <2>2. Step(c, "fulfil") \/ req' = [req EXCEPT ![c] = Idle]
    BY <1>3, RevisesFrame
    DEF ApplyCommit, CreateOrderCommit, OfflineCommit, CancelCommit, Finish
  <2>3. \A d \in Reqs : req'[d].pc # "refund"
    <3>1. CASE Step(c, "fulfil")
      <4>1. req'[c].pc = "fulfil" /\ \A d \in Reqs \ {c} : req'[d] = req[d]
        BY <3>1, StepFrame
      <4> QED BY <4>1 DEF NoRefunds
    <3>2. CASE req' = [req EXCEPT ![c] = Idle]
      <4>1. Idle.pc # "refund"
        BY DEF Idle
      <4> QED BY <3>2, <4>1 DEF NoRefunds, OwnInv, TypeOK
    <3> QED BY <2>2, <3>1, <3>2
  <2> QED BY <2>1, <2>3 DEF NoRefunds
<1>4. ASSUME NEW c \in Reqs, RefundCommit(c) PROVE FALSE
  BY <1>4 DEF RefundCommit, NoRefunds
<1>5. ASSUME NEW p \in Pays, FailPayment(p) PROVE NoRefunds'
  BY <1>5 DEF FailPayment, NoRefunds, OwnInv, TypeOK
<1>6. ASSUME \/ \E p \in Pays : ProviderCapture(p)
             \/ \E r \in Regs : OfflineAgain(r) \/ AdminCancel(r)
             \/ UNCHANGED vars
      PROVE  NoRefunds'
  BY <1>6 DEF ProviderCapture, OfflineAgain, AdminCancel, vars, payVars, NoRefunds
<1> QED BY <1>1, <1>2, <1>3, <1>4, <1>5, <1>6, StepCases

\* Who writes a payment's status.
LEMMA PaysWritten ==
    ASSUME PaidInv, [Next]_vars, NEW p \in Pays, payStatus'[p] # payStatus[p]
    PROVE  \/ payStatus[p] = "CREATED" /\ payStatus'[p] = "FAILED"
           \/ \E c \in Reqs :
                /\ req[c].p = p /\ req[c].r = RegOf[p] /\ req'[c] # req[c]
                /\ \/ /\ UsesRow(c) /\ payStatus'[p] = "PAID"
                      /\ req[c].seenReg = "CANCELLED" \/ regLock[RegOf[p]] \in {NoReq, c}
                   \/ /\ payStatus[p] = "ABSENT" /\ payStatus'[p] \in {"CREATED", "PAID"}
                      /\ regLock[RegOf[p]] = c
                   \/ /\ UsesRow(c) /\ payStatus'[p] = "FAILED"
                      /\ regLock[RegOf[p]] = c /\ Spares(c)
<1> DEFINE Goal ==
           \/ payStatus[p] = "CREATED" /\ payStatus'[p] = "FAILED"
           \/ \E c \in Reqs :
                /\ req[c].p = p /\ req[c].r = RegOf[p] /\ req'[c] # req[c]
                /\ \/ /\ UsesRow(c) /\ payStatus'[p] = "PAID"
                      /\ req[c].seenReg = "CANCELLED" \/ regLock[RegOf[p]] \in {NoReq, c}
                   \/ /\ payStatus[p] = "ABSENT" /\ payStatus'[p] \in {"CREATED", "PAID"}
                      /\ regLock[RegOf[p]] = c
                   \/ /\ UsesRow(c) /\ payStatus'[p] = "FAILED"
                      /\ regLock[RegOf[p]] = c /\ Spares(c)
<1>0. /\ OwnInv /\ TypeOK
      /\ \A c \in Reqs : RowsOK(c) /\ KnowsMoney(c)
  BY DEF PaidInv, OwnInv
<1>1. ASSUME NEW c \in Reqs, req'[c].pc \in {"idle", "fulfil"}, req[c].pc \notin {"idle", "fulfil"}
      PROVE  req'[c] # req[c]
  BY <1>1
<1>2. ASSUME NEW c \in Reqs, Finish(c)
      PROVE  req'[c].pc = "idle"
  BY <1>0, <1>2 DEF Finish, Idle, TypeOK
<1>3. ASSUME NEW c \in Reqs, ApplyCommit(c)
      PROVE  Goal
  <2>1. req[c].pc = "commit" /\ Finish(c)
    BY <1>3 DEF ApplyCommit
  <2>2. req[c].p = p /\ payStatus'[p] = "PAID"
    BY <1>0, <1>3 DEF ApplyCommit, TypeOK
  <2>3. req[c].r = RegOf[p]
    BY <1>0, <2>1, <2>2, RequestPayment
  <2>4. req[c].seenReg = "CANCELLED" \/ regLock[RegOf[p]] \in {NoReq, c}
    BY <1>3, <2>3 DEF ApplyCommit, Grants
  <2> QED BY <1>1, <1>2, <2>1, <2>2, <2>3, <2>4 DEF UsesRow, Applying
<1>4. ASSUME NEW c \in Reqs, CreateOrderCommit(c)
      PROVE  Goal
  <2>1. req[c].pc = "order" /\ Finish(c)
    BY <1>4 DEF CreateOrderCommit
  <2>2. req[c].p = p /\ payStatus'[p] = "CREATED"
    BY <1>0, <1>4 DEF CreateOrderCommit, TypeOK
  <2>3. req[c].r = RegOf[p] /\ payStatus[p] = "ABSENT" /\ regLock[req[c].r] = c
    BY <1>0, <2>1, <2>2, RequestPayment DEF RowsOK, Reserved
  <2> QED BY <1>1, <1>2, <2>1, <2>2, <2>3
<1>5. ASSUME NEW c \in Reqs, OfflineCommit(c)
      PROVE  Goal
  <2>1. req[c].pc = "offline"
    BY <1>5 DEF OfflineCommit
  <2>2. payStatus' = [payStatus EXCEPT ![req[c].p] = "PAID"] /\ Step(c, "fulfil")
    BY <1>5 DEF OfflineCommit
  <2>3. req'[c].pc = "fulfil"
    BY <1>0, <2>2, StepFrame
  <2>4. req[c].p = p /\ payStatus'[p] = "PAID"
    BY <1>0, <2>2 DEF TypeOK
  <2>5. req[c].r = RegOf[p] /\ payStatus[p] = "ABSENT" /\ regLock[req[c].r] = c
    BY <1>0, <2>1, <2>4, RequestPayment DEF RowsOK, Reserved
  <2> QED BY <1>1, <2>1, <2>3, <2>4, <2>5
<1>6. ASSUME NEW c \in Reqs, CancelCommit(c)
      PROVE  Goal
  <2>1. req[c].pc = "cancel" /\ Finish(c)
    BY <1>6 DEF CancelCommit
  <2>2. req[c].seenPay = "CREATED" /\ req[c].p = p /\ payStatus'[p] = "FAILED"
    BY <1>0, <1>6 DEF CancelCommit, TypeOK
  <2>3. req[c].r = RegOf[p]
    BY <1>0, <2>1, <2>2, CoreAssumption DEF OwnInv, OwnPayment
  <2>4. regLock[req[c].r] = c /\ Spares(c)
    BY <1>0, <2>1, <2>2 DEF RowsOK, KnowsMoney
  <2> QED BY <1>1, <1>2, <2>1, <2>2, <2>3, <2>4 DEF UsesRow
<1>7. ASSUME NEW c \in Reqs, RefundCommit(c)
      PROVE  FALSE
  BY <1>7 DEF RefundCommit, PaidInv, NoRefunds
<1>8. ASSUME NEW c \in Reqs, Handles(c) \/ Begins(c) \/ Revises(c)
      PROVE  FALSE
  BY <1>0, <1>8, HandlesFrame, BeginsFrame, RevisesFrame
<1>9. ASSUME NEW q \in Pays, FailPayment(q)
      PROVE  Goal
  BY <1>0, <1>9 DEF FailPayment, TypeOK
<1>10. ASSUME \/ \E q \in Pays : ProviderCapture(q)
              \/ \E r \in Regs : OfflineAgain(r) \/ AdminCancel(r)
              \/ UNCHANGED vars
       PROVE  FALSE
  BY <1>10 DEF ProviderCapture, OfflineAgain, AdminCancel, vars, payVars
<1> HIDE DEF Goal
<1>11. Goal
  BY <1>3, <1>4, <1>5, <1>6, <1>7, <1>8, <1>9, <1>10, StepCases
<1> QED BY <1>11 DEF Goal

\* Who writes a registration's status.
LEMMA RegsWritten ==
    ASSUME PaidInv, [Next]_vars, NEW r \in Regs, regStatus'[r] # regStatus[r]
    PROVE  /\ regStatus'[r] = "PENDING" => Paid(r)
           /\ \/ regLock[r] = NoReq
              \/ \E c \in Reqs : regLock[r] = c /\ req'[c] # req[c]
<1> DEFINE Goal ==
           /\ regStatus'[r] = "PENDING" => Paid(r)
           /\ \/ regLock[r] = NoReq
              \/ \E c \in Reqs : regLock[r] = c /\ req'[c] # req[c]
<1>0. /\ OwnInv /\ TypeOK
      /\ \A c \in Reqs : RowsOK(c) /\ KnowsMoney(c)
  BY DEF PaidInv, OwnInv
<1>1. ASSUME NEW c \in Reqs, Finish(c), req[c].pc # "idle"
      PROVE  req'[c] # req[c]
  BY <1>0, <1>1 DEF Finish, Idle, TypeOK
<1>2. ASSUME NEW c \in Reqs, ApplyCommit(c)
      PROVE  Goal
  <2>1. regStatus' = [regStatus EXCEPT ![req[c].r] = ConfirmedStatus(req[c].seenReg, req[c].r)]
    BY <1>2 DEF ApplyCommit
  <2>2. req[c].r = r /\ regStatus'[r] = ConfirmedStatus(req[c].seenReg, r)
    BY <1>0, <2>1 DEF TypeOK
  <2>3. req[c].seenReg # "CANCELLED" /\ regStatus'[r] = "CONFIRMED"
    BY <2>2 DEF ConfirmedStatus
  <2>4. regLock[r] \in {NoReq, c} /\ Finish(c) /\ req[c].pc = "commit"
    BY <1>2, <2>2, <2>3 DEF ApplyCommit, Grants
  <2> QED BY <1>1, <2>3, <2>4
<1>3. ASSUME NEW c \in Reqs, OfflineCommit(c)
      PROVE  Goal
  <2>1. req[c].r = r /\ regStatus'[r] = "CONFIRMED" /\ Step(c, "fulfil") /\ req[c].pc = "offline"
    BY <1>0, <1>3 DEF OfflineCommit, TypeOK
  <2>2. regLock[r] = c
    BY <1>0, <2>1 DEF RowsOK
  <2>3. req'[c].pc = "fulfil"
    BY <1>0, <2>1, StepFrame
  <2> QED BY <2>1, <2>2, <2>3
<1>4. ASSUME NEW c \in Reqs, CancelCommit(c)
      PROVE  Goal
  <2>1. req[c].r = r /\ regStatus'[r] = "CANCELLED" /\ Finish(c) /\ req[c].pc = "cancel"
    BY <1>0, <1>4 DEF CancelCommit, TypeOK
  <2>2. regLock[r] = c
    BY <1>0, <2>1 DEF RowsOK
  <2> QED BY <1>1, <2>1, <2>2
<1>5. ASSUME NEW x \in Regs, AdminCancel(x)
      PROVE  Goal
  BY <1>0, <1>5 DEF AdminCancel, TypeOK
<1>6. ASSUME NEW c \in Reqs, Handles(c) \/ Begins(c) \/ CreateOrderCommit(c) \/ RefundCommit(c)
      PROVE  FALSE
  BY <1>0, <1>6, HandlesFrame, BeginsFrame
  DEF CreateOrderCommit, RefundCommit, PaidInv, NoRefunds
<1>7. ASSUME \/ \E p \in Pays : ProviderCapture(p) \/ FailPayment(p)
             \/ \E x \in Regs : OfflineAgain(x)
             \/ UNCHANGED vars
      PROVE  FALSE
  BY <1>7 DEF ProviderCapture, FailPayment, OfflineAgain, vars, regVars
<1>8. ASSUME NEW c \in Reqs, Revises(c)
      PROVE  Goal
  <2>1. PICK s \in {"PENDING", "CANCELLED"} :
           /\ regStatus' = [regStatus EXCEPT ![req[c].r] = s]
           /\ s = "PENDING" => req[c].pc = "revoke" \/ req[c].seenReg = "CANCELLED"
    BY <1>0, <1>8, RevisesFrame
  <2>2. req[c].r = r /\ regStatus'[r] = s /\ regLock[r] = NoReq /\ req[c].pc \in {"patch", "revoke"}
    BY <1>0, <1>8, <2>1, RevisesFrame DEF TypeOK
  <2>3. s = "PENDING" => Paid(r)
    BY <1>0, <2>1, <2>2 DEF KnowsMoney, RemembersPaid
  <2> QED BY <2>2, <2>3
<1> HIDE DEF Goal
<1>9. Goal
  BY <1>2, <1>3, <1>4, <1>5, <1>6, <1>7, <1>8, StepCases
<1> QED BY <1>9 DEF Goal

\* Rows and money of a registration stay.
LEMMA PaidStays ==
    ASSUME PaidInv, [Next]_vars
    PROVE  /\ \A r \in Regs : Paid(r) => Paid(r)'
           /\ \A p \in Pays : payStatus[p] # "ABSENT" => payStatus'[p] # "ABSENT"
<1>1. ASSUME NEW p \in Pays, payStatus[p] # "ABSENT"
      PROVE  payStatus'[p] # "ABSENT"
  BY <1>1, PaysWritten
<1>2. ASSUME NEW r \in Regs, Paid(r)
      PROVE  Paid(r)'
  <2>1. PICK p \in ReqPays(r) : payStatus[p] = "PAID"
    BY <1>2 DEF Paid
  <2>2. p \in Pays /\ RegOf[p] = r
    BY <2>1 DEF ReqPays
  <2>3. CASE payStatus'[p] = "PAID"
    BY <2>2, <2>3 DEF Paid, ReqPays
  <2>4. CASE payStatus'[p] # "PAID"
    <3>1. PICK c \in Reqs : /\ req[c].p = p /\ req[c].r = r /\ req'[c] # req[c]
                            /\ regLock[r] = c /\ Spares(c)
      BY <2>1, <2>2, <2>4, PaysWritten
    <3>2. PICK q \in ReqPays(r) \ {p} : payStatus[q] = "PAID"
      BY <2>1, <3>1 DEF Spares, Payable
    <3>3. q \in Pays /\ RegOf[q] = r /\ q # p
      BY <3>2 DEF ReqPays
    <3>4. payStatus'[q] = "PAID"
      <4>1. SUFFICES ASSUME payStatus'[q] # "PAID" PROVE FALSE
        OBVIOUS
      <4>2. PICK d \in Reqs : req[d].p = q /\ regLock[r] = d
        BY <3>2, <3>3, <4>1, PaysWritten
      <4> QED BY <3>1, <3>3, <4>2
    <3> QED BY <3>3, <3>4 DEF Paid, ReqPays
  <2> QED BY <2>3, <2>4
<1> QED BY <1>1, <1>2

\* A registration's row lock stays with the request that needs it.
LEMMA RowLockStays ==
    ASSUME OwnInv, [Next]_vars, NEW d \in Reqs, req[d].pc \in {"order", "offline", "cancel"},
           req'[d] = req[d], NEW r \in Regs, regLock[r] = d
    PROVE  regLock'[r] = d
<1>0. TypeOK /\ d # NoReq
  BY CoreAssumption DEF OwnInv
<1>1. ASSUME NEW c \in Reqs, Finish(c)
      PROVE  regLock'[r] = d
  <2>1. c # d
    BY <1>0, <1>1 DEF Finish, Idle, TypeOK
  <2> QED BY <1>0, <1>1, <2>1 DEF Finish, ReleaseLocks, TypeOK
<1>2. ASSUME NEW c \in Reqs, Handles(c)
      PROVE  regLock'[r] = d
  <2>1. CASE ApplyLock(c)
    <3>1. Finish(c) \/ UNCHANGED <<regLock, eventLock>>
      BY <2>1, Zenon DEF ApplyLock
    <3> QED BY <1>1, <3>1
  <2>2. CASE ApplyRepoint(c)
    BY <1>0, <2>2 DEF ApplyRepoint, Grants, TypeOK
  <2>3. CASE RecoverPay(c)
    <3>1. Finish(c) \/ UNCHANGED <<regLock, eventLock>>
      BY <2>3, Zenon DEF RecoverPay
    <3> QED BY <1>1, <3>1
  <2>4. CASE ReconcileSibling(c) \/ ApplyCapacity(c)
    BY <1>1, <2>4 DEF ReconcileSibling, ApplyCapacity, locks
  <2>5. CASE OfflineFulfil(c) \/ DeadlockVictim(c) \/ Abort(c)
    BY <1>1, <2>5 DEF OfflineFulfil, DeadlockVictim, Abort
  <2> QED BY <1>2, <2>1, <2>2, <2>3, <2>4, <2>5 DEF Handles
<1>3. ASSUME NEW c \in Reqs, Begins(c)
      PROVE  regLock'[r] = d
  <2>1. \/ regLock' = regLock
        \/ \E x \in Regs : regLock[x] = NoReq /\ regLock' = [regLock EXCEPT ![x] = c]
    BY <1>3, CoreAssumption
    DEF Begins, Webhook, Verify, Sync, Reconcile, RecoverBegin, RefundBegin, CreateOrderSync,
        CreateOrderNew, CancelBegin, OfflineBegin, PatchBegin, RevokeBegin, locks
  <2> QED BY <1>0, <2>1 DEF TypeOK
<1>4. ASSUME NEW c \in Reqs, ApplyCommit(c) \/ CreateOrderCommit(c) \/ CancelCommit(c)
                             \/ RefundCommit(c) \/ Revises(c)
      PROVE  regLock'[r] = d
  BY <1>1, <1>4, RevisesFrame DEF ApplyCommit, CreateOrderCommit, CancelCommit, RefundCommit
<1>5. ASSUME NEW c \in Reqs, OfflineCommit(c)
      PROVE  regLock'[r] = d
  <2>1. Step(c, "fulfil") \/ req' = [req EXCEPT ![c] = Idle]
    BY <1>5 DEF OfflineCommit
  <2>2. req'[c].pc \in {"fulfil", "idle"}
    <3>1. CASE Step(c, "fulfil")
      BY <3>1, StepFrame
    <3>2. CASE req' = [req EXCEPT ![c] = Idle]
      BY <1>0, <3>2 DEF Idle, TypeOK
    <3> QED BY <2>1, <3>1, <3>2
  <2>3. ReleaseLocks(c) /\ c # d
    BY <1>5, <2>2 DEF OfflineCommit
  <2> QED BY <1>0, <2>3 DEF ReleaseLocks, TypeOK
<1>6. ASSUME \/ \E p \in Pays : ProviderCapture(p) \/ FailPayment(p)
             \/ \E x \in Regs : OfflineAgain(x) \/ AdminCancel(x)
             \/ UNCHANGED vars
      PROVE  regLock'[r] = d
  BY <1>6 DEF ProviderCapture, FailPayment, OfflineAgain, AdminCancel, vars, locks
<1> QED BY <1>2, <1>3, <1>4, <1>5, <1>6, StepCases

\* CANCELLED is remembered of a registration that is or was cancelled.
LEMMA CancelledSeen ==
    ASSUME OwnInv, [Next]_vars, NEW d \in Reqs, req'[d].seenReg = "CANCELLED"
    PROVE  \/ req[d].seenReg = "CANCELLED" /\ req'[d].r = req[d].r
           \/ regStatus[req'[d].r] = "CANCELLED"
<1> DEFINE Goal == \/ req[d].seenReg = "CANCELLED" /\ req'[d].r = req[d].r
                   \/ regStatus[req'[d].r] = "CANCELLED"
<1>0. TypeOK
  BY DEF OwnInv
<1>1. ASSUME NEW c \in Reqs, req' = [req EXCEPT ![c] = Idle]
      PROVE  req'[d] = req[d]
  BY <1>0, <1>1 DEF Idle, TypeOK
<1>2. ASSUME NEW c \in Reqs, NEW pc, Step(c, pc)
      PROVE  Goal
  BY <1>2, StepFrame
<1>3. ASSUME NEW c \in Reqs, Handles(c)
      PROVE  Goal
  BY <1>0, <1>1, <1>2, <1>3, HandlesRemembers DEF Finish
<1>4. ASSUME NEW c \in Reqs, Begins(c)
      PROVE  Goal
  BY <1>4, BeginsFrame
<1>5. ASSUME NEW c \in Reqs, \/ ApplyCommit(c) \/ CreateOrderCommit(c) \/ OfflineCommit(c)
                             \/ CancelCommit(c) \/ RefundCommit(c) \/ Revises(c)
      PROVE  Goal
  <2>1. Step(c, "fulfil") \/ req' = [req EXCEPT ![c] = Idle]
    BY <1>5, RevisesFrame
    DEF ApplyCommit, CreateOrderCommit, OfflineCommit, CancelCommit, RefundCommit, Finish
  <2> QED BY <1>1, <1>2, <2>1
<1>6. ASSUME \/ \E p \in Pays : ProviderCapture(p) \/ FailPayment(p)
             \/ \E x \in Regs : OfflineAgain(x) \/ AdminCancel(x)
             \/ UNCHANGED vars
      PROVE  Goal
  BY <1>6 DEF ProviderCapture, FailPayment, OfflineAgain, AdminCancel, vars
<1> HIDE DEF Goal
<1>7. Goal
  BY <1>3, <1>4, <1>5, <1>6, StepCases
<1> QED BY <1>7 DEF Goal

\* A request that does not act stays as it should be.
LEMMA PaidOther ==
    ASSUME PaidInv, [Next]_vars, NEW d \in Reqs, req'[d] = req[d]
    PROVE  RowsOK(d)' /\ KnowsMoney(d)'
<1> DEFINE r == req[d].r
           p == req[d].p
<1>0. OwnInv /\ TypeOK /\ RowsOK(d) /\ KnowsMoney(d) /\ r \in Regs /\ p \in Pays \cup {NoPay}
  BY RequestFields DEF PaidInv, OwnInv, TypeOK
<1>1. UsesRow(d) \/ req[d].pc \in {"order", "offline"} => p \in Pays /\ RegOf[p] = r
  BY <1>0, RequestPayment DEF UsesRow, Applying, OwnInv, OwnPayment
<1>2. Paid(r) => Paid(r)'
  BY <1>0, PaidStays
<1>3. ASSUME req[d].pc \in {"order", "offline", "cancel"}
      PROVE  /\ regLock[r] = d /\ regLock'[r] = d /\ d # NoReq
             /\ \A c \in Reqs : req'[c] # req[c] => regLock[r] # c
  BY <1>0, <1>3, RowLockStays, CoreAssumption DEF RowsOK
<1>4. ASSUME req[d].pc \in {"order", "offline"}
      PROVE  payStatus'[p] = "ABSENT"
  <2>1. payStatus[p] = "ABSENT" /\ p \in Pays /\ RegOf[p] = r
    BY <1>0, <1>1, <1>4 DEF RowsOK, Reserved
  <2>2. SUFFICES ASSUME payStatus'[p] # "ABSENT" PROVE FALSE
    OBVIOUS
  <2>3. PICK c \in Reqs : /\ req[c].p = p /\ req'[c] # req[c]
                          /\ UsesRow(c) \/ regLock[r] = c
    BY <2>1, <2>2, PaysWritten
  <2>4. ~ UsesRow(c)
    BY <2>1, <2>3 DEF PaidInv, RowsOK
  <2> QED BY <1>3, <1>4, <2>3, <2>4
<1>5. RowsOK(d)'
  <2>1. UsesRow(d)' => payStatus'[p] # "ABSENT"
    BY <1>0, <1>1, PaidStays DEF RowsOK, UsesRow
  <2> QED BY <1>3, <1>4, <2>1 DEF RowsOK, Reserved
<1>6. RemembersPaid(d)' => Paid(r)'
  <2>1. ASSUME regStatus'[r] = "PENDING", regStatus[r] # "PENDING"
        PROVE  Paid(r)'
    <3>1. Paid(r)
      BY <1>0, <2>1, RegsWritten
    <3> QED BY <1>2, <3>1
  <2>2. RemembersPaid(d)' /\ ~ RemembersPaid(d) => regStatus'[r] = "PENDING" /\ regStatus[r] # "PENDING"
    BY DEF RemembersPaid
  <2> QED BY <1>0, <1>2, <2>1, <2>2 DEF KnowsMoney
<1>7. ASSUME req[d].pc = "cancel"
      PROVE  regStatus[r] = "PENDING" /\ regStatus'[r] = "PENDING"
  <2>1. regStatus[r] = "PENDING"
    BY <1>0, <1>7 DEF KnowsMoney
  <2> QED BY <1>0, <1>3, <1>7, <2>1, RegsWritten
<1>8. ASSUME req[d].pc = "cancel", req[d].seenPay = "CREATED"
      PROVE  Spares(d)'
  <2>1. Spares(d) /\ p \in Pays /\ RegOf[p] = r
    BY <1>0, <1>1, <1>8 DEF KnowsMoney, UsesRow
  <2>2. CASE \E q \in ReqPays(r) \ {p} : payStatus[q] = "PAID"
    <3>1. PICK q \in ReqPays(r) \ {p} : payStatus[q] = "PAID"
      BY <2>2
    <3>2. q \in Pays /\ RegOf[q] = r /\ q # p
      BY <3>1 DEF ReqPays
    <3>3. payStatus'[q] = "PAID"
      <4>1. SUFFICES ASSUME payStatus'[q] # "PAID" PROVE FALSE
        OBVIOUS
      <4>2. PICK c \in Reqs : req'[c] # req[c] /\ regLock[r] = c
        BY <3>1, <3>2, <4>1, PaysWritten
      <4> QED BY <1>3, <1>8, <4>2
    <3> QED BY <3>2, <3>3 DEF Spares, ReqPays
  <2>3. CASE /\ payStatus[p] \in Payable
             /\ \A c \in Reqs : req[c].r = r => req[c].seenReg # "CANCELLED"
    <3>1. payStatus'[p] \in Payable
      <4>1. SUFFICES ASSUME payStatus'[p] \notin Payable PROVE FALSE
        OBVIOUS
      <4>2. PICK c \in Reqs : /\ req[c].r = r /\ req'[c] # req[c]
                              /\ req[c].seenReg = "CANCELLED" \/ regLock[r] \in {NoReq, c}
        BY <2>1, <2>3, <4>1, PaysWritten DEF Payable
      <4> QED BY <1>3, <1>8, <2>3, <4>2
    <3>2. \A c \in Reqs : req'[c].r = r => req'[c].seenReg # "CANCELLED"
      BY <1>0, <1>7, <1>8, <2>3, CancelledSeen
    <3> QED BY <3>1, <3>2 DEF Spares
  <2> QED BY <2>1, <2>2, <2>3 DEF Spares
<1>9. KnowsMoney(d)'
  BY <1>0, <1>6, <1>7, <1>8 DEF KnowsMoney
<1> QED BY <1>5, <1>9

\* A request that is idle knows nothing that could be wrong.
LEMMA PaidIdle ==
    ASSUME NEW c \in Reqs, req'[c] = Idle
    PROVE  RowsOK(c)' /\ KnowsMoney(c)'
BY DEF Idle, RowsOK, Reserved, UsesRow, KnowsMoney, RemembersPaid, Applying

\* A request that is handled, and one that begins.
LEMMA PaidHandles ==
    ASSUME PaidInv, [Next]_vars, NEW c \in Reqs, Handles(c)
    PROVE  RowsOK(c)' /\ KnowsMoney(c)'
<1> DEFINE r == req[c].r
           p == req[c].p
<1>0. OwnInv /\ TypeOK /\ RowsOK(c) /\ KnowsMoney(c) /\ r \in Regs
  BY RequestFields DEF PaidInv, OwnInv, TypeOK
<1>1. CASE req' = [req EXCEPT ![c] = Idle]
  BY <1>0, <1>1, PaidIdle DEF TypeOK
<1>2. CASE req' # [req EXCEPT ![c] = Idle]
  <2>1. /\ UNCHANGED <<regStatus, payStatus>>
        /\ req'[c].r = r /\ req'[c].p = p
        /\ req[c].pc \in {"sibling", "lockPay", "recoverPay"} \cup Applying
        /\ req'[c].pc \in {"lockPay"} \cup Applying
        /\ req'[c].seenPay \in {req[c].seenPay, payStatus[p]}
        /\ req'[c].seenReg \in {req[c].seenReg, regStatus[r]}
        /\ req'[c].pc \in Applying /\ ~ req'[c].newly =>
             \/ req[c].pc \in Applying /\ ~ req[c].newly
             \/ req[c].seenPay = "PAID"
             \/ payStatus[p] \notin Payable
    BY <1>0, <1>2, HandlesRemembers, HandlesFrame DEF Finish
  <2>2. p \in Pays /\ RegOf[p] = r
    BY <1>0, <2>1, RequestPayment DEF Applying
  <2>3. payStatus[p] # "ABSENT" /\ payStatus[p] # "REFUNDED"
    BY <1>0, <2>1, <2>2 DEF RowsOK, UsesRow, PaidInv, NoRefunds
  <2>4. payStatus[p] \in PayStatus
    BY <1>0, <2>2 DEF TypeOK
  <2>5. payStatus[p] \notin Payable => Paid(r)
    BY <2>2, <2>3, <2>4 DEF PayStatus, Payable, Paid, ReqPays
  <2>6. regStatus[r] = "CONFIRMED" => Paid(r)
    BY <1>0 DEF PaidInv, MoneyBacked, Paid
  <2>7. RowsOK(c)'
    BY <2>1, <2>3 DEF RowsOK, Reserved, UsesRow, Applying
  <2>8. RemembersPaid(c)' => RemembersPaid(c) \/ payStatus[p] \notin Payable
                                \/ regStatus[r] = "CONFIRMED"
    BY <2>1 DEF RemembersPaid, Payable, Applying
  <2>9. Paid(r) => Paid(r)'
    BY <1>0, <2>1, PaidStays
  <2>10. req'[c].pc \notin {"cancel", "patch"}
    BY <2>1 DEF Applying
  <2> QED BY <1>0, <2>1, <2>5, <2>6, <2>7, <2>8, <2>9, <2>10 DEF KnowsMoney
<1> QED BY <1>1, <1>2

\* A request begins with the rows it read and the row locks it needs.
LEMMA BeginsKnows ==
    ASSUME OwnInv, NEW c \in Reqs, Begins(c)
    PROVE  LET p == req'[c].p
               r == req'[c].r
           IN /\ p \in Pays => req'[c].seenPay \in {"UNREAD", payStatus[p]}
              /\ p \in Pays => RegOf[p] = r
              /\ p \notin Pays =>
                   req'[c].pc \in {"cancel", "patch", "revoke"} /\ req'[c].seenPay = "UNREAD"
              /\ req'[c].pc \in {"sibling", "lockPay", "recoverPay"} => payStatus[p] # "ABSENT"
              /\ req'[c].pc \in {"order", "offline"} => payStatus[p] = "ABSENT"
              /\ req'[c].pc \in {"order", "offline", "cancel"} => regLock'[r] = c
<1> DEFINE Goal ==
           LET p == req'[c].p
               r == req'[c].r
           IN /\ p \in Pays => req'[c].seenPay \in {"UNREAD", payStatus[p]}
              /\ p \in Pays => RegOf[p] = r
              /\ p \notin Pays =>
                   req'[c].pc \in {"cancel", "patch", "revoke"} /\ req'[c].seenPay = "UNREAD"
              /\ req'[c].pc \in {"sibling", "lockPay", "recoverPay"} => payStatus[p] # "ABSENT"
              /\ req'[c].pc \in {"order", "offline"} => payStatus[p] = "ABSENT"
              /\ req'[c].pc \in {"order", "offline", "cancel"} => regLock'[r] = c
<1>0. OwnInv /\ TypeOK
  BY DEF OwnInv
<1>1. ASSUME NEW pc, NEW r \in Regs, NEW p, NEW sp, NEW sr, NEW sptr,
             Start(c, pc, r, p, sp, sr, sptr),
             p \in Pays => sp \in {"UNREAD", payStatus[p]},
             p \in Pays => RegOf[p] = r,
             p \notin Pays => pc \in {"cancel", "patch", "revoke"} /\ sp = "UNREAD",
             pc \in {"sibling", "lockPay", "recoverPay"} => payStatus[p] # "ABSENT",
             pc \in {"order", "offline"} => payStatus[p] = "ABSENT",
             pc \in {"order", "offline", "cancel"} => regLock' = [regLock EXCEPT ![r] = c]
      PROVE  Goal
  <2>1. req'[c] = [pc |-> pc, r |-> r, p |-> p, seenPay |-> sp, seenReg |-> sr,
                   seenPtr |-> sptr, newly |-> FALSE]
    BY <1>0, <1>1 DEF Start, TypeOK
  <2> QED BY <1>0, <1>1, <2>1 DEF TypeOK
<1> HIDE DEF Goal
<1>2. ASSUME NEW p \in Pays, Webhook(c, p) \/ Verify(c, p) \/ Sync(c, p)
      PROVE  Goal
  <2>1. Start(c, "lockPay", RegOf[p], p, payStatus[p], "UNREAD", NoPay) /\ payStatus[p] # "ABSENT"
    BY <1>2 DEF Webhook, Verify, Sync
  <2> QED BY <1>1, <2>1, CoreAssumption
<1>3. ASSUME NEW p \in Pays, Reconcile(c, p) \/ RefundBegin(c, p)
      PROVE  Goal
  <2>1. \E pc \in {"sibling", "refund"} : \E sr, sptr :
           Start(c, pc, RegOf[p], p, payStatus[p], sr, sptr) /\ payStatus[p] # "ABSENT"
    BY <1>3 DEF Reconcile, RefundBegin
  <2> QED BY <1>1, <2>1, CoreAssumption
<1>4. ASSUME NEW p \in Pays, RecoverBegin(c, p)
      PROVE  Goal
  <2>1. \E sp \in {"UNREAD", payStatus[p]} : \E sr, sptr :
           Start(c, "recoverPay", RegOf[p], p, sp, sr, sptr) /\ payStatus[p] # "ABSENT"
    BY <1>4 DEF RecoverBegin
  <2> QED BY <1>1, <2>1, CoreAssumption
<1>5. ASSUME NEW r \in Regs, NEW byId \in BOOLEAN, CreateOrderSync(c, r, byId)
      PROVE  Goal
  <2>1. /\ Start(c, "lockPay", r, regPtr[r], payStatus[regPtr[r]], regStatus[r], regPtr[r])
        /\ payStatus[regPtr[r]] # "ABSENT" /\ regPtr[r] # NoPay
    BY <1>5 DEF CreateOrderSync
  <2>2. regPtr[r] \in Pays /\ RegOf[regPtr[r]] = r
    BY <1>0, <2>1 DEF OwnInv, PointersAreOwn, TypeOK
  <2> QED BY <1>1, <2>1, <2>2
<1>6. ASSUME NEW r \in Regs, NEW byId \in BOOLEAN, NEW p \in Pays,
             CreateOrderNew(c, r, byId, p) \/ OfflineBegin(c, r, p)
      PROVE  Goal
  <2>1. /\ \E pc \in {"order", "offline"} : \E sr, sptr : Start(c, pc, r, p, "UNREAD", sr, sptr)
        /\ p \in FreshPays(r) /\ regLock' = [regLock EXCEPT ![r] = c]
    BY <1>6 DEF CreateOrderNew, OfflineBegin
  <2>2. RegOf[p] = r /\ payStatus[p] = "ABSENT"
    BY <2>1 DEF FreshPays, ReqPays
  <2> QED BY <1>1, <2>1, <2>2
<1>7. ASSUME NEW r \in Regs, CancelBegin(c, r)
      PROVE  Goal
  <2>1. PICK sp : /\ Start(c, "cancel", r, regPtr[r], sp, regStatus[r], regPtr[r])
                  /\ sp = IF regPtr[r] = NoPay THEN "UNREAD" ELSE payStatus[regPtr[r]]
                  /\ regLock' = [regLock EXCEPT ![r] = c]
    BY <1>7 DEF CancelBegin
  <2>2. /\ regPtr[r] \in Pays => sp = payStatus[regPtr[r]] /\ RegOf[regPtr[r]] = r
        /\ regPtr[r] \notin Pays => sp = "UNREAD"
    BY <1>0, <2>1, CoreAssumption DEF OwnInv, PointersAreOwn, TypeOK
  <2> QED BY <1>1, <2>1, <2>2
<1>8. ASSUME NEW r \in Regs, PatchBegin(c, r) \/ RevokeBegin(c, r)
      PROVE  Goal
  <2>1. \E pc \in {"patch", "revoke"} : \E sr : Start(c, pc, r, NoPay, "UNREAD", sr, NoPay)
    BY <1>8 DEF PatchBegin, RevokeBegin
  <2> QED BY <1>1, <2>1, CoreAssumption
<1>9. Goal
  BY <1>2, <1>3, <1>4, <1>5, <1>6, <1>7, <1>8 DEF Begins
<1> QED BY <1>9 DEF Goal

LEMMA PaidBegins ==
    ASSUME PaidInv, MoneyStays, [Next]_vars, NEW c \in Reqs, Begins(c)
    PROVE  RowsOK(c)' /\ KnowsMoney(c)'
<1> DEFINE r == req'[c].r
           p == req'[c].p
<1>0. OwnInv /\ TypeOK
  BY DEF PaidInv, OwnInv
<1>1. /\ UNCHANGED <<regStatus, payStatus>>
      /\ \A d \in Reqs \ {c} : req'[d] = req[d]
      /\ r \in Regs /\ req'[c].pc \notin Applying
      /\ req'[c].seenReg \in {"UNREAD", regStatus[r]}
      /\ req'[c].pc = "cancel" => regStatus[r] = "PENDING"
      /\ req'[c].pc = "revoke" => req'[c].seenReg = "CONFIRMED"
      /\ req'[c].pc = "patch" => req'[c].seenReg # "CANCELLED"
  BY <1>0, BeginsFrame DEF MoneyStays
<1>2. /\ p \in Pays => req'[c].seenPay \in {"UNREAD", payStatus[p]}
      /\ p \in Pays => RegOf[p] = r
      /\ p \notin Pays =>
           req'[c].pc \in {"cancel", "patch", "revoke"} /\ req'[c].seenPay = "UNREAD"
      /\ req'[c].pc \in {"sibling", "lockPay", "recoverPay"} => payStatus[p] # "ABSENT"
      /\ req'[c].pc \in {"order", "offline"} => payStatus[p] = "ABSENT"
      /\ req'[c].pc \in {"order", "offline", "cancel"} => regLock'[r] = c
  BY <1>0, BeginsKnows
<1> HIDE DEF r, p
<1>4. RowsOK(c)'
  BY <1>1, <1>2 DEF RowsOK, Reserved, UsesRow, r, p
<1>5. RemembersPaid(c)' => Paid(r)
  <2>1. CASE req'[c].seenPay = "PAID"
    BY <1>2, <2>1 DEF Paid, ReqPays
  <2>2. CASE req'[c].seenReg = "CONFIRMED"
    BY <1>1, <2>2 DEF PaidInv, MoneyBacked, Paid
  <2> QED BY <1>1, <2>1, <2>2 DEF RemembersPaid, r
<1>6. ASSUME req'[c].pc = "cancel", req'[c].seenPay = "CREATED"
      PROVE  Spares(c)'
  <2>1. p \in Pays /\ payStatus[p] = "CREATED"
    BY <1>2, <1>6
  <2>2. CASE Paid(r)
    BY <1>1, <2>1, <2>2 DEF Spares, Paid, ReqPays, r, p
  <2>3. CASE ~ Paid(r)
    <3>1. ASSUME NEW d \in Reqs, req'[d].r = r, req'[d].seenReg = "CANCELLED"
          PROVE  FALSE
      <4>1. d # c /\ req'[d] = req[d]
        BY <1>1, <1>6, <3>1
      <4>2. RemembersPaid(d)
        BY <1>1, <1>6, <3>1, <4>1 DEF RemembersPaid
      <4> QED BY <2>3, <3>1, <4>1, <4>2 DEF PaidInv, KnowsMoney
    <3> QED BY <1>1, <2>1, <3>1 DEF Spares, Payable, r, p
  <2> QED BY <2>2, <2>3
<1>7. Paid(r) => Paid(req[c].r)'
  BY <1>1 DEF Paid, ReqPays, r
<1> QED BY <1>1, <1>4, <1>5, <1>6, <1>7 DEF KnowsMoney, r

\* A confirmation is made for a registration that has paid.
LEMMA BackedStep ==
    ASSUME PaidInv, [Next]_vars
    PROVE  MoneyBacked'
<1>1. OwnInv /\ TypeOK
  BY DEF PaidInv, OwnInv
<1>2. ASSUME NEW r \in Regs, regStatus'[r] = "CONFIRMED"
      PROVE  Paid(r)'
  <2>1. CASE regStatus[r] = "CONFIRMED"
    <3>1. Paid(r)
      BY <2>1 DEF PaidInv, MoneyBacked, Paid
    <3> QED BY <3>1, PaidStays
  <2>2. CASE regStatus[r] # "CONFIRMED"
    <3>1. PICK c \in Reqs :
             /\ \/ ApplyCommit(c)
                \/ OfflineCommit(c) /\ payStatus' = [payStatus EXCEPT ![req[c].p] = "PAID"]
             /\ req[c].r = r
      BY <1>1, <1>2, <2>2, ConfirmedBy
    <3>2. req[c].p \in Pays /\ RegOf[req[c].p] = r
      BY <1>1, <3>1, RequestPayment DEF ApplyCommit, OfflineCommit
    <3>3. CASE ApplyCommit(c) /\ ~ req[c].newly
      <4>1. RemembersPaid(c)
        BY <3>3 DEF ApplyCommit, RemembersPaid, Applying
      <4>2. Paid(r)
        BY <3>1, <4>1 DEF PaidInv, KnowsMoney
      <4> QED BY <4>2, PaidStays
    <3>4. CASE payStatus' = [payStatus EXCEPT ![req[c].p] = "PAID"]
      <4>1. payStatus'[req[c].p] = "PAID"
        BY <1>1, <3>2, <3>4 DEF TypeOK
      <4> QED BY <3>2, <4>1 DEF Paid, ReqPays
    <3> QED BY <3>1, <3>3, <3>4 DEF ApplyCommit
  <2> QED BY <2>1, <2>2
<1> QED BY <1>2 DEF MoneyBacked, Paid, ReqPays

LEMMA PaidStep ==
    ASSUME PaidInv, MoneyStays, [Next]_vars
    PROVE  PaidInv'
<1>1. OwnInv /\ TypeOK /\ OwnInv' /\ NoRefunds' /\ MoneyBacked'
  BY OwnStep, RefundsStep, BackedStep DEF PaidInv, OwnInv, MoneyStays
<1> DEFINE Good(c) == RowsOK(c) /\ KnowsMoney(c)
<1>2. ASSUME NEW c \in Reqs, \A d \in Reqs \ {c} : req'[d] = req[d], Good(c)'
      PROVE  \A d \in Reqs : Good(d)'
  BY <1>2, PaidOther
<1> HIDE DEF Good
<1>3. ASSUME NEW c \in Reqs, req' = [req EXCEPT ![c] = Idle]
      PROVE  \A d \in Reqs : Good(d)'
  <2>1. req'[c] = Idle /\ \A d \in Reqs \ {c} : req'[d] = req[d]
    BY <1>1, <1>3 DEF TypeOK
  <2> QED BY <1>2, <2>1, PaidIdle DEF Good
<1>4. ASSUME NEW c \in Reqs, Handles(c)
      PROVE  \A d \in Reqs : Good(d)'
  BY <1>1, <1>2, <1>4, HandlesFrame, PaidHandles DEF Good
<1>5. ASSUME NEW c \in Reqs, Begins(c)
      PROVE  \A d \in Reqs : Good(d)'
  BY <1>1, <1>2, <1>5, BeginsFrame, PaidBegins DEF Good
<1>6. ASSUME NEW c \in Reqs, OfflineCommit(c), Step(c, "fulfil")
      PROVE  \A d \in Reqs : Good(d)'
  <2>1. /\ \A d \in Reqs \ {c} : req'[d] = req[d]
        /\ req'[c].pc = "fulfil" /\ req'[c].r = req[c].r
    BY <1>1, <1>6, StepFrame
  <2>2. req[c].r \in Regs /\ req[c].p \in Pays /\ RegOf[req[c].p] = req[c].r
    BY <1>1, <1>6, RequestPayment DEF OfflineCommit
  <2>3. payStatus'[req[c].p] = "PAID"
    <3>1. Idle.pc = "idle" /\ req[c].pc = "offline"
      BY <1>6 DEF Idle, OfflineCommit
    <3>2. payStatus' = [payStatus EXCEPT ![req[c].p] = "PAID"]
      BY <1>1, <1>6, <2>1, <3>1 DEF OfflineCommit, TypeOK
    <3> QED BY <1>1, <2>2, <3>2 DEF TypeOK
  <2>4. Paid(req[c].r)'
    BY <2>1, <2>2, <2>3 DEF Paid, ReqPays
  <2>5. Good(c)'
    BY <2>1, <2>4 DEF Good, RowsOK, Reserved, UsesRow, KnowsMoney, Applying
  <2> QED BY <1>2, <2>1, <2>5
<1>7. ASSUME NEW c \in Reqs, \/ ApplyCommit(c) \/ CreateOrderCommit(c) \/ OfflineCommit(c)
                             \/ CancelCommit(c) \/ RefundCommit(c) \/ Revises(c)
      PROVE  \A d \in Reqs : Good(d)'
  <2>1. \/ OfflineCommit(c) /\ Step(c, "fulfil")
        \/ req' = [req EXCEPT ![c] = Idle]
    BY <1>7, <1>1, RevisesFrame
    DEF ApplyCommit, CreateOrderCommit, OfflineCommit, CancelCommit, RefundCommit, Finish
  <2> QED BY <1>3, <1>6, <2>1
<1>8. ASSUME req' = req
      PROVE  \A d \in Reqs : Good(d)'
  BY <1>8, PaidOther DEF Good
<1>9. \A d \in Reqs : Good(d)'
  <2>1. CASE \/ \E p \in Pays : ProviderCapture(p) \/ FailPayment(p)
             \/ \E r \in Regs : OfflineAgain(r) \/ AdminCancel(r)
             \/ UNCHANGED vars
    BY <1>8, <2>1 DEF ProviderCapture, FailPayment, OfflineAgain, AdminCancel, vars
  <2> QED BY <1>4, <1>5, <1>7, <2>1, StepCases
<1> QED BY <1>1, <1>9 DEF PaidInv, Good

LEMMA PaidInit == Init => PaidInv
<1> SUFFICES ASSUME Init PROVE PaidInv
  OBVIOUS
<1>1. OwnInv
  BY OwnInit
<1>2. ASSUME NEW c \in Reqs PROVE RowsOK(c) /\ KnowsMoney(c)
  BY DEF Init, Idle, RowsOK, Reserved, UsesRow, KnowsMoney, RemembersPaid, Applying
<1>3. NoRefunds /\ MoneyBacked
  BY DEF Init, Idle, NoRefunds, MoneyBacked
<1> QED BY <1>1, <1>2, <1>3 DEF PaidInv

\* Whoever is CONFIRMED has paid, revoked, cancelled and confirmed again or not:
\* what a confirmation goes by is a payment of the registration, settled by the
\* same transaction or before.
THEOREM ConfirmedHasPaid ==
    ASSUME MoneyStays
    PROVE  Spec => []MoneyBacked
<1>1. PaidInv /\ [Next]_vars => PaidInv'
  BY PaidStep
<1>2. PaidInv => MoneyBacked
  BY DEF PaidInv
<1> QED BY <1>1, <1>2, PaidInit, PTL DEF Spec

-----------------------------------------------------------------------------
(* One open attempt per registration, where nothing is put back to PENDING. *)

\* An open attempt is the one the registration points to, or the registration
\* points to settled money.
PointerLeads ==
    \A p \in Pays : payStatus[p] = "CREATED" =>
        \/ regPtr[RegOf[p]] = p
        \/ regPtr[RegOf[p]] \in Pays /\ payStatus[regPtr[RegOf[p]]] \in Settled

\* A registration with settled money is not waiting for payment.
SettledDecided ==
    \A p \in Pays : payStatus[p] \in Settled => regStatus[RegOf[p]] # "PENDING"

\* A new order is made for a registration without an open attempt, and the one
\* that a cancellation does not know of does not exist.
KnowsAttempts(c) ==
    \A p \in Pays : RegOf[p] = req[c].r /\ payStatus[p] = "CREATED" =>
        /\ req[c].pc # "order"
        /\ req[c].pc = "cancel" => p = req[c].p /\ req[c].seenPay = "CREATED"

AttemptsInv ==
    /\ MoneyInv /\ OneOpenAttempt /\ PointerLeads /\ SettledDecided
    /\ \A c \in Reqs : KnowsAttempts(c)

\* A step that opens no attempt leaves what requests know of them.
LEMMA AttemptsOther ==
    ASSUME NEW d \in Reqs, KnowsAttempts(d), req'[d] = req[d],
           \A p \in Pays : RegOf[p] = req[d].r /\ payStatus'[p] = "CREATED"
                             => payStatus[p] = "CREATED"
    PROVE  KnowsAttempts(d)'
BY DEF KnowsAttempts

\* Nor does it open a second one.
LEMMA NoSecondAttempt ==
    ASSUME OneOpenAttempt,
           \A p \in Pays : payStatus'[p] = "CREATED" => payStatus[p] = "CREATED"
    PROVE  OneOpenAttempt'
BY DEF OneOpenAttempt

\* The pointer of an open attempt's registration moves to settled money or
\* stays.
LEMMA PointerStays ==
    ASSUME MoneyInv, PointerLeads, [Next]_vars,
           \A p \in Pays : payStatus'[p] = "CREATED" =>
             /\ payStatus[p] = "CREATED"
             /\ \/ regPtr'[RegOf[p]] = regPtr[RegOf[p]]
                \/ regPtr'[RegOf[p]] \in Pays /\ payStatus'[regPtr'[RegOf[p]]] \in Settled
    PROVE  PointerLeads'
<1> SUFFICES ASSUME NEW p \in Pays, payStatus'[p] = "CREATED"
             PROVE  \/ regPtr'[RegOf[p]] = p
                    \/ regPtr'[RegOf[p]] \in Pays /\ payStatus'[regPtr'[RegOf[p]]] \in Settled
  BY DEF PointerLeads
<1>1. \/ regPtr[RegOf[p]] = p
      \/ regPtr[RegOf[p]] \in Pays /\ payStatus[regPtr[RegOf[p]]] \in Settled
  BY DEF PointerLeads
<1>2. CASE regPtr'[RegOf[p]] = regPtr[RegOf[p]]
  BY <1>1, <1>2, PaymentsGrow DEF MoneyInv
<1>3. CASE regPtr'[RegOf[p]] \in Pays /\ payStatus'[regPtr'[RegOf[p]]] \in Settled
  BY <1>3
<1> QED BY <1>2, <1>3

\* A refund takes what was paid.
LEMMA RefundedWasPaid ==
    ASSUME OwnInv, [Next]_vars, NEW p \in Pays, payStatus'[p] = "REFUNDED"
    PROVE  payStatus[p] \in Settled
<1>1. ASSUME NEW c \in Reqs, \/ ApplyCommit(c) \/ CreateOrderCommit(c)
                             \/ OfflineCommit(c) \/ CancelCommit(c) \/ Revises(c)
      PROVE  payStatus[p] = "REFUNDED"
  BY <1>1, RevisesFrame
  DEF ApplyCommit, CreateOrderCommit, OfflineCommit, CancelCommit, OwnInv, TypeOK
<1>2. ASSUME NEW c \in Reqs, RefundCommit(c)
      PROVE  payStatus[p] \in Settled
  BY <1>2 DEF RefundCommit, Settled, OwnInv, TypeOK
<1>3. ASSUME NEW c \in Reqs, Handles(c) \/ Begins(c)
      PROVE  payStatus[p] = "REFUNDED"
  BY <1>3, HandlesFrame, BeginsFrame
<1>4. ASSUME NEW q \in Pays, FailPayment(q)
      PROVE  payStatus[p] = "REFUNDED"
  BY <1>4 DEF FailPayment, OwnInv, TypeOK
<1>5. ASSUME \/ \E q \in Pays : ProviderCapture(q)
             \/ \E r \in Regs : OfflineAgain(r) \/ AdminCancel(r)
             \/ UNCHANGED vars
      PROVE  payStatus[p] = "REFUNDED"
  BY <1>5 DEF ProviderCapture, OfflineAgain, AdminCancel, vars, payVars
<1> QED BY <1>1, <1>2, <1>3, <1>4, <1>5, StepCases DEF Settled

\* Unless it is put back, a registration never waits for payment again.
LEMMA StaysDecided ==
    ASSUME SettleInv, [Next]_vars, NEW r \in Regs, regStatus[r] # "PENDING"
    PROVE  regStatus'[r] # "PENDING"
<1>0. OwnInv /\ TypeOK
  BY DEF SettleInv, OwnInv
<1>1. ASSUME NEW c \in Reqs, ApplyCommit(c)
      PROVE  regStatus'[r] # "PENDING"
  <2>1. regStatus' = [regStatus EXCEPT ![req[c].r] = ConfirmedStatus(req[c].seenReg, req[c].r)]
    BY <1>1 DEF ApplyCommit
  <2>2. CASE req[c].r = r
    BY <1>0, <2>1, <2>2 DEF ConfirmedStatus, TypeOK
  <2>3. CASE req[c].r # r
    BY <1>0, <2>1, <2>3 DEF TypeOK
  <2> QED BY <2>2, <2>3
<1>2. ASSUME NEW c \in Reqs, \/ CreateOrderCommit(c) \/ OfflineCommit(c)
                             \/ CancelCommit(c) \/ RefundCommit(c)
      PROVE  regStatus'[r] # "PENDING"
  BY <1>0, <1>2 DEF CreateOrderCommit, OfflineCommit, CancelCommit, RefundCommit, TypeOK
<1>3. ASSUME NEW c \in Reqs, Handles(c) \/ Begins(c)
      PROVE  regStatus'[r] # "PENDING"
  BY <1>0, <1>3, HandlesFrame, BeginsFrame
<1>4. ASSUME \/ \E p \in Pays : ProviderCapture(p) \/ FailPayment(p)
             \/ \E x \in Regs : OfflineAgain(x) \/ AdminCancel(x)
             \/ UNCHANGED vars
      PROVE  regStatus'[r] # "PENDING"
  BY <1>0, <1>4 DEF ProviderCapture, FailPayment, OfflineAgain, AdminCancel, vars, regVars,
              TypeOK
<1>5. ASSUME NEW c \in Reqs, Revises(c)
      PROVE  regStatus'[r] # "PENDING"
  <2>1. req[c].pc # "revoke" /\ req[c].seenReg # "CANCELLED"
    BY <1>0, <1>5, RevisesFrame DEF SettleInv, RequestOK, PutsNothingBack
  <2>2. regStatus' = [regStatus EXCEPT ![req[c].r] = "CANCELLED"]
    BY <1>0, <1>5, <2>1, RevisesFrame
  <2> QED BY <1>0, <2>2 DEF TypeOK
<1> QED BY <1>1, <1>2, <1>3, <1>4, <1>5, StepCases

\* Whoever pays decides the registration.
LEMMA DecidedStep ==
    ASSUME MoneyInv, SettledDecided, NeverReopened, [Next]_vars
    PROVE  SettledDecided'
<1>0. /\ SettleInv /\ OwnInv /\ \A p \in Pays : RegOf[p] \in Regs
      /\ PaidImpliesSettled'
  BY SettleStep, CoreAssumption DEF MoneyInv, SettleInv
<1>1. ASSUME NEW p \in Pays, payStatus'[p] = "REFUNDED"
      PROVE  regStatus'[RegOf[p]] # "PENDING"
  <2>1. payStatus[p] \in Settled
    BY <1>0, <1>1, RefundedWasPaid
  <2>2. regStatus[RegOf[p]] # "PENDING"
    BY <2>1 DEF SettledDecided
  <2> QED BY <1>0, <2>2, StaysDecided
<1> QED BY <1>0, <1>1 DEF SettledDecided, PaidImpliesSettled, Settled

\* Steps other than the commit of a new order open no attempt.
LEMMA AttemptsQuiet ==
    ASSUME AttemptsInv, [Next]_vars, NEW c \in Reqs,
           \A p \in Pays : payStatus'[p] = "CREATED" =>
             /\ payStatus[p] = "CREATED"
             /\ \/ regPtr'[RegOf[p]] = regPtr[RegOf[p]]
                \/ regPtr'[RegOf[p]] \in Pays /\ payStatus'[regPtr'[RegOf[p]]] \in Settled,
           \A d \in Reqs \ {c} : req'[d] = req[d],
           KnowsAttempts(c)'
    PROVE  OneOpenAttempt' /\ PointerLeads' /\ \A d \in Reqs : KnowsAttempts(d)'
<1>1. OneOpenAttempt' /\ PointerLeads'
  BY NoSecondAttempt, PointerStays DEF AttemptsInv
<1>2. \A d \in Reqs \ {c} : KnowsAttempts(d)'
  BY AttemptsOther DEF AttemptsInv
<1> QED BY <1>1, <1>2

\* A request that is not making an order or cancelling knows enough.
LEMMA AttemptsFree ==
    ASSUME NEW c \in Reqs, req'[c].pc \notin {"order", "cancel"}
    PROVE  KnowsAttempts(c)'
BY DEF KnowsAttempts

LEMMA AttemptsFinish ==
    ASSUME OwnInv, NEW c \in Reqs, Finish(c)
    PROVE  KnowsAttempts(c)' /\ \A d \in Reqs \ {c} : req'[d] = req[d]
BY DEF KnowsAttempts, Finish, Idle, OwnInv, TypeOK

\* An order or a cancellation begins with the row that the pointer leads to.
LEMMA AttemptsBegin ==
    ASSUME AttemptsInv, NEW c \in Reqs, Begins(c)
    PROVE  KnowsAttempts(c)'
<1> DEFINE r == req'[c].r
           ptr == regPtr[r]
<1>1. /\ payStatus' = payStatus /\ r \in Regs /\ ptr \in Pays \cup {NoPay}
      /\ req'[c].pc = "order" => NeedsOrder(r)
      /\ req'[c].pc = "cancel" =>
           /\ req'[c].p = ptr
           /\ ptr # NoPay => req'[c].seenPay = payStatus[ptr] /\ payStatus[ptr] # "PAID"
           /\ regStatus[r] = "PENDING"
  BY BeginsFrame DEF AttemptsInv, MoneyInv, SettleInv, OwnInv, TypeOK
<1>2. ptr \in Pays => RegOf[ptr] = r
  BY <1>1, CoreAssumption DEF AttemptsInv, MoneyInv, SettleInv, OwnInv, PointersAreOwn
<1> HIDE DEF r, ptr
<1>3. ASSUME NEW p \in Pays, RegOf[p] = r, payStatus[p] = "CREATED"
      PROVE  ptr = p \/ (ptr \in Pays /\ payStatus[ptr] \in Settled)
  BY <1>3 DEF AttemptsInv, PointerLeads, ptr
<1>4. ASSUME NEW p \in Pays, RegOf[p] = r, payStatus[p] = "CREATED", req'[c].pc = "order"
      PROVE  FALSE
  BY <1>1, <1>3, <1>4, CoreAssumption DEF NeedsOrder, Settled, ptr
<1>5. ASSUME NEW p \in Pays, RegOf[p] = r, payStatus[p] = "CREATED", req'[c].pc = "cancel"
      PROVE  p = req'[c].p /\ req'[c].seenPay = "CREATED"
  <2>1. ~ (ptr \in Pays /\ payStatus[ptr] \in Settled)
    BY <1>1, <1>2, <1>5 DEF AttemptsInv, SettledDecided
  <2> QED BY <1>1, <1>3, <1>5, <2>1, CoreAssumption
<1> QED BY <1>1, <1>4, <1>5 DEF KnowsAttempts, r

\* The registration's row lock keeps every other order and cancellation out.
LEMMA OrderIsAlone ==
    ASSUME SettleInv, NEW c \in Reqs, NEW d \in Reqs \ {c},
           req[c].pc = "order", req[d].pc \in {"order", "cancel"}
    PROVE  req[d].r # req[c].r
BY DEF SettleInv, RequestOK, HoldsLocks

LEMMA AttemptsCreate ==
    ASSUME AttemptsInv, NEW c \in Reqs, CreateOrderCommit(c)
    PROVE  OneOpenAttempt' /\ PointerLeads' /\ \A d \in Reqs : KnowsAttempts(d)'
<1> DEFINE p == req[c].p
           r == req[c].r
<1>0. SettleInv /\ OwnInv /\ TypeOK
  BY DEF AttemptsInv, MoneyInv, SettleInv, OwnInv
<1>1. p \in Pays /\ r \in Regs /\ RegOf[p] = r /\ req[c].pc = "order"
  BY <1>0, RequestPayment DEF CreateOrderCommit
<1>2. /\ payStatus' = [payStatus EXCEPT ![p] = "CREATED"]
      /\ regPtr' = [regPtr EXCEPT ![r] = p] /\ Finish(c)
  BY DEF CreateOrderCommit
<1>3. \A q \in Pays : RegOf[q] = r => payStatus[q] # "CREATED"
  BY <1>1 DEF AttemptsInv, KnowsAttempts
<1> HIDE DEF p, r
<1>4. \A q \in Pays : payStatus'[q] = "CREATED" <=> q = p \/ payStatus[q] = "CREATED"
  BY <1>0, <1>1, <1>2 DEF TypeOK
<1>5. OneOpenAttempt'
  BY <1>1, <1>3, <1>4 DEF OneOpenAttempt, AttemptsInv
<1>6. PointerLeads'
  <2> SUFFICES ASSUME NEW q \in Pays, payStatus'[q] = "CREATED"
               PROVE  \/ regPtr'[RegOf[q]] = q
                      \/ regPtr'[RegOf[q]] \in Pays /\ payStatus'[regPtr'[RegOf[q]]] \in Settled
    BY DEF PointerLeads
  <2>1. CASE q = p
    BY <1>0, <1>1, <1>2, <2>1 DEF TypeOK
  <2>2. CASE q # p
    <3>1. payStatus[q] = "CREATED" /\ RegOf[q] # r /\ RegOf[q] \in Regs
      BY <1>1, <1>3, <1>4, <2>2, CoreAssumption
    <3>2. regPtr'[RegOf[q]] = regPtr[RegOf[q]]
      BY <1>0, <1>1, <1>2, <3>1 DEF TypeOK
    <3>3. \/ regPtr[RegOf[q]] = q
          \/ regPtr[RegOf[q]] \in Pays /\ payStatus[regPtr[RegOf[q]]] \in Settled
      BY <3>1 DEF AttemptsInv, PointerLeads
    <3>4. CASE regPtr[RegOf[q]] \in Pays /\ payStatus[regPtr[RegOf[q]]] \in Settled
      <4>1. RegOf[regPtr[RegOf[q]]] = RegOf[q]
        BY <1>0, <3>1, <3>4, CoreAssumption DEF OwnInv, PointersAreOwn
      <4>2. regPtr[RegOf[q]] # p
        BY <1>1, <3>1, <4>1
      <4> QED BY <1>0, <1>2, <3>2, <3>4, <4>2 DEF TypeOK
    <3> QED BY <3>2, <3>3, <3>4
  <2> QED BY <2>1, <2>2
<1>7. KnowsAttempts(c)' /\ \A d \in Reqs \ {c} : req'[d] = req[d]
  BY <1>0, <1>2, AttemptsFinish
<1>8. ASSUME NEW d \in Reqs \ {c}
      PROVE  KnowsAttempts(d)'
  <2>1. CASE req[d].pc \notin {"order", "cancel"}
    BY <1>7, <2>1, AttemptsFree
  <2>2. CASE req[d].pc \in {"order", "cancel"}
    <3>1. req[d].r # r
      BY <1>0, <1>1, <2>2, OrderIsAlone DEF r
    <3>2. \A q \in Pays : RegOf[q] = req[d].r /\ payStatus'[q] = "CREATED"
                            => payStatus[q] = "CREATED"
      BY <1>1, <1>4, <3>1
    <3> QED BY <1>7, <3>2, AttemptsOther DEF AttemptsInv
  <2> QED BY <2>1, <2>2
<1> QED BY <1>5, <1>6, <1>7, <1>8

\* A confirmation points the registration to settled money.
LEMMA AttemptsApply ==
    ASSUME AttemptsInv, [Next]_vars, NEW c \in Reqs, ApplyCommit(c)
    PROVE  OneOpenAttempt' /\ PointerLeads' /\ \A d \in Reqs : KnowsAttempts(d)'
<1> DEFINE p == req[c].p
           r == req[c].r
<1>0. SettleInv /\ OwnInv /\ TypeOK /\ MoneyMemory(c)
  BY DEF AttemptsInv, MoneyInv, SettleInv, OwnInv
<1>1. p \in Pays /\ r \in Regs /\ req[c].pc = "commit" /\ Finish(c)
  BY <1>0, RequestPayment DEF ApplyCommit
<1>2. \/ payStatus' = [payStatus EXCEPT ![p] = "PAID"]
      \/ payStatus' = payStatus /\ payStatus[p] \in Settled
  BY <1>0, <1>1 DEF ApplyCommit, MoneyMemory, Applying
<1>3. regPtr' = regPtr \/ regPtr' = [regPtr EXCEPT ![r] = p]
  BY DEF ApplyCommit
<1> HIDE DEF p, r
<1>4. payStatus'[p] \in Settled
  BY <1>0, <1>1, <1>2 DEF Settled, TypeOK
<1>5. ASSUME NEW q \in Pays, payStatus'[q] = "CREATED"
      PROVE  /\ payStatus[q] = "CREATED"
             /\ \/ regPtr'[RegOf[q]] = regPtr[RegOf[q]]
                \/ regPtr'[RegOf[q]] \in Pays /\ payStatus'[regPtr'[RegOf[q]]] \in Settled
  <2>1. payStatus[q] = "CREATED"
    BY <1>0, <1>1, <1>2, <1>5 DEF TypeOK
  <2>2. regPtr'[RegOf[q]] = regPtr[RegOf[q]] \/ regPtr'[RegOf[q]] = p
    BY <1>0, <1>1, <1>3, CoreAssumption DEF TypeOK
  <2> QED BY <1>1, <1>4, <2>1, <2>2
<1> QED BY <1>0, <1>1, <1>5, AttemptsFinish, AttemptsQuiet

LEMMA AttemptsOffline ==
    ASSUME AttemptsInv, [Next]_vars, NEW c \in Reqs, OfflineCommit(c)
    PROVE  OneOpenAttempt' /\ PointerLeads' /\ \A d \in Reqs : KnowsAttempts(d)'
<1> DEFINE p == req[c].p
           r == req[c].r
<1>0. SettleInv /\ OwnInv /\ TypeOK
  BY DEF AttemptsInv, MoneyInv, SettleInv, OwnInv
<1>1. p \in Pays /\ r \in Regs
  BY <1>0, RequestPayment DEF OfflineCommit
<1>2. \/ /\ payStatus' = [payStatus EXCEPT ![p] = "PAID"]
         /\ regPtr' = [regPtr EXCEPT ![r] = p] /\ Step(c, "fulfil")
      \/ UNCHANGED <<payStatus, regPtr>> /\ Finish(c)
  BY DEF OfflineCommit, Finish
<1> HIDE DEF p, r
<1>3. KnowsAttempts(c)' /\ \A d \in Reqs \ {c} : req'[d] = req[d]
  <2>1. CASE Step(c, "fulfil")
    <3>1. req'[c].pc = "fulfil" /\ \A d \in Reqs \ {c} : req'[d] = req[d]
      BY <1>0, <2>1, StepFrame
    <3>2. KnowsAttempts(c)'
      BY <3>1 DEF KnowsAttempts
    <3> QED BY <3>1, <3>2
  <2>2. CASE Finish(c)
    BY <1>0, <2>2, AttemptsFinish
  <2> QED BY <1>2, <2>1, <2>2
<1>4. ASSUME NEW q \in Pays, payStatus'[q] = "CREATED"
      PROVE  /\ payStatus[q] = "CREATED"
             /\ \/ regPtr'[RegOf[q]] = regPtr[RegOf[q]]
                \/ regPtr'[RegOf[q]] \in Pays /\ payStatus'[regPtr'[RegOf[q]]] \in Settled
  BY <1>0, <1>1, <1>2, <1>4, CoreAssumption DEF TypeOK, Settled
<1> QED BY <1>3, <1>4, AttemptsQuiet

\* A cancellation fails the open attempt, so the pointer may go.
LEMMA AttemptsCancel ==
    ASSUME AttemptsInv, [Next]_vars, NEW c \in Reqs, CancelCommit(c)
    PROVE  OneOpenAttempt' /\ PointerLeads' /\ \A d \in Reqs : KnowsAttempts(d)'
<1> DEFINE p == req[c].p
           r == req[c].r
           fails == req[c].seenPay = "CREATED"
<1>0. SettleInv /\ OwnInv /\ TypeOK /\ KnowsAttempts(c) /\ OwnPayment(c)
  BY DEF AttemptsInv, MoneyInv, SettleInv, OwnInv
<1>1. r \in Regs /\ req[c].pc = "cancel" /\ Finish(c) /\ (fails => p \in Pays)
  BY <1>0, RequestFields DEF CancelCommit, TypeOK, OwnPayment
<1>2. /\ payStatus' = IF fails THEN [payStatus EXCEPT ![p] = "FAILED"] ELSE payStatus
      /\ regPtr' = [regPtr EXCEPT ![r] = NoPay]
  BY DEF CancelCommit
<1>3. \A q \in Pays : RegOf[q] = r /\ payStatus[q] = "CREATED" => q = p /\ fails
  BY <1>0, <1>1 DEF KnowsAttempts
<1> HIDE DEF p, r, fails
<1>4. ASSUME NEW q \in Pays, payStatus'[q] = "CREATED"
      PROVE  /\ payStatus[q] = "CREATED"
             /\ regPtr'[RegOf[q]] = regPtr[RegOf[q]]
  <2>1. payStatus[q] = "CREATED" /\ (fails => q # p)
    BY <1>0, <1>1, <1>2, <1>4 DEF TypeOK
  <2>2. RegOf[q] # r
    BY <1>3, <2>1
  <2> QED BY <1>0, <1>2, <2>1, <2>2, CoreAssumption DEF TypeOK
<1> QED BY <1>0, <1>1, <1>4, AttemptsFinish, AttemptsQuiet

LEMMA AttemptsStep ==
    ASSUME AttemptsInv, NeverReopened, [Next]_vars
    PROVE  AttemptsInv'
<1> DEFINE Goal == OneOpenAttempt' /\ PointerLeads' /\ \A d \in Reqs : KnowsAttempts(d)'
           Kept == \A p \in Pays : payStatus'[p] = "CREATED" =>
                     payStatus[p] = "CREATED" /\ regPtr'[RegOf[p]] = regPtr[RegOf[p]]
<1>0. MoneyInv /\ SettleInv /\ OwnInv /\ TypeOK
  BY DEF AttemptsInv, MoneyInv, SettleInv, OwnInv
<1>1. MoneyInv' /\ SettledDecided'
  BY MemoryStep, SettleStep, DecidedStep DEF MoneyInv, AttemptsInv
<1>2. ASSUME NEW c \in Reqs, Handles(c) PROVE Goal
  <2>1. KnowsAttempts(c)'
    BY <1>0, <1>2, HandlesRemembers, AttemptsFinish, AttemptsFree DEF Applying
  <2> QED BY <1>0, <1>2, <2>1, HandlesFrame, AttemptsQuiet
<1>3. ASSUME NEW c \in Reqs, Begins(c) PROVE Goal
  BY <1>0, <1>3, AttemptsBegin, BeginsFrame, AttemptsQuiet
<1>4. ASSUME NEW c \in Reqs, RefundCommit(c) \/ Revises(c) PROVE Goal
  <2>1. Finish(c) /\ Kept
    BY <1>0, <1>4, RevisesFrame DEF RefundCommit, TypeOK
  <2> QED BY <1>0, <2>1, AttemptsFinish, AttemptsQuiet
<1>5. ASSUME req' = req, Kept PROVE Goal
  <2>1. OneOpenAttempt' /\ PointerLeads'
    BY <1>0, <1>5, NoSecondAttempt, PointerStays DEF AttemptsInv
  <2>2. \A d \in Reqs : KnowsAttempts(d)'
    BY <1>5, AttemptsOther DEF AttemptsInv
  <2> QED BY <2>1, <2>2
<1>6. ASSUME \/ \E p \in Pays : ProviderCapture(p) \/ FailPayment(p)
             \/ \E r \in Regs : OfflineAgain(r) \/ AdminCancel(r)
             \/ UNCHANGED vars
      PROVE  Goal
  <2>1. req' = req /\ Kept
    BY <1>0, <1>6
    DEF ProviderCapture, FailPayment, OfflineAgain, AdminCancel, vars, regVars, payVars,
        TypeOK
  <2> HIDE DEF Goal, Kept
  <2> QED BY <1>5, <2>1
<1> HIDE DEF Goal
<1>7. ASSUME NEW c \in Reqs, \/ ApplyCommit(c) \/ CreateOrderCommit(c)
                             \/ OfflineCommit(c) \/ CancelCommit(c)
      PROVE  Goal
  BY <1>7, AttemptsApply, AttemptsCreate, AttemptsOffline, AttemptsCancel DEF Goal
<1>8. Goal
  BY <1>2, <1>3, <1>4, <1>6, <1>7, StepCases
<1> QED BY <1>1, <1>8 DEF AttemptsInv, Goal

LEMMA AttemptsInit == Init => AttemptsInv
BY MoneyInit DEF Init, AttemptsInv, OneOpenAttempt, PointerLeads, SettledDecided, KnowsAttempts,
                 Settled

\* A registration never has two orders open at once: whoever asks again gets
\* the open one, or the registration no longer waits.
THEOREM AtMostOneOpenAttempt ==
    ASSUME NeverReopened
    PROVE  Spec => []OneOpenAttempt
<1>1. Init => AttemptsInv
  BY AttemptsInit
<1>2. AttemptsInv /\ [Next]_vars => AttemptsInv'
  BY AttemptsStep
<1>3. AttemptsInv => OneOpenAttempt
  BY DEF AttemptsInv
<1> QED BY <1>1, <1>2, <1>3, PTL DEF Spec

-----------------------------------------------------------------------------
(* The QR code of who is confirmed, where no step of a fulfilment fails.   *)

NothingFails == Fulfils = {TRUE} /\ MaxAborts = 0

\* The second transaction of an offline confirmation waits for nobody, so no
\* deadlock takes it.
LEMMA FulfilIsNoVictim ==
    ASSUME NEW c \in Reqs, req[c].pc = "fulfil"
    PROVE  ~ InDeadlock(c)
<1>1. WaitsFor(c) = {}
  BY DEF WaitsFor
<1> QED BY <1>1 DEF InDeadlock

LEMMA FulfilStays ==
    ASSUME OwnInv, NothingFails, [Next]_vars, NEW c \in Reqs, req[c].pc = "fulfil"
    PROVE  req'[c] = req[c] \/ (OfflineFulfil(c) /\ qr' = [qr EXCEPT ![req[c].r] = "active"])
<1>0. req[c].r \in Regs /\ aborts \in Nat
  BY RequestFields DEF OwnInv, TypeOK
<1>1. ASSUME NEW d \in Reqs, Handles(d)
      PROVE  req'[c] = req[c] \/ (OfflineFulfil(c) /\ qr' = [qr EXCEPT ![req[c].r] = "active"])
  <2>1. CASE d # c
    BY <1>1, <2>1, HandlesFrame
  <2>2. CASE d = c
    <3>1. OfflineFulfil(c)
      <4>1. ~ DeadlockVictim(c)
        BY FulfilIsNoVictim DEF DeadlockVictim
      <4>2. ~ Abort(c)
        BY <1>0 DEF Abort, NothingFails
      <4>3. ~ ReconcileSibling(c) /\ ~ RecoverPay(c)
        BY DEF ReconcileSibling, RecoverPay
      <4>4. ~ ApplyLock(c) /\ ~ ApplyRepoint(c) /\ ~ ApplyCapacity(c)
        BY DEF ApplyLock, ApplyRepoint, ApplyCapacity
      <4> QED BY <1>1, <2>2, <4>1, <4>2, <4>3, <4>4 DEF Handles
    <3> QED BY <3>1 DEF OfflineFulfil, Fulfil, NothingFails
  <2> QED BY <2>1, <2>2
<1>2. ASSUME NEW d \in Reqs, Begins(d)
      PROVE  req'[c] = req[c]
  <2>1. d # c
    BY <1>2
    DEF Begins, Webhook, Verify, Sync, Reconcile, RecoverBegin, RefundBegin, CreateOrderSync,
        CreateOrderNew, CancelBegin, OfflineBegin, PatchBegin, RevokeBegin, Start
  <2> QED BY <1>2, <2>1, BeginsFrame
<1>3. ASSUME NEW d \in Reqs, \/ ApplyCommit(d) \/ CreateOrderCommit(d) \/ OfflineCommit(d)
                             \/ CancelCommit(d) \/ RefundCommit(d) \/ Revises(d)
      PROVE  req'[c] = req[c]
  <2>1. d # c
    BY <1>3, RevisesFrame
    DEF ApplyCommit, CreateOrderCommit, OfflineCommit, CancelCommit, RefundCommit
  <2>2. Finish(d) \/ Step(d, "fulfil") \/ req' = [req EXCEPT ![d] = Idle]
    BY <1>3, RevisesFrame
    DEF ApplyCommit, CreateOrderCommit, OfflineCommit, CancelCommit, RefundCommit
  <2> QED BY <2>1, <2>2 DEF Finish, Step, OwnInv, TypeOK
<1>4. ASSUME \/ \E p \in Pays : ProviderCapture(p) \/ FailPayment(p)
             \/ \E r \in Regs : OfflineAgain(r) \/ AdminCancel(r)
             \/ UNCHANGED vars
      PROVE  req'[c] = req[c]
  BY <1>4 DEF ProviderCapture, FailPayment, OfflineAgain, AdminCancel, vars
<1> QED BY <1>1, <1>2, <1>3, <1>4, StepCases

\* A QR code is only deactivated together with the registration.
LEMMA CodeStays ==
    ASSUME OwnInv, NothingFails, [Next]_vars, NEW r \in Regs, qr[r] = "active",
           regStatus'[r] = "CONFIRMED"
    PROVE  qr'[r] = "active"
<1>0. qr \in [Regs -> {"none", "active", "inactive"}] /\ regStatus \in [Regs -> RegStatus]
  BY DEF OwnInv, TypeOK
<1>1. ASSUME NEW x, NEW p, Fulfil(x, p)
      PROVE  qr'[r] = "active"
  BY <1>0, <1>1 DEF Fulfil
<1>2. ASSUME NEW x \in Regs, qr' = [qr EXCEPT ![x] = IF @ = "active" THEN "inactive" ELSE @],
             regStatus'[x] # "CONFIRMED"
      PROVE  qr'[r] = "active"
  BY <1>0, <1>2
<1>3. ASSUME NEW c \in Reqs, Handles(c)
      PROVE  qr'[r] = "active"
  BY <1>1, <1>3
  DEF Handles, ReconcileSibling, ApplyLock, ApplyRepoint, ApplyCapacity, RecoverPay,
      DeadlockVictim, Abort, OfflineFulfil, regVars
<1>4. ASSUME NEW c \in Reqs, Begins(c)
      PROVE  qr'[r] = "active"
  BY <1>4
  DEF Begins, Webhook, Verify, Sync, Reconcile, RecoverBegin, RefundBegin, CreateOrderSync,
      CreateOrderNew, CancelBegin, OfflineBegin, PatchBegin, RevokeBegin, regVars
<1>5. ASSUME NEW c \in Reqs, \/ ApplyCommit(c) \/ CreateOrderCommit(c) \/ OfflineCommit(c)
                             \/ RefundCommit(c)
      PROVE  qr'[r] = "active"
  BY <1>1, <1>5 DEF ApplyCommit, CreateOrderCommit, OfflineCommit, RefundCommit
<1>6a. ASSUME NEW c \in Reqs, Revises(c)
      PROVE  qr'[r] = "active"
  <2>1. req[c].r \in Regs /\ regStatus'[req[c].r] # "CONFIRMED"
    BY <1>0, <1>6a, RevisesFrame
  <2>2. \/ qr' = qr
        \/ qr' = [qr EXCEPT ![req[c].r] = IF @ = "active" THEN "inactive" ELSE @]
    BY <1>6a DEF Revises, PatchCommit, RevokeCommit
  <2> QED BY <1>2, <2>1, <2>2
<1>6. ASSUME NEW c \in Reqs, CancelCommit(c)
      PROVE  qr'[r] = "active"
  <2>1. req[c].r \in Regs
    BY RequestFields DEF OwnInv, TypeOK
  <2>2. regStatus'[req[c].r] = "CANCELLED"
    BY <1>0, <1>6, <2>1 DEF CancelCommit
  <2> QED BY <1>2, <1>6, <2>1, <2>2 DEF CancelCommit
<1>7. ASSUME NEW x \in Regs, OfflineAgain(x) \/ AdminCancel(x)
      PROVE  qr'[r] = "active"
  BY <1>0, <1>1, <1>2, <1>7 DEF OfflineAgain, AdminCancel
<1>8. ASSUME (\E p \in Pays : ProviderCapture(p) \/ FailPayment(p)) \/ UNCHANGED vars
      PROVE  qr'[r] = "active"
  BY <1>8 DEF ProviderCapture, FailPayment, vars, regVars
<1> QED BY <1>3, <1>4, <1>5, <1>6, <1>6a, <1>7, <1>8, StepCases

LEMMA EnterStep ==
    ASSUME OwnInv, ConfirmedCanEnter, NothingFails, [Next]_vars
    PROVE  ConfirmedCanEnter'
<1> SUFFICES ASSUME NEW r \in Regs, regStatus'[r] = "CONFIRMED"
             PROVE  \/ qr'[r] = "active"
                    \/ \E c \in Reqs : req'[c].pc = "fulfil" /\ req'[c].r = r
  BY DEF ConfirmedCanEnter
<1>0. qr \in [Regs -> {"none", "active", "inactive"}] /\ req \in [Reqs -> Request]
  BY DEF OwnInv, TypeOK
<1>1. CASE qr[r] = "active"
  BY <1>1, CodeStays
<1>2. ASSUME NEW c \in Reqs, req[c].pc = "fulfil", req[c].r = r
      PROVE  qr'[r] = "active" \/ (req'[c].pc = "fulfil" /\ req'[c].r = r)
  BY <1>0, <1>2, FulfilStays
<1>3. CASE regStatus[r] = "CONFIRMED"
  BY <1>1, <1>2, <1>3 DEF ConfirmedCanEnter
<1>4. CASE regStatus[r] # "CONFIRMED"
  <2>1. PICK c \in Reqs : (ApplyCommit(c) \/ (OfflineCommit(c) /\ Step(c, "fulfil"))) /\ req[c].r = r
    BY <1>4, ConfirmedBy
  <2>2. CASE ApplyCommit(c)
    <3>1. Fulfil(r, req[c].p)
      BY <2>1, <2>2 DEF ApplyCommit
    <3>2. qr' = [qr EXCEPT ![r] = "active"]
      <4>1. PICK qrOk \in Fulfils : qr' = IF qrOk THEN [qr EXCEPT ![r] = "active"] ELSE qr
        BY <3>1 DEF Fulfil
      <4>2. qrOk
        BY DEF NothingFails
      <4> QED BY <4>1, <4>2, Zenon
    <3> QED BY <1>0, <3>2
  <2>3. CASE Step(c, "fulfil")
    <3>1. req'[c].pc = "fulfil" /\ req'[c].r = req[c].r
      BY <2>3, StepFrame
    <3> QED BY <2>1, <3>1
  <2> QED BY <2>1, <2>2, <2>3
<1> QED BY <1>3, <1>4

\* Whoever is CONFIRMED has an active QR code, or the desk is about to make it:
\* revoked and confirmed again, cancelled, reopened and paid for in between.
THEOREM ConfirmedEnters ==
    ASSUME NothingFails
    PROVE  Spec => []ConfirmedCanEnter
<1>1. Init => ConfirmedCanEnter
  BY DEF Init, ConfirmedCanEnter
<1>2. OwnInv /\ ConfirmedCanEnter /\ [Next]_vars => ConfirmedCanEnter'
  BY EnterStep
<1> QED BY <1>1, <1>2, OwnInvariant, PTL DEF Spec
=============================================================================
