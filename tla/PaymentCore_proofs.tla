------------------------- MODULE PaymentCore_proofs -------------------------
(***************************************************************************)
(* Proofs about PaymentCore for every number of registrations, payments    *)
(* and requests.                                                           *)
(***************************************************************************)
EXTENDS PaymentCore, TLAPS

\* What an idle request remembers is well typed (some registration exists).
LEMMA IdleType ==
    Idle \in Request
BY CoreAssumption DEF Idle, Request, PCs, PayStatus, RegStatus

\* The updates a request makes to what it remembers.
LEMMA RememberPcType ==
    ASSUME NEW q \in Request, NEW pc \in PCs
    PROVE  [q EXCEPT !.pc = pc] \in Request
BY DEF Request

LEMMA RememberType ==
    ASSUME NEW q \in Request, NEW pc \in PCs, NEW sr \in RegStatus \cup {"UNREAD"},
           NEW sptr \in Pays \cup {NoPay}, NEW new \in BOOLEAN
    PROVE  [q EXCEPT !.pc = pc, !.seenReg = sr, !.seenPtr = sptr, !.newly = new] \in Request
BY DEF Request

LEMMA RememberPayType ==
    ASSUME NEW q \in Request, NEW pc \in PCs, NEW seen \in PayStatus \cup {"UNREAD"}
    PROVE  [q EXCEPT !.pc = pc, !.seenPay = seen] \in Request
BY DEF Request

LEMMA RequestFields ==
    ASSUME NEW q \in Request
    PROVE  /\ q.pc \in PCs /\ q.r \in Regs /\ q.p \in Pays \cup {NoPay}
           /\ q.seenPay \in PayStatus \cup {"UNREAD"}
           /\ q.seenReg \in RegStatus \cup {"UNREAD"}
           /\ q.seenPtr \in Pays \cup {NoPay} /\ q.newly \in BOOLEAN
BY DEF Request

\* Starting a request keeps the requests' type.
LEMMA StartType ==
    ASSUME NEW c \in Reqs, NEW pc \in PCs, NEW r \in Regs, NEW p \in Pays \cup {NoPay},
           NEW sp \in PayStatus \cup {"UNREAD"}, NEW sr \in RegStatus \cup {"UNREAD"},
           NEW sptr \in Pays \cup {NoPay},
           req \in [Reqs -> Request], Start(c, pc, r, p, sp, sr, sptr)
    PROVE  req' \in [Reqs -> Request]
BY DEF Start, Request

\* Releasing the locks of a transaction keeps the locks' types.
LEMMA ReleaseType ==
    ASSUME NEW c \in Reqs, TypeOK, ReleaseLocks(c)
    PROVE  /\ regLock' \in [Regs -> Reqs \cup {NoReq}]
           /\ payLock' \in [Pays -> Reqs \cup {NoReq}]
           /\ eventLock' \in Reqs \cup {NoReq}
BY DEF ReleaseLocks, TypeOK

LEMMA FinishType ==
    ASSUME NEW c \in Reqs, TypeOK, Finish(c)
    PROVE  /\ regLock' \in [Regs -> Reqs \cup {NoReq}]
           /\ payLock' \in [Pays -> Reqs \cup {NoReq}]
           /\ eventLock' \in Reqs \cup {NoReq}
           /\ req' \in [Reqs -> Request]
<1>1. Idle \in Request
  BY IdleType
<1>2. req' \in [Reqs -> Request]
  BY <1>1 DEF Finish, TypeOK
<1> QED
  BY <1>2, ReleaseType DEF Finish
\* A fulfilment writes a QR state and a receipt, or leaves them.
LEMMA FulfilType ==
    ASSUME NEW r \in Regs, NEW p \in Pays, TypeOK, Fulfil(r, p)
    PROVE  /\ qr' \in [Regs -> {"none", "active", "inactive"}]
           /\ receipts' \in SUBSET Pays
BY DEF Fulfil, TypeOK
-----------------------------------------------------------------------------
\* Every step keeps the type invariant.
LEMMA TypeStep == OwnInv /\ [Next]_vars => TypeOK'
<1> SUFFICES ASSUME TypeOK, \A c \in Reqs : OwnPayment(c), [Next]_vars
             PROVE  TypeOK'
  BY DEF OwnInv
<1> USE CoreAssumption
<1>1. ASSUME NEW p \in Pays, ProviderCapture(p)
      PROVE  TypeOK'
  BY <1>1 DEF ProviderCapture, TypeOK, regVars, payVars, locks
<1>2. ASSUME NEW c \in Reqs, NEW p \in Pays,
             Webhook(c, p) \/ Verify(c, p) \/ Sync(c, p) \/ Reconcile(c, p)
      PROVE  TypeOK'
  <2>1. req' \in [Reqs -> Request]
    <3>1. PICK pc \in PCs, sp \in PayStatus, sr \in RegStatus \cup {"UNREAD"},
                sptr \in Pays \cup {NoPay} : Start(c, pc, RegOf[p], p, sp, sr, sptr)
      BY <1>2 DEF Webhook, Verify, Sync, Reconcile, TypeOK, PCs, PayStatus, RegStatus
    <3> QED
      BY <3>1, StartType DEF TypeOK
  <2> QED
    BY <1>2, <2>1 DEF Webhook, Verify, Sync, Reconcile, TypeOK, regVars, payVars, locks
<1>3. ASSUME NEW c \in Reqs, NEW p \in Pays, RecoverBegin(c, p)
      PROVE  TypeOK'
  <2>1. req' \in [Reqs -> Request]
    <3>1. PICK sp \in PayStatus \cup {"UNREAD"} :
              Start(c, "recoverPay", RegOf[p], p, sp, regStatus[RegOf[p]], regPtr[RegOf[p]])
      BY <1>3 DEF RecoverBegin, TypeOK
    <3>2. /\ RegOf[p] \in Regs /\ "recoverPay" \in PCs /\ req \in [Reqs -> Request]
          /\ regStatus[RegOf[p]] \in RegStatus \cup {"UNREAD"}
          /\ regPtr[RegOf[p]] \in Pays \cup {NoPay}
      BY DEF TypeOK, PCs
    <3> QED
      BY <3>1, <3>2, StartType
  <2> QED
    BY <1>3, <2>1 DEF RecoverBegin, TypeOK, regVars, payVars
<1>4. ASSUME NEW c \in Reqs, NEW p \in Pays, RefundBegin(c, p)
      PROVE  TypeOK'
  <2>1. req' \in [Reqs -> Request]
    BY <1>4, StartType DEF RefundBegin, TypeOK, PCs, PayStatus
  <2> QED
    BY <1>4, <2>1 DEF RefundBegin, TypeOK, regVars, payVars, locks
<1>5. ASSUME NEW c \in Reqs, NEW r \in Regs, NEW byId \in BOOLEAN,
             CreateOrderSync(c, r, byId)
      PROVE  TypeOK'
  <2>1. req' \in [Reqs -> Request]
    BY <1>5, StartType DEF CreateOrderSync, TypeOK, PCs, PayStatus
  <2> QED
    BY <1>5, <2>1 DEF CreateOrderSync, TypeOK, regVars, payVars
<1>6. ASSUME NEW c \in Reqs, NEW r \in Regs, NEW byId \in BOOLEAN, NEW p \in Pays,
             CreateOrderNew(c, r, byId, p)
      PROVE  TypeOK'
  <2>1. req' \in [Reqs -> Request]
    BY <1>6, StartType DEF CreateOrderNew, TypeOK, PCs
  <2> QED
    BY <1>6, <2>1 DEF CreateOrderNew, TypeOK, regVars, payVars
<1>7. ASSUME NEW c \in Reqs, NEW r \in Regs, CancelBegin(c, r)
      PROVE  TypeOK'
  <2>1. req' \in [Reqs -> Request]
    <3>1. PICK sp \in PayStatus \cup {"UNREAD"} :
              Start(c, "cancel", r, regPtr[r], sp, regStatus[r], regPtr[r])
      BY <1>7 DEF CancelBegin, TypeOK
    <3> QED
      BY <3>1, StartType DEF TypeOK, PCs
  <2> QED
    BY <1>7, <2>1 DEF CancelBegin, TypeOK, regVars, payVars
<1>8. ASSUME NEW c \in Reqs, NEW r \in Regs, NEW p \in Pays, OfflineBegin(c, r, p)
      PROVE  TypeOK'
  <2>1. req' \in [Reqs -> Request]
    BY <1>8, StartType DEF OfflineBegin, TypeOK, PCs
  <2> QED
    BY <1>8, <2>1 DEF OfflineBegin, TypeOK, regVars, payVars
<1>9. ASSUME NEW p \in Pays, FailPayment(p)
      PROVE  TypeOK'
  BY <1>9 DEF FailPayment, TypeOK, PayStatus, regVars, locks
<1>10. ASSUME NEW r \in Regs, OfflineAgain(r)
       PROVE  TypeOK'
  BY <1>10 DEF OfflineAgain, Fulfil, TypeOK, locks
<1>11. ASSUME NEW r \in Regs, AdminCancel(r)
       PROVE  TypeOK'
  BY <1>11 DEF AdminCancel, TypeOK, RegStatus, payVars, locks
<1>11a. ASSUME NEW c \in Reqs, NEW r \in Regs, PatchBegin(c, r) \/ RevokeBegin(c, r)
       PROVE  TypeOK'
  <2>1. req' \in [Reqs -> Request]
    <3>1. PICK pc \in PCs : Start(c, pc, r, NoPay, "UNREAD", regStatus[r], NoPay)
      BY <1>11a DEF PatchBegin, RevokeBegin, PCs
    <3> QED
      BY <3>1, StartType DEF TypeOK
  <2> QED
    BY <1>11a, <2>1 DEF PatchBegin, RevokeBegin, TypeOK, regVars, payVars, locks
<1> DEFINE LocksOK == /\ regLock' \in [Regs -> Reqs \cup {NoReq}]
                      /\ payLock' \in [Pays -> Reqs \cup {NoReq}]
                      /\ eventLock' \in Reqs \cup {NoReq}
                      /\ req' \in [Reqs -> Request]
<1>12. ASSUME NEW c \in Reqs, NEW pc \in PCs, Step(c, pc)
       PROVE  req' \in [Reqs -> Request]
  <2>1. [req[c] EXCEPT !.pc = pc] \in Request
    BY RememberPcType DEF TypeOK
  <2> QED
    BY <1>12, <2>1 DEF Step, TypeOK
<1>13. ASSUME NEW c \in Reqs, ReconcileSibling(c)
       PROVE  TypeOK'
  <2>1. LocksOK
    <3>1. CASE Finish(c)
      BY <3>1, FinishType
    <3>2. CASE Step(c, "lockPay") /\ UNCHANGED locks
      BY <3>2, <1>12 DEF TypeOK, locks, PCs
    <3> QED
      BY <1>13, <3>1, <3>2 DEF ReconcileSibling
  <2> QED
    BY <1>13, <2>1 DEF ReconcileSibling, TypeOK, regVars, payVars
<1>14. ASSUME NEW c \in Reqs, ApplyLock(c)
       PROVE  TypeOK'
  <2> DEFINE sr == IF req[c].seenReg = "UNREAD" THEN regStatus[req[c].r] ELSE req[c].seenReg
             sptr == IF req[c].seenReg = "UNREAD" THEN regPtr[req[c].r] ELSE req[c].seenPtr
  <2>1. LocksOK
    <3>1. CASE Finish(c)
      BY <3>1, FinishType
    <3>2. CASE \E outcome \in {"newly", "again"} :
                 /\ payLock' = [payLock EXCEPT ![req[c].p] = c]
                 /\ req' = [req EXCEPT ![c] =
                      [req[c] EXCEPT !.pc = AfterLockPc(req[c].p, sr, sptr), !.seenReg = sr,
                                     !.seenPtr = sptr, !.newly = (outcome = "newly")]]
                 /\ UNCHANGED <<regLock, eventLock>>
      <4>1. AfterLockPc(req[c].p, sr, sptr) \in PCs
        BY DEF AfterLockPc, ConfirmPc, PCs
      <4>2. sr \in RegStatus \cup {"UNREAD"} /\ sptr \in Pays \cup {NoPay}
        BY DEF TypeOK, Request
      <4>3. PICK new \in BOOLEAN :
              req' = [req EXCEPT ![c] =
                [req[c] EXCEPT !.pc = AfterLockPc(req[c].p, sr, sptr), !.seenReg = sr,
                               !.seenPtr = sptr, !.newly = new]]
        BY <3>2
      <4>4. req' \in [Reqs -> Request]
        <5> HIDE DEF sr, sptr
        <5>1. [req[c] EXCEPT !.pc = AfterLockPc(req[c].p, sr, sptr), !.seenReg = sr,
                             !.seenPtr = sptr, !.newly = new] \in Request
          BY <4>1, <4>2, RememberType DEF TypeOK
        <5> QED
          BY <4>3, <5>1 DEF TypeOK
      <4>5. payLock' = [payLock EXCEPT ![req[c].p] = c] /\ UNCHANGED <<regLock, eventLock>>
        BY <3>2
      <4> QED
        BY <4>4, <4>5 DEF TypeOK
    <3> QED
      BY <1>14, <3>1, <3>2 DEF ApplyLock, TransitionOutcomes
  <2> QED
    BY <1>14, <2>1 DEF ApplyLock, TypeOK, regVars, payVars
<1>15. ASSUME NEW c \in Reqs, ApplyRepoint(c)
       PROVE  TypeOK'
  <2>1. req' \in [Reqs -> Request]
    BY <1>15, <1>12 DEF ApplyRepoint, ConfirmPc, PCs
  <2> QED
    BY <1>15, <2>1 DEF ApplyRepoint, TypeOK, regVars, payVars
<1>16. ASSUME NEW c \in Reqs, ApplyCapacity(c)
       PROVE  TypeOK'
  <2>1. LocksOK
    <3>1. CASE Finish(c)
      BY <3>1, FinishType
    <3>2. CASE eventLock' = c /\ Step(c, "commit") /\ UNCHANGED <<regLock, payLock>>
      BY <3>2, <1>12 DEF TypeOK, PCs
    <3> QED
      BY <1>16, <3>1, <3>2 DEF ApplyCapacity
  <2> QED
    BY <1>16, <2>1 DEF ApplyCapacity, TypeOK, regVars, payVars
<1>17. ASSUME NEW c \in Reqs, ApplyCommit(c)
       PROVE  TypeOK'
  <2>1. LocksOK
    BY <1>17, FinishType DEF ApplyCommit
  <2>2. req[c] \in Request /\ req[c].p \in Pays
    BY <1>17 DEF ApplyCommit, TypeOK, OwnPayment
  <2>3. qr' \in [Regs -> {"none", "active", "inactive"}] /\ receipts' \in SUBSET Pays
    BY <1>17, <2>2, FulfilType DEF ApplyCommit, Request
  <2>4. payStatus' \in [Pays -> PayStatus]
    BY <1>17 DEF ApplyCommit, TypeOK, PayStatus
  <2>5. regPtr' \in [Regs -> Pays \cup {NoPay}]
    BY <1>17, <2>2 DEF ApplyCommit, TypeOK
  <2>6. regStatus' \in [Regs -> RegStatus]
    BY <1>17, <2>2, RequestFields DEF ApplyCommit, ConfirmedStatus, TypeOK, RegStatus
  <2>7. applied' \in [Pays -> Nat]
    <3>1. CASE applied' = applied
      BY <3>1 DEF TypeOK
    <3>2. CASE applied' = [applied EXCEPT ![req[c].p] = @ + 1]
      <4>1. applied[req[c].p] + 1 \in Nat
        BY <2>2 DEF TypeOK
      <4> QED
        BY <3>2, <4>1, <2>2 DEF TypeOK
    <3> QED
      BY <1>17, <3>1, <3>2 DEF ApplyCommit
  <2> QED
    BY <1>17, <2>1, <2>3, <2>4, <2>5, <2>6, <2>7 DEF ApplyCommit, TypeOK
<1>18. ASSUME NEW c \in Reqs, CreateOrderCommit(c)
       PROVE  TypeOK'
  <2>1. LocksOK
    BY <1>18, FinishType DEF CreateOrderCommit
  <2> QED
    BY <1>18, <2>1 DEF CreateOrderCommit, TypeOK, Request, PayStatus
<1>19. ASSUME NEW c \in Reqs, OfflineCommit(c)
       PROVE  TypeOK'
  <2>1. LocksOK
    <3>1. req' \in [Reqs -> Request]
      <4>1. CASE Step(c, "fulfil")
        BY <4>1, <1>12 DEF PCs
      <4>2. CASE req' = [req EXCEPT ![c] = Idle]
        BY <4>2, IdleType DEF TypeOK
      <4> QED
        BY <1>19, <4>1, <4>2 DEF OfflineCommit
    <3> QED
      BY <1>19, <3>1, ReleaseType DEF OfflineCommit
  <2>2. req[c].p \in Pays /\ req[c].r \in Regs
    BY <1>19, RequestFields DEF OfflineCommit, OwnPayment, TypeOK
  <2>3. payStatus' \in [Pays -> PayStatus]
    BY <1>19 DEF OfflineCommit, TypeOK, PayStatus
  <2>4. regPtr' \in [Regs -> Pays \cup {NoPay}]
    BY <1>19, <2>2 DEF OfflineCommit, TypeOK
  <2>5. regStatus' \in [Regs -> RegStatus]
    BY <1>19 DEF OfflineCommit, TypeOK, RegStatus
  <2> QED
    BY <1>19, <2>1, <2>3, <2>4, <2>5 DEF OfflineCommit, TypeOK
<1>20. ASSUME NEW c \in Reqs, OfflineFulfil(c)
       PROVE  TypeOK'
  <2>1. LocksOK
    BY <1>20, FinishType DEF OfflineFulfil
  <2>2. req[c].p \in Pays
    BY <1>20 DEF OfflineFulfil, OwnPayment
  <2>3. qr' \in [Regs -> {"none", "active", "inactive"}] /\ receipts' \in SUBSET Pays
    BY <1>20, <2>2, FulfilType DEF OfflineFulfil, TypeOK, Request
  <2> QED
    BY <1>20, <2>1, <2>3 DEF OfflineFulfil, TypeOK
<1>21. ASSUME NEW c \in Reqs, RecoverPay(c)
       PROVE  TypeOK'
  <2> DEFINE seen == IF req[c].seenPay = "UNREAD" THEN payStatus[req[c].p]
                                                  ELSE req[c].seenPay
  <2>1. LocksOK
    <3>1. CASE Finish(c)
      BY <3>1, FinishType
    <3>2. CASE /\ payLock' = [payLock EXCEPT ![req[c].p] = c]
               /\ req' = [req EXCEPT ![c] =
                             [req[c] EXCEPT !.pc = "lockPay", !.seenPay = seen]]
               /\ UNCHANGED <<regLock, eventLock>>
      <4>1. seen \in PayStatus \cup {"UNREAD"}
        BY <1>21 DEF RecoverPay, TypeOK, OwnPayment, Request
      <4>2. req' \in [Reqs -> Request]
        <5> HIDE DEF seen
        <5>1. [req[c] EXCEPT !.pc = "lockPay", !.seenPay = seen] \in Request
          BY <4>1, RememberPayType DEF TypeOK, PCs
        <5> QED
          BY <3>2, <5>1 DEF TypeOK
      <4> QED
        BY <3>2, <4>2 DEF TypeOK
    <3> QED
      BY <1>21, <3>1, <3>2 DEF RecoverPay
  <2> QED
    BY <1>21, <2>1 DEF RecoverPay, TypeOK, regVars, payVars
<1>22. ASSUME NEW c \in Reqs, CancelCommit(c)
       PROVE  TypeOK'
  <2>1. LocksOK
    BY <1>22, FinishType DEF CancelCommit
  <2> QED
    BY <1>22, <2>1 DEF CancelCommit, TypeOK, Request, PayStatus, RegStatus
<1>22a. ASSUME NEW c \in Reqs, PatchCommit(c) \/ RevokeCommit(c)
       PROVE  TypeOK'
  <2>1. LocksOK
    BY <1>22a, FinishType DEF PatchCommit, RevokeCommit
  <2>2. regStatus' \in [Regs -> RegStatus]
    BY <1>22a DEF PatchCommit, RevokeCommit, TypeOK, RegStatus
  <2>3. qr' \in [Regs -> {"none", "active", "inactive"}]
    BY <1>22a DEF PatchCommit, RevokeCommit, TypeOK
  <2> QED
    BY <1>22a, <2>1, <2>2, <2>3 DEF PatchCommit, RevokeCommit, TypeOK, payVars
<1>23. ASSUME NEW c \in Reqs, RefundCommit(c)
       PROVE  TypeOK'
  <2>1. LocksOK
    BY <1>23, FinishType DEF RefundCommit
  <2> QED
    BY <1>23, <2>1 DEF RefundCommit, TypeOK, PayStatus, RegStatus
<1>24. ASSUME NEW c \in Reqs, Abort(c) \/ DeadlockVictim(c)
       PROVE  TypeOK'
  <2>1. LocksOK
    BY <1>24, FinishType DEF Abort, DeadlockVictim
  <2> QED
    BY <1>24, <2>1 DEF Abort, DeadlockVictim, TypeOK, regVars, payVars
<1>25. CASE UNCHANGED vars
  BY <1>25 DEF TypeOK, vars, regVars, payVars, locks
<1>26. CASE Arrival
  BY <1>2, <1>3, <1>4, <1>5, <1>6, <1>7, <1>8, <1>9, <1>10, <1>11, <1>11a, <1>26 DEF Arrival
<1>27. ASSUME NEW c \in Reqs, Progress(c) \/ Abort(c)
       PROVE  TypeOK'
  BY <1>13, <1>14, <1>15, <1>16, <1>17, <1>18, <1>19, <1>20, <1>21, <1>22, <1>22a, <1>23,
     <1>24, <1>27 DEF Progress
<1> QED
  BY <1>1, <1>25, <1>26, <1>27 DEF Next
-----------------------------------------------------------------------------
\* Only the request that acts changes its record.
LEMMA OwnKept ==
    ASSUME OwnInv, NEW c \in Reqs, \A d \in Reqs \ {c} : req'[d] = req[d],
           OwnPayment(c)'
    PROVE  \A d \in Reqs : OwnPayment(d)'
BY DEF OwnInv, OwnPayment

\* A finished request has no payment to account for.
LEMMA OwnFinish ==
    ASSUME OwnInv, NEW c \in Reqs, Finish(c)
    PROVE  \A d \in Reqs : OwnPayment(d)'
<1>1. OwnPayment(c)'
  BY DEF Finish, OwnPayment, Idle, OwnInv, TypeOK
<1> QED
  BY <1>1, OwnKept DEF Finish, OwnInv, TypeOK

LEMMA OwnStart ==
    ASSUME OwnInv, NEW c \in Reqs, NEW pc, NEW r, NEW p, NEW sp, NEW sr, NEW sptr,
           Start(c, pc, r, p, sp, sr, sptr),
           \/ p \in Pays /\ RegOf[p] = r
           \/ pc \in {"cancel", "patch", "revoke"} /\ p = NoPay /\ sp = "UNREAD"
    PROVE  \A d \in Reqs : OwnPayment(d)'
<1>1. OwnPayment(c)'
  BY DEF Start, OwnPayment, OwnInv, TypeOK
<1> QED
  BY <1>1, OwnKept DEF Start, OwnInv, TypeOK

\* A request that goes on keeps its payment and its registration.
LEMMA OwnGoesOn ==
    ASSUME OwnInv, NEW c \in Reqs, \A d \in Reqs \ {c} : req'[d] = req[d],
           req'[c].p = req[c].p, req'[c].r = req[c].r,
           req[c].pc \notin {"idle", "cancel", "patch", "revoke"}
    PROVE  \A d \in Reqs : OwnPayment(d)'
BY OwnKept DEF OwnPayment, OwnInv

\* Moving to another pc changes nothing else of a request.
LEMMA StepFrame ==
    ASSUME OwnInv, NEW c \in Reqs, NEW pc, Step(c, pc)
    PROVE  /\ \A d \in Reqs \ {c} : req'[d] = req[d]
           /\ req'[c] = [req[c] EXCEPT !.pc = pc]
           /\ req'[c].pc = pc /\ req'[c].p = req[c].p /\ req'[c].r = req[c].r
           /\ req'[c].seenPay = req[c].seenPay /\ req'[c].seenReg = req[c].seenReg
           /\ req'[c].seenPtr = req[c].seenPtr /\ req'[c].newly = req[c].newly
BY DEF Step, OwnInv, TypeOK, Request

\* Pointers lead to own payments after a step that moves none, or moves one.
LEMMA PointerKept ==
    ASSUME OwnInv, regPtr' = regPtr
    PROVE  PointersAreOwn'
BY DEF OwnInv, PointersAreOwn

LEMMA PointerMoved ==
    ASSUME OwnInv, NEW r \in Regs, NEW p \in Pays \cup {NoPay},
           p # NoPay => RegOf[p] = r,
           regPtr' = [regPtr EXCEPT ![r] = p]
    PROVE  PointersAreOwn'
BY DEF OwnInv, PointersAreOwn, TypeOK

\* Payments stay with the registration they were inserted for.
LEMMA OwnStep == OwnInv /\ [Next]_vars => OwnInv'
<1> SUFFICES ASSUME OwnInv, [Next]_vars
             PROVE  PointersAreOwn' /\ \A c \in Reqs : OwnPayment(c)'
  BY TypeStep DEF OwnInv
<1> DEFINE Goal == PointersAreOwn' /\ \A c \in Reqs : OwnPayment(c)'
<1> USE CoreAssumption
<1>1. ASSUME UNCHANGED <<regPtr, req>>
      PROVE  Goal
  BY <1>1, PointerKept DEF OwnInv, OwnPayment
<1>2. ASSUME NEW p \in Pays, ProviderCapture(p) \/ FailPayment(p)
      PROVE  Goal
  BY <1>1, <1>2 DEF ProviderCapture, FailPayment, regVars
<1>3. ASSUME NEW r \in Regs, OfflineAgain(r) \/ AdminCancel(r)
      PROVE  Goal
  BY <1>1, <1>3 DEF OfflineAgain, AdminCancel
<1>4. ASSUME NEW c \in Reqs, NEW p \in Pays,
             \/ Webhook(c, p) \/ Verify(c, p) \/ Sync(c, p) \/ Reconcile(c, p)
             \/ RecoverBegin(c, p) \/ RefundBegin(c, p)
      PROVE  Goal
  <2>1. regPtr' = regPtr /\ \E pc, sp, sr, sptr : Start(c, pc, RegOf[p], p, sp, sr, sptr)
    BY <1>4 DEF Webhook, Verify, Sync, Reconcile, RecoverBegin, RefundBegin, regVars
  <2> QED
    BY <2>1, OwnStart, PointerKept
<1>5. ASSUME NEW c \in Reqs, NEW r \in Regs, NEW byId \in BOOLEAN, CreateOrderSync(c, r, byId)
      PROVE  Goal
  <2>1. regPtr[r] \in Pays /\ RegOf[regPtr[r]] = r
    BY <1>5 DEF CreateOrderSync, OwnInv, TypeOK, PointersAreOwn
  <2> QED
    BY <1>5, <2>1, OwnStart, PointerKept DEF CreateOrderSync, regVars
<1>6. ASSUME NEW c \in Reqs, NEW r \in Regs, NEW byId \in BOOLEAN, NEW p \in Pays,
             CreateOrderNew(c, r, byId, p)
      PROVE  Goal
  BY <1>6, OwnStart, PointerKept DEF CreateOrderNew, FreshPays, ReqPays, regVars
<1>7. ASSUME NEW c \in Reqs, NEW r \in Regs, NEW p \in Pays, OfflineBegin(c, r, p)
      PROVE  Goal
  BY <1>7, OwnStart, PointerKept DEF OfflineBegin, FreshPays, ReqPays, regVars
<1>8. ASSUME NEW c \in Reqs, NEW r \in Regs, CancelBegin(c, r)
      PROVE  Goal
  <2>1. CASE regPtr[r] = NoPay
    <3>1. Start(c, "cancel", r, NoPay, "UNREAD", regStatus[r], NoPay)
      BY <1>8, <2>1 DEF CancelBegin
    <3> QED
      BY <1>8, <3>1, OwnStart, PointerKept DEF CancelBegin, regVars
  <2>2. CASE regPtr[r] # NoPay
    <3>1. regPtr[r] \in Pays /\ RegOf[regPtr[r]] = r
      BY <2>2 DEF OwnInv, TypeOK, PointersAreOwn
    <3> QED
      BY <1>8, <3>1, OwnStart, PointerKept DEF CancelBegin, regVars
  <2> QED
    BY <2>1, <2>2
<1>8a. ASSUME NEW c \in Reqs, NEW r \in Regs, PatchBegin(c, r) \/ RevokeBegin(c, r)
      PROVE  Goal
  <2>1. \E pc \in {"patch", "revoke"} : Start(c, pc, r, NoPay, "UNREAD", regStatus[r], NoPay)
    BY <1>8a DEF PatchBegin, RevokeBegin
  <2> QED
    BY <1>8a, <2>1, OwnStart, PointerKept DEF PatchBegin, RevokeBegin, regVars
<1>9. ASSUME NEW c \in Reqs, Finish(c), regPtr' = regPtr
      PROVE  Goal
  BY <1>9, OwnFinish, PointerKept
<1>10. ASSUME NEW c \in Reqs, NEW pc, Step(c, pc), req[c].pc \notin {"idle", "cancel", "patch", "revoke"}
       PROVE  \A d \in Reqs : OwnPayment(d)'
  BY <1>10, StepFrame, OwnGoesOn
<1>11. ASSUME NEW c \in Reqs, ReconcileSibling(c) \/ ApplyRepoint(c) \/ ApplyCapacity(c)
       PROVE  Goal
  BY <1>9, <1>10, <1>11, PointerKept DEF ReconcileSibling, ApplyRepoint, ApplyCapacity, regVars
<1>12. ASSUME NEW c \in Reqs, ApplyLock(c)
       PROVE  Goal
  <2>1. regPtr' = regPtr /\ req[c].pc = "lockPay"
    BY <1>12 DEF ApplyLock, regVars
  <2>2. CASE Finish(c)
    BY <1>9, <2>1, <2>2
  <2> DEFINE sr == IF req[c].seenReg = "UNREAD" THEN regStatus[req[c].r] ELSE req[c].seenReg
             sptr == IF req[c].seenReg = "UNREAD" THEN regPtr[req[c].r] ELSE req[c].seenPtr
  <2>3. CASE \E new \in BOOLEAN : req' = [req EXCEPT ![c] =
               [req[c] EXCEPT !.pc = AfterLockPc(req[c].p, sr, sptr), !.seenReg = sr,
                              !.seenPtr = sptr, !.newly = new]]
    <3>1. req'[c].p = req[c].p /\ req'[c].r = req[c].r
      BY <2>3 DEF OwnInv, TypeOK, Request
    <3>2. \A d \in Reqs \ {c} : req'[d] = req[d]
      BY <2>3 DEF OwnInv, TypeOK
    <3> QED
      BY <2>1, <3>1, <3>2, OwnGoesOn, PointerKept
  <2> QED
    BY <1>12, <2>2, <2>3 DEF ApplyLock
<1>13. ASSUME NEW c \in Reqs, RecoverPay(c)
       PROVE  Goal
  <2>1. regPtr' = regPtr /\ req[c].pc = "recoverPay"
    BY <1>13 DEF RecoverPay, regVars
  <2>2. CASE Finish(c)
    BY <1>9, <2>1, <2>2
  <2>3. CASE \E seen : req' = [req EXCEPT ![c] =
                                 [req[c] EXCEPT !.pc = "lockPay", !.seenPay = seen]]
    <3>1. req'[c].p = req[c].p /\ req'[c].r = req[c].r
      BY <2>3 DEF OwnInv, TypeOK, Request
    <3>2. \A d \in Reqs \ {c} : req'[d] = req[d]
      BY <2>3 DEF OwnInv, TypeOK
    <3> QED
      BY <2>1, <3>1, <3>2, OwnGoesOn, PointerKept
  <2> QED
    BY <1>13, <2>2, <2>3 DEF RecoverPay
<1>14. ASSUME NEW c \in Reqs, req[c].pc \notin {"idle", "cancel", "patch", "revoke"}
       PROVE  req[c].p \in Pays /\ RegOf[req[c].p] = req[c].r /\ req[c].r \in Regs
  BY <1>14 DEF OwnInv, OwnPayment, TypeOK, Request
<1>15. ASSUME NEW c \in Reqs, ApplyCommit(c)
       PROVE  Goal
  <2>1. regPtr' = regPtr \/ regPtr' = [regPtr EXCEPT ![req[c].r] = req[c].p]
    BY <1>15 DEF ApplyCommit
  <2>2. req[c].p \in Pays /\ RegOf[req[c].p] = req[c].r /\ req[c].r \in Regs
    BY <1>14, <1>15 DEF ApplyCommit
  <2>3. PointersAreOwn'
    BY <2>1, <2>2, PointerKept, PointerMoved
  <2> QED
    BY <1>15, <2>3, OwnFinish DEF ApplyCommit
<1>16. ASSUME NEW c \in Reqs, CreateOrderCommit(c)
       PROVE  Goal
  BY <1>14, <1>16, OwnFinish, PointerMoved DEF CreateOrderCommit
<1>17. ASSUME NEW c \in Reqs, OfflineCommit(c)
       PROVE  Goal
  <2>1. CASE Step(c, "fulfil") /\ regPtr' = [regPtr EXCEPT ![req[c].r] = req[c].p]
    BY <1>10, <1>14, <1>17, <2>1, PointerMoved DEF OfflineCommit
  <2>2. CASE req' = [req EXCEPT ![c] = Idle] /\ regPtr' = regPtr
    BY <1>9, <1>17, <2>2 DEF OfflineCommit, Finish
  <2> QED
    BY <1>17, <2>1, <2>2 DEF OfflineCommit
<1>18. ASSUME NEW c \in Reqs, \/ OfflineFulfil(c) \/ RefundCommit(c)
                              \/ PatchCommit(c) \/ RevokeCommit(c)
       PROVE  Goal
  BY <1>9, <1>18 DEF OfflineFulfil, RefundCommit, PatchCommit, RevokeCommit
<1>19. ASSUME NEW c \in Reqs, CancelCommit(c)
       PROVE  Goal
  <2>1. req[c].r \in Regs
    BY DEF OwnInv, TypeOK, Request
  <2> QED
    BY <1>19, <2>1, OwnFinish, PointerMoved DEF CancelCommit
<1>20. ASSUME NEW c \in Reqs, Abort(c) \/ DeadlockVictim(c)
       PROVE  Goal
  BY <1>9, <1>20 DEF Abort, DeadlockVictim, regVars
<1>21. CASE UNCHANGED vars
  BY <1>1, <1>21 DEF vars, regVars
<1> QED
  BY <1>2, <1>3, <1>4, <1>5, <1>6, <1>7, <1>8, <1>11, <1>12, <1>13, <1>15, <1>16,
     <1>17, <1>18, <1>19, <1>20, <1>21, <1>8a DEF Next, Arrival, Progress

\* The initial state satisfies the invariant.
LEMMA OwnInit == Init => OwnInv
<1> SUFFICES ASSUME Init
             PROVE  OwnInv
  OBVIOUS
<1>1. TypeOK
  BY CoreAssumption, IdleType DEF Init, TypeOK, RegStatus, PayStatus
<1>2. PointersAreOwn /\ \A c \in Reqs : OwnPayment(c)
  BY DEF Init, PointersAreOwn, OwnPayment, Idle
<1> QED
  BY <1>1, <1>2 DEF OwnInv

\* Every reachable state has the right types, and every payment, pointer and
\* request stays with its own registration.
THEOREM OwnInvariant == Spec => []OwnInv
BY OwnInit, OwnStep, PTL DEF Spec

\* Type correctness.
THEOREM TypeCorrect == Spec => []TypeOK
<1>1. OwnInv => TypeOK
  BY DEF OwnInv
<1> QED
  BY <1>1, OwnInvariant, PTL
-----------------------------------------------------------------------------
(* PaidImpliesSettled, NoDowngrade and AppliedOnce when administrators put   *)
(* no registration back to PENDING.                                          *)

\* No administrator revokes a confirmation or reopens a cancelled registration.
NeverReopened == Ops \cap {"Revoke", "Reopen"} = {}

\* What a step of somebody else must respect for d to stay as it should.
KeepsLocks(d) ==
    /\ \A p \in Pays : payLock[p] = d => payLock'[p] = d
    /\ \A r \in Regs : regLock[r] = d => regLock'[r] = d

KeepsRegs(d) ==
    \A r \in Regs :
        /\ regStatus[r] # "PENDING" => regStatus'[r] # "PENDING"
        /\ regLock[r] = d /\ regStatus[r] = "PENDING" => regStatus'[r] = "PENDING"

KeepsPay(d) ==
    req[d].newly \/ req[d].pc \in {"order", "offline", "cancel"} =>
        \A p \in Pays : p = req[d].p =>
            \/ payStatus'[p] = payStatus[p]
            \/ payStatus[p] \in Payable /\ payStatus'[p] \in Payable

\* A request that does not act stays as it should be.
LEMMA OtherRequest ==
    ASSUME OwnInv, NEW d \in Reqs, RequestOK(d), req'[d] = req[d],
           KeepsLocks(d), KeepsRegs(d), KeepsPay(d)
    PROVE  RequestOK(d)'
<1>1. req[d] \in Request
  BY DEF OwnInv, TypeOK
<1>2. req[d].p \in Pays \/ (req[d].p = NoPay /\ req[d].pc \in {"idle", "cancel", "patch", "revoke"})
  BY <1>1, RequestFields DEF OwnInv, OwnPayment
<1>3. req[d].r \in Regs
  BY <1>1, RequestFields
<1>4. req[d].pc = "cancel" /\ req[d].seenPay = "CREATED" => req[d].p \in Pays
  BY <1>2 DEF OwnInv, OwnPayment
<1>5. HoldsLocks(d)'
  BY <1>2, <1>3 DEF HoldsLocks, KeepsLocks, RequestOK
<1>6. Reserved(d)'
  BY <1>2 DEF Reserved, KeepsPay, RequestOK, Payable
<1>7. NewlyPayable(d)'
  BY <1>2 DEF NewlyPayable, KeepsPay, RequestOK, Payable
<1>8. SettledMemory(d)'
  BY <1>3 DEF SettledMemory, KeepsRegs, RequestOK
<1>9. CancelIsSafe(d)'
  BY <1>3, <1>4 DEF CancelIsSafe, KeepsPay, KeepsRegs, HoldsLocks, RequestOK, Payable
<1>10. PutsNothingBack(d)'
  BY DEF PutsNothingBack, RequestOK
<1> QED
  BY <1>5, <1>6, <1>7, <1>8, <1>9, <1>10 DEF RequestOK

\* A finished request is as it should be, and releases only its own locks.
LEMMA FinishedRequest ==
    ASSUME OwnInv, NEW c \in Reqs, Finish(c)
    PROVE  /\ RequestOK(c)'
           /\ \A d \in Reqs \ {c} : req'[d] = req[d] /\ KeepsLocks(d)
<1>1. req'[c] = Idle
  BY DEF Finish, OwnInv, TypeOK
<1>2. RequestOK(c)'
  BY <1>1 DEF RequestOK, HoldsLocks, Reserved, NewlyPayable, SettledMemory, CancelIsSafe, PutsNothingBack, Idle
<1>3. \A d \in Reqs \ {c} : req'[d] = req[d] /\ KeepsLocks(d)
  BY DEF Finish, ReleaseLocks, KeepsLocks, OwnInv, TypeOK
<1> QED
  BY <1>2, <1>3

\* Steps that leave registrations and payments alone.
Quiet == UNCHANGED <<regStatus, payStatus, applied>>

LEMMA QuietStep ==
    ASSUME SettleInv, OwnInv', NEW c \in Reqs, Quiet, RequestOK(c)',
           \A d \in Reqs \ {c} : req'[d] = req[d] /\ KeepsLocks(d)
    PROVE  SettleInv'
<1>1. \A d \in Reqs \ {c} : KeepsRegs(d) /\ KeepsPay(d)
  BY DEF Quiet, KeepsRegs, KeepsPay
<1>2. \A d \in Reqs : RequestOK(d)'
  BY <1>1, OtherRequest DEF SettleInv
<1>3. AppliedMeansPaid' /\ PaidImpliesSettled'
  BY DEF SettleInv, Quiet, AppliedMeansPaid, PaidImpliesSettled
<1> QED
  BY <1>2, <1>3 DEF SettleInv

LEMMA QuietFinish ==
    ASSUME SettleInv, OwnInv', NEW c \in Reqs, Quiet, Finish(c)
    PROVE  SettleInv'
BY QuietStep, FinishedRequest DEF SettleInv

\* Starting a request that read the registration of its payment correctly.
LEMMA QuietStart ==
    ASSUME SettleInv, OwnInv', NEW c \in Reqs, Quiet,
           NEW pc, NEW r \in Regs, NEW p, NEW sp, NEW sr, NEW sptr,
           Start(c, pc, r, p, sp, sr, sptr), sr \in {"UNREAD", regStatus[r]},
           pc \notin {"repoint", "capacity", "commit", "revoke"},
           pc = "patch" => sr # "CANCELLED",
           pc \in {"order", "offline", "cancel"} => regLock'[r] = c,
           pc \in {"order", "offline"} => payStatus[p] = "ABSENT",
           pc = "cancel" => /\ regStatus[r] = "PENDING"
                            /\ sp = "CREATED" => payStatus[p] \in Payable,
           \A d \in Reqs \ {c} : KeepsLocks(d)
    PROVE  SettleInv'
<1>1. /\ req'[c] = [pc |-> pc, r |-> r, p |-> p, seenPay |-> sp, seenReg |-> sr,
                    seenPtr |-> sptr, newly |-> FALSE]
      /\ \A d \in Reqs \ {c} : req'[d] = req[d]
  BY DEF Start, SettleInv, OwnInv, TypeOK
<1>2. RequestOK(c)'
  BY <1>1 DEF Quiet, RequestOK, HoldsLocks, Reserved, NewlyPayable, SettledMemory, CancelIsSafe, PutsNothingBack
<1> QED
  BY <1>1, <1>2, QuietStep

\* A free registration row is locked, or nothing is: nobody else loses a lock.
LEMMA OthersKeepLocks ==
    ASSUME OwnInv, NEW c \in Reqs, payLock' = payLock,
           \/ regLock' = regLock
           \/ \E r \in Regs : regLock[r] = NoReq /\ regLock' = [regLock EXCEPT ![r] = c]
    PROVE  \A d \in Reqs \ {c} : KeepsLocks(d)
BY CoreAssumption DEF KeepsLocks, OwnInv, TypeOK

\* Steps of no request at all.
LEMMA UnmovedStep ==
    ASSUME SettleInv, OwnInv', req' = req, regLock' = regLock, payLock' = payLock,
           \A d \in Reqs : KeepsRegs(d) /\ KeepsPay(d),
           AppliedMeansPaid', PaidImpliesSettled'
    PROVE  SettleInv'
<1>1. \A d \in Reqs : KeepsLocks(d) /\ req'[d] = req[d]
  BY DEF KeepsLocks
<1>2. \A d \in Reqs : RequestOK(d)'
  BY <1>1, OtherRequest DEF SettleInv
<1> QED
  BY <1>2 DEF SettleInv

\* A step of a request that writes registrations or payments and then ends
\* its transaction.
LEMMA WriteStep ==
    ASSUME SettleInv, OwnInv', NEW c \in Reqs, Finish(c),
           \A d \in Reqs \ {c} : KeepsRegs(d) /\ KeepsPay(d),
           AppliedMeansPaid', PaidImpliesSettled'
    PROVE  SettleInv'
<1>1. \A d \in Reqs : RequestOK(d)'
  BY FinishedRequest, OtherRequest DEF SettleInv
<1> QED
  BY <1>1 DEF SettleInv

\* The payment and the registration of a request that runs.
LEMMA RequestPayment ==
    ASSUME OwnInv, NEW c \in Reqs, req[c].pc \notin {"idle", "cancel", "patch", "revoke"}
    PROVE  req[c].p \in Pays /\ req[c].r \in Regs /\ RegOf[req[c].p] = req[c].r
BY RequestFields DEF OwnInv, OwnPayment, TypeOK

\* The steps of apply_payment_success.
LEMMA ApplyCommitStep ==
    ASSUME SettleInv, OwnInv', NEW c \in Reqs, ApplyCommit(c)
    PROVE  SettleInv'
<1> DEFINE p == req[c].p
           r == req[c].r
<1>1. p \in Pays /\ r \in Regs /\ RegOf[p] = r /\ req[c].pc = "commit"
  BY RequestPayment DEF ApplyCommit, SettleInv
<1>2. payLock[p] = c
  BY <1>1 DEF SettleInv, RequestOK, HoldsLocks
<1>3. /\ req[c].seenReg = "CANCELLED" => regStatus[r] # "PENDING" /\ regStatus' = regStatus
      /\ req[c].seenReg # "CANCELLED" =>
            /\ Grants(regLock[r], c)
            /\ regStatus' = [regStatus EXCEPT ![r] = "CONFIRMED"]
  BY <1>1 DEF ApplyCommit, ConfirmedStatus, SettleInv, OwnInv, TypeOK, RequestOK, SettledMemory
<1>4. \/ payStatus' = payStatus /\ applied' = applied
      \/ /\ payStatus[p] \in Payable
         /\ payStatus' = [payStatus EXCEPT ![p] = "PAID"]
         /\ applied' = [applied EXCEPT ![p] = @ + 1]
  BY <1>1 DEF ApplyCommit, SettleInv, RequestOK, NewlyPayable
<1>5. regStatus'[r] # "PENDING" /\ \A x \in Regs : regStatus[x] # "PENDING" => regStatus'[x] # "PENDING"
  BY <1>1, <1>3 DEF SettleInv, OwnInv, TypeOK
<1>6. ASSUME NEW d \in Reqs \ {c}
      PROVE  KeepsRegs(d)
  BY <1>1, <1>3, <1>5, CoreAssumption DEF KeepsRegs, Grants, SettleInv, OwnInv, TypeOK
<1>7. ASSUME NEW d \in Reqs \ {c}
      PROVE  KeepsPay(d)
  <2>1. CASE req[d].p # p
    BY <1>4, <2>1 DEF KeepsPay, SettleInv, OwnInv, TypeOK
  <2>2. CASE req[d].p = p
    <3>1. ~ req[d].newly
      BY <1>2, <2>2 DEF SettleInv, RequestOK, NewlyPayable, HoldsLocks
    <3>2. req[d].pc \in {"order", "offline"} => payStatus[p] = "ABSENT"
      BY <2>2 DEF SettleInv, RequestOK, Reserved
    <3>3. req[d].pc = "cancel" => req[d].r = r
      BY <1>1, <2>2, CoreAssumption DEF SettleInv, OwnInv, OwnPayment
    <3>4. req[d].pc # "cancel"
      BY <1>3, <3>3, CoreAssumption
      DEF SettleInv, RequestOK, CancelIsSafe, HoldsLocks, Grants
    <3> QED
      BY <1>1, <1>4, <3>1, <3>2, <3>4 DEF KeepsPay, Payable
  <2> QED
    BY <2>1, <2>2
<1>8. AppliedMeansPaid'
  BY <1>1, <1>4 DEF AppliedMeansPaid, SettleInv, OwnInv, TypeOK, Payable
<1>9. PaidImpliesSettled'
  BY <1>1, <1>4, <1>5, CoreAssumption DEF PaidImpliesSettled, SettleInv, OwnInv, TypeOK
<1> QED
  BY <1>6, <1>7, <1>8, <1>9, WriteStep DEF ApplyCommit

LEMMA ApplyLockStep ==
    ASSUME SettleInv, OwnInv', NEW c \in Reqs, ApplyLock(c)
    PROVE  SettleInv'
<1> DEFINE p == req[c].p
           r == req[c].r
           sr == IF req[c].seenReg = "UNREAD" THEN regStatus[r] ELSE req[c].seenReg
           sptr == IF req[c].seenReg = "UNREAD" THEN regPtr[r] ELSE req[c].seenPtr
<1>1. p \in Pays /\ r \in Regs /\ req[c].pc = "lockPay"
  BY RequestPayment DEF ApplyLock, SettleInv
<1>2. Quiet
  BY DEF ApplyLock, Quiet, regVars, payVars
<1>3. CASE Finish(c)
  BY <1>2, <1>3, QuietFinish
<1>4. ASSUME NEW outcome \in TransitionOutcomes(req[c].seenPay, payStatus[p]),
             outcome # "stop",
             payLock' = [payLock EXCEPT ![p] = c],
             req' = [req EXCEPT ![c] =
               [req[c] EXCEPT !.pc = AfterLockPc(p, sr, sptr), !.seenReg = sr,
                              !.seenPtr = sptr, !.newly = (outcome = "newly")]],
             UNCHANGED <<regLock, eventLock>>
      PROVE  SettleInv'
  <2>1. /\ req'[c].pc = AfterLockPc(p, sr, sptr) /\ req'[c].seenReg = sr
        /\ req'[c].newly = (outcome = "newly")
        /\ req'[c].p = p /\ req'[c].r = r
    BY <1>4 DEF SettleInv, OwnInv, TypeOK, Request
  <2>2. req'[c].pc \in {"repoint", "capacity", "commit"}
    BY <2>1 DEF AfterLockPc, ConfirmPc
  <2>3. outcome = "newly" => payStatus[p] \in Payable
    BY <1>4 DEF TransitionOutcomes
  <2>4. payLock'[p] = c
    BY <1>1, <1>4 DEF SettleInv, OwnInv, TypeOK
  <2>5. sr \in {"CONFIRMED", "CANCELLED"} => regStatus[r] # "PENDING"
    BY DEF SettleInv, RequestOK, SettledMemory
  <2>6. RequestOK(c)'
    BY <1>2, <2>1, <2>2, <2>3, <2>4, <2>5
    DEF Quiet, RequestOK, HoldsLocks, Reserved, NewlyPayable, SettledMemory, CancelIsSafe, PutsNothingBack
  <2>7. \A d \in Reqs \ {c} : req'[d] = req[d]
    BY <1>4 DEF SettleInv, OwnInv, TypeOK
  <2>8. \A d \in Reqs \ {c} : KeepsLocks(d)
    BY <1>1, <1>4, CoreAssumption DEF ApplyLock, Grants, KeepsLocks, SettleInv, OwnInv, TypeOK
  <2> QED
    BY <1>2, <2>6, <2>7, <2>8, QuietStep
<1> QED
  BY <1>3, <1>4 DEF ApplyLock

\* A request that moves on without writing, perhaps with one more lock.
LEMMA MoveStep ==
    ASSUME SettleInv, OwnInv', NEW c \in Reqs, Quiet, NEW pc, Step(c, pc),
           req[c].pc \in {"repoint", "capacity"} =>
               pc \in {"repoint", "capacity", "commit"},
           req[c].pc \notin {"repoint", "capacity"} =>
               pc \notin {"repoint", "capacity", "commit"},
           req[c].pc # "commit", pc \notin {"order", "offline", "cancel", "patch", "revoke"},
           \A d \in Reqs : KeepsLocks(d)
    PROVE  SettleInv'
<1>1. /\ \A d \in Reqs \ {c} : req'[d] = req[d]
      /\ req'[c].pc = pc /\ req'[c].p = req[c].p /\ req'[c].r = req[c].r
      /\ req'[c].seenReg = req[c].seenReg /\ req'[c].newly = req[c].newly
  BY StepFrame DEF SettleInv
<1>2. RequestOK(c)
  BY DEF SettleInv
<1>3. HoldsLocks(c)'
  <2>1. CASE req[c].pc \in {"repoint", "capacity"}
    <3>1. payLock[req[c].p] = c
      BY <1>2, <2>1 DEF RequestOK, HoldsLocks
    <3>2. req[c].p \in Pays
      BY <2>1, RequestPayment DEF SettleInv
    <3> QED
      BY <1>1, <3>1, <3>2 DEF HoldsLocks, KeepsLocks
  <2> QED
    BY <1>1, <2>1 DEF HoldsLocks
<1>4. NewlyPayable(c)'
  BY <1>1, <1>2 DEF RequestOK, NewlyPayable, Quiet
<1>5. Reserved(c)' /\ SettledMemory(c)' /\ CancelIsSafe(c)' /\ PutsNothingBack(c)'
  BY <1>1, <1>2 DEF RequestOK, Reserved, SettledMemory, CancelIsSafe, PutsNothingBack, Quiet
<1> QED
  BY <1>1, <1>3, <1>4, <1>5, QuietStep DEF RequestOK

LEMMA OfflineCommitStep ==
    ASSUME SettleInv, OwnInv', NEW c \in Reqs, OfflineCommit(c)
    PROVE  SettleInv'
<1> DEFINE p == req[c].p
           r == req[c].r
<1>1. p \in Pays /\ r \in Regs /\ RegOf[p] = r /\ req[c].pc = "offline"
  BY RequestPayment DEF OfflineCommit, SettleInv
<1>2. payStatus[p] = "ABSENT" /\ regLock[r] = c /\ ~ req[c].newly
  BY <1>1 DEF SettleInv, RequestOK, Reserved, HoldsLocks, NewlyPayable
<1>3. CASE Step(c, "fulfil") /\ payStatus' = [payStatus EXCEPT ![p] = "PAID"]
           /\ regStatus' = [regStatus EXCEPT ![r] = "CONFIRMED"]
  <2>1. /\ \A d \in Reqs \ {c} : req'[d] = req[d]
        /\ req'[c].pc = "fulfil" /\ req'[c].r = r
        /\ req'[c].seenReg = req[c].seenReg /\ req'[c].newly = req[c].newly
    BY <1>3, StepFrame DEF SettleInv
  <2>2. regStatus'[r] = "CONFIRMED" /\ \A x \in Regs \ {r} : regStatus'[x] = regStatus[x]
    BY <1>1, <1>3 DEF SettleInv, OwnInv, TypeOK
  <2>3. RequestOK(c)'
    BY <1>1, <1>2, <2>1, <2>2
    DEF RequestOK, HoldsLocks, Reserved, NewlyPayable, SettledMemory, CancelIsSafe, PutsNothingBack
  <2>4. ASSUME NEW d \in Reqs \ {c}
        PROVE  KeepsLocks(d) /\ KeepsRegs(d)
    BY <1>2, <2>2 DEF OfflineCommit, ReleaseLocks, KeepsLocks, KeepsRegs
  <2>5. ASSUME NEW d \in Reqs \ {c}
        PROVE  KeepsPay(d)
    <3>1. CASE req[d].p # p
      BY <1>3, <3>1 DEF KeepsPay, SettleInv, OwnInv, TypeOK
    <3>2. CASE req[d].p = p
      <4>1. req[d].pc \in {"order", "offline", "cancel"} => req[d].r = r
        BY <1>1, <3>2, CoreAssumption DEF SettleInv, OwnInv, OwnPayment
      <4>2. req[d].pc \notin {"order", "offline", "cancel"}
        BY <1>2, <4>1 DEF SettleInv, RequestOK, HoldsLocks
      <4>3. ~ req[d].newly
        BY <1>2, <3>2 DEF SettleInv, RequestOK, NewlyPayable, Payable
      <4> QED
        BY <4>2, <4>3 DEF KeepsPay
    <3> QED
      BY <3>1, <3>2
  <2>6. \A d \in Reqs : RequestOK(d)'
    BY <2>1, <2>3, <2>4, <2>5, OtherRequest DEF SettleInv
  <2>7. AppliedMeansPaid'
    BY <1>1, <1>3 DEF OfflineCommit, AppliedMeansPaid, SettleInv, OwnInv, TypeOK
  <2>8. PaidImpliesSettled'
    BY <1>1, <1>3, <2>2, CoreAssumption DEF PaidImpliesSettled, SettleInv, OwnInv, TypeOK
  <2> QED
    BY <2>6, <2>7, <2>8 DEF SettleInv
<1>4. CASE req' = [req EXCEPT ![c] = Idle] /\ UNCHANGED <<payStatus, regPtr, regStatus>>
  BY <1>4, QuietFinish DEF OfflineCommit, Quiet, Finish
<1> QED
  BY <1>3, <1>4 DEF OfflineCommit

LEMMA CreateOrderCommitStep ==
    ASSUME SettleInv, OwnInv', NEW c \in Reqs, CreateOrderCommit(c)
    PROVE  SettleInv'
<1> DEFINE p == req[c].p
           r == req[c].r
<1>1. p \in Pays /\ r \in Regs /\ RegOf[p] = r /\ req[c].pc = "order"
  BY RequestPayment DEF CreateOrderCommit, SettleInv
<1>2. payStatus[p] = "ABSENT" /\ regLock[r] = c
  BY <1>1 DEF SettleInv, RequestOK, Reserved, HoldsLocks
<1>3. /\ payStatus' = [payStatus EXCEPT ![p] = "CREATED"]
      /\ UNCHANGED <<regStatus, applied>> /\ Finish(c)
  BY DEF CreateOrderCommit
<1>4. ASSUME NEW d \in Reqs \ {c}
      PROVE  KeepsRegs(d) /\ KeepsPay(d)
  <2>1. KeepsRegs(d)
    BY <1>3 DEF KeepsRegs
  <2>2. CASE req[d].p # p
    BY <1>3, <2>1, <2>2 DEF KeepsPay, SettleInv, OwnInv, TypeOK
  <2>3. CASE req[d].p = p
    <3>1. req[d].pc \in {"order", "offline", "cancel"} => req[d].r = r
      BY <1>1, <2>3, CoreAssumption DEF SettleInv, OwnInv, OwnPayment
    <3>2. req[d].pc \notin {"order", "offline", "cancel"}
      BY <1>2, <3>1 DEF SettleInv, RequestOK, HoldsLocks
    <3>3. ~ req[d].newly
      BY <1>2, <2>3 DEF SettleInv, RequestOK, NewlyPayable, Payable
    <3> QED
      BY <2>1, <3>2, <3>3 DEF KeepsPay
  <2> QED
    BY <2>2, <2>3
<1>5. AppliedMeansPaid'
  BY <1>1, <1>2, <1>3 DEF AppliedMeansPaid, SettleInv, OwnInv, TypeOK
<1>6. PaidImpliesSettled'
  BY <1>1, <1>3 DEF PaidImpliesSettled, SettleInv, OwnInv, TypeOK
<1> QED
  BY <1>3, <1>4, <1>5, <1>6, WriteStep

\* A cancellation fails the payment it saw as CREATED: nobody can have paid
\* it meanwhile, for that takes the registration's row lock.
LEMMA CancelCommitStep ==
    ASSUME SettleInv, OwnInv', NEW c \in Reqs, CancelCommit(c)
    PROVE  SettleInv'
<1> DEFINE p == req[c].p
           r == req[c].r
<1>1. r \in Regs /\ req[c].pc = "cancel"
  BY RequestFields DEF CancelCommit, SettleInv, OwnInv, TypeOK
<1>2. regLock[r] = c /\ regStatus[r] = "PENDING"
  BY <1>1 DEF SettleInv, RequestOK, HoldsLocks, CancelIsSafe
<1>3. /\ regStatus' = [regStatus EXCEPT ![r] = "CANCELLED"]
      /\ applied' = applied /\ Finish(c)
  BY DEF CancelCommit
<1>4. \/ payStatus' = payStatus
      \/ /\ p \in Pays /\ payStatus[p] \in Payable
         /\ payStatus' = [payStatus EXCEPT ![p] = "FAILED"]
  BY <1>1 DEF CancelCommit, SettleInv, OwnInv, OwnPayment, RequestOK, CancelIsSafe
<1>5. regStatus'[r] = "CANCELLED" /\ \A x \in Regs \ {r} : regStatus'[x] = regStatus[x]
  BY <1>1, <1>3 DEF SettleInv, OwnInv, TypeOK
<1>6. ASSUME NEW d \in Reqs \ {c}
      PROVE  KeepsRegs(d) /\ KeepsPay(d)
  <2>1. KeepsRegs(d)
    BY <1>2, <1>5 DEF KeepsRegs
  <2>2. KeepsPay(d)
    BY <1>4 DEF KeepsPay, Payable, SettleInv, OwnInv, TypeOK
  <2> QED
    BY <2>1, <2>2
<1>7. AppliedMeansPaid'
  BY <1>3, <1>4 DEF AppliedMeansPaid, SettleInv, OwnInv, TypeOK, Payable
<1>8. PaidImpliesSettled'
  BY <1>3, <1>4, <1>5, CoreAssumption DEF PaidImpliesSettled, SettleInv, OwnInv, TypeOK
<1> QED
  BY <1>3, <1>6, <1>7, <1>8, WriteStep

LEMMA RefundCommitStep ==
    ASSUME SettleInv, OwnInv', NEW c \in Reqs, RefundCommit(c)
    PROVE  SettleInv'
<1> DEFINE p == req[c].p
<1>1. p \in Pays /\ Finish(c) /\ applied' = applied
  BY RequestPayment DEF RefundCommit, SettleInv
<1>2. CASE payStatus[p] # "PAID"
  BY <1>1, <1>2, QuietFinish DEF RefundCommit, Quiet
<1>3. CASE payStatus[p] = "PAID"
  <2>1. /\ \A r \in PointingTo(p) : regLock[r] = NoReq
        /\ payStatus' = [payStatus EXCEPT ![p] = "REFUNDED"]
        /\ regStatus' = [r \in Regs |-> IF r \in PointingTo(p)
                                          THEN "CANCELLED" ELSE regStatus[r]]
    BY <1>3 DEF RefundCommit
  <2>2. ASSUME NEW d \in Reqs \ {c}
        PROVE  KeepsRegs(d)
    BY <2>1, CoreAssumption DEF KeepsRegs
  <2>3. ASSUME NEW d \in Reqs \ {c}
        PROVE  KeepsPay(d)
    <3>1. CASE req[d].p # p
      BY <2>1, <3>1 DEF KeepsPay, SettleInv, OwnInv, TypeOK
    <3>2. CASE req[d].p = p
      <4>1. ~ req[d].newly
        BY <1>3, <3>2 DEF SettleInv, RequestOK, NewlyPayable, Payable
      <4>2. req[d].pc \notin {"order", "offline"}
        BY <1>3, <3>2 DEF SettleInv, RequestOK, Reserved
      <4>3. req[d].pc = "cancel" => req[d].r = RegOf[p] /\ regStatus[req[d].r] = "PENDING"
        BY <1>1, <3>2, CoreAssumption
        DEF SettleInv, OwnInv, OwnPayment, RequestOK, CancelIsSafe
      <4>4. req[d].pc # "cancel"
        BY <1>1, <1>3, <4>3 DEF SettleInv, PaidImpliesSettled
      <4> QED
        BY <4>1, <4>2, <4>4 DEF KeepsPay
    <3> QED
      BY <3>1, <3>2
  <2>4. AppliedMeansPaid'
    BY <1>1, <2>1 DEF AppliedMeansPaid, SettleInv, OwnInv, TypeOK
  <2>5. PaidImpliesSettled'
    BY <1>1, <2>1, CoreAssumption DEF PaidImpliesSettled, SettleInv, OwnInv, TypeOK
  <2> QED
    BY <1>1, <2>2, <2>3, <2>4, <2>5, WriteStep
<1> QED
  BY <1>2, <1>3

\* Recovery takes the payment's row lock under the registration's.
LEMMA RecoverPayStep ==
    ASSUME SettleInv, OwnInv', NEW c \in Reqs, RecoverPay(c)
    PROVE  SettleInv'
<1> DEFINE p == req[c].p
           seen == IF req[c].seenPay = "UNREAD" THEN payStatus[p] ELSE req[c].seenPay
<1>1. p \in Pays /\ req[c].pc = "recoverPay" /\ Quiet
  BY RequestPayment DEF RecoverPay, SettleInv, Quiet, regVars, payVars
<1>2. CASE Finish(c)
  BY <1>1, <1>2, QuietFinish
<1>3. ASSUME payLock' = [payLock EXCEPT ![p] = c],
             req' = [req EXCEPT ![c] = [req[c] EXCEPT !.pc = "lockPay", !.seenPay = seen]],
             UNCHANGED <<regLock, eventLock>>
      PROVE  SettleInv'
  <2>1. /\ req'[c].pc = "lockPay" /\ req'[c].seenReg = req[c].seenReg
        /\ req'[c].newly = req[c].newly
        /\ req'[c].p = p /\ req'[c].r = req[c].r
    BY <1>3 DEF SettleInv, OwnInv, TypeOK, Request
  <2>2. RequestOK(c)'
    BY <1>1, <2>1
    DEF SettleInv, Quiet, RequestOK, HoldsLocks, Reserved, NewlyPayable, SettledMemory,
        CancelIsSafe, PutsNothingBack
  <2>3. \A d \in Reqs \ {c} : req'[d] = req[d]
    BY <1>3 DEF SettleInv, OwnInv, TypeOK
  <2>4. \A d \in Reqs \ {c} : KeepsLocks(d)
    BY <1>1, <1>3, CoreAssumption DEF RecoverPay, KeepsLocks, SettleInv, OwnInv, TypeOK
  <2> QED
    BY <1>1, <2>2, <2>3, <2>4, QuietStep
<1> QED
  BY <1>2, <1>3 DEF RecoverPay

\* The administrator's PATCH cancels; nobody revokes.
LEMMA PatchCommitStep ==
    ASSUME SettleInv, OwnInv', NEW c \in Reqs, PatchCommit(c) \/ RevokeCommit(c)
    PROVE  SettleInv'
<1> DEFINE r == req[c].r
<1>1. req[c].pc = "patch" /\ req[c].seenReg # "CANCELLED" /\ r \in Regs
  BY RequestFields
  DEF PatchCommit, RevokeCommit, SettleInv, RequestOK, PutsNothingBack, OwnInv, TypeOK
<1>2. /\ regLock[r] = NoReq /\ regStatus' = [regStatus EXCEPT ![r] = "CANCELLED"]
      /\ UNCHANGED <<payStatus, applied>> /\ Finish(c)
  BY <1>1 DEF PatchCommit, RevokeCommit, payVars
<1>3. \A d \in Reqs : KeepsRegs(d) /\ KeepsPay(d)
  BY <1>2, CoreAssumption DEF KeepsRegs, KeepsPay, SettleInv, OwnInv, TypeOK
<1>4. AppliedMeansPaid'
  BY <1>2 DEF AppliedMeansPaid, SettleInv
<1>5. PaidImpliesSettled'
  BY <1>2, CoreAssumption DEF PaidImpliesSettled, SettleInv, OwnInv, TypeOK
<1> QED
  BY <1>2, <1>3, <1>4, <1>5, WriteStep

\* Steps that belong to no request.
LEMMA LooseStep ==
    ASSUME SettleInv, OwnInv',
           \/ \E p \in Pays : ProviderCapture(p) \/ FailPayment(p)
           \/ \E r \in Regs : OfflineAgain(r) \/ AdminCancel(r)
           \/ UNCHANGED vars
    PROVE  SettleInv'
<1>1. UNCHANGED <<req, regLock, payLock, applied>>
  BY DEF ProviderCapture, FailPayment, OfflineAgain, AdminCancel, vars, locks, payVars
<1>2. CASE UNCHANGED <<regStatus, payStatus>>
  <2>1. \A d \in Reqs : KeepsRegs(d) /\ KeepsPay(d)
    BY <1>2 DEF KeepsRegs, KeepsPay
  <2>2. AppliedMeansPaid' /\ PaidImpliesSettled'
    BY <1>1, <1>2 DEF SettleInv, AppliedMeansPaid, PaidImpliesSettled
  <2> QED
    BY <1>1, <2>1, <2>2, UnmovedStep
<1>3. ASSUME NEW p \in Pays, FailPayment(p)
      PROVE  SettleInv'
  <2>1. /\ payStatus[p] = "CREATED" /\ payStatus' = [payStatus EXCEPT ![p] = "FAILED"]
        /\ regStatus' = regStatus
    BY <1>3 DEF FailPayment, regVars
  <2>2. \A d \in Reqs : KeepsRegs(d) /\ KeepsPay(d)
    BY <2>1 DEF KeepsRegs, KeepsPay, Payable, SettleInv, OwnInv, TypeOK
  <2>3. AppliedMeansPaid'
    BY <1>1, <2>1 DEF AppliedMeansPaid, SettleInv, OwnInv, TypeOK
  <2>4. PaidImpliesSettled'
    BY <2>1 DEF PaidImpliesSettled, SettleInv, OwnInv, TypeOK
  <2> QED
    BY <1>1, <2>2, <2>3, <2>4, UnmovedStep
<1>4. ASSUME NEW r \in Regs, AdminCancel(r)
      PROVE  SettleInv'
  <2>1. /\ regLock[r] = NoReq /\ regStatus' = [regStatus EXCEPT ![r] = "CANCELLED"]
        /\ payStatus' = payStatus
    BY <1>4 DEF AdminCancel, payVars
  <2>2. \A d \in Reqs : KeepsRegs(d) /\ KeepsPay(d)
    BY <2>1, CoreAssumption DEF KeepsRegs, KeepsPay, SettleInv, OwnInv, TypeOK
  <2>3. AppliedMeansPaid'
    BY <1>1, <2>1 DEF AppliedMeansPaid, SettleInv
  <2>4. PaidImpliesSettled'
    BY <2>1, CoreAssumption DEF PaidImpliesSettled, SettleInv, OwnInv, TypeOK
  <2> QED
    BY <1>1, <2>2, <2>3, <2>4, UnmovedStep
<1> QED
  BY <1>2, <1>3, <1>4
  DEF ProviderCapture, OfflineAgain, vars, regVars, payVars

\* A step of a request that is being handled.
LEMMA ProgressStep ==
    ASSUME SettleInv, OwnInv', NEW c \in Reqs, Progress(c) \/ Abort(c)
    PROVE  SettleInv'
<1>1. CASE ReconcileSibling(c)
  <2>1. Quiet
    BY <1>1 DEF ReconcileSibling, Quiet, regVars, payVars
  <2>2. CASE Finish(c)
    BY <2>1, <2>2, QuietFinish
  <2>3. CASE Step(c, "lockPay") /\ UNCHANGED locks
    <3>1. \A d \in Reqs : KeepsLocks(d)
      BY <2>3 DEF KeepsLocks, locks
    <3> QED
      BY <1>1, <2>1, <2>3, <3>1, MoveStep DEF ReconcileSibling
  <2> QED
    BY <1>1, <2>2, <2>3 DEF ReconcileSibling
<1>2. CASE ApplyRepoint(c)
  <2>1. Quiet /\ req[c].pc = "repoint" /\ Step(c, ConfirmPc(req[c].seenReg))
    BY <1>2 DEF ApplyRepoint, Quiet, regVars, payVars
  <2>2. \A d \in Reqs : KeepsLocks(d)
    BY <1>2, CoreAssumption
    DEF ApplyRepoint, Grants, KeepsLocks, SettleInv, OwnInv, TypeOK
  <2>3. ConfirmPc(req[c].seenReg) \in {"capacity", "commit"}
    BY DEF ConfirmPc
  <2> QED
    BY <2>1, <2>2, <2>3, MoveStep
<1>3. CASE ApplyCapacity(c)
  <2>1. Quiet /\ req[c].pc = "capacity"
    BY <1>3 DEF ApplyCapacity, Quiet, regVars, payVars
  <2>2. CASE Finish(c)
    BY <2>1, <2>2, QuietFinish
  <2>3. CASE Step(c, "commit") /\ UNCHANGED <<regLock, payLock>>
    <3>1. \A d \in Reqs : KeepsLocks(d)
      BY <2>3 DEF KeepsLocks
    <3> QED
      BY <2>1, <2>3, <3>1, MoveStep
  <2> QED
    BY <1>3, <2>2, <2>3 DEF ApplyCapacity
<1>4. CASE OfflineFulfil(c) \/ Abort(c) \/ DeadlockVictim(c)
  <2>1. Quiet /\ Finish(c)
    BY <1>4 DEF OfflineFulfil, Abort, DeadlockVictim, Quiet, regVars, payVars
  <2> QED
    BY <2>1, QuietFinish
<1> QED
  BY <1>1, <1>2, <1>3, <1>4, ApplyLockStep, ApplyCommitStep, CreateOrderCommitStep,
     OfflineCommitStep, RecoverPayStep, CancelCommitStep, RefundCommitStep, PatchCommitStep
  DEF Progress

\* A request that begins, for a payment and the payment's registration.
LEMMA PaymentArrivalStep ==
    ASSUME SettleInv, OwnInv', NEW c \in Reqs, NEW p \in Pays,
           \/ Webhook(c, p) \/ Verify(c, p) \/ Sync(c, p) \/ Reconcile(c, p)
           \/ RecoverBegin(c, p) \/ RefundBegin(c, p)
    PROVE  SettleInv'
<1> DEFINE r == RegOf[p]
<1>1. r \in Regs /\ Quiet
  BY CoreAssumption
  DEF Webhook, Verify, Sync, Reconcile, RecoverBegin, RefundBegin, Quiet, regVars, payVars
<1>2. /\ payLock' = payLock
      /\ \/ regLock' = regLock
         \/ regLock[r] = NoReq /\ regLock' = [regLock EXCEPT ![r] = c]
  BY DEF Webhook, Verify, Sync, Reconcile, RecoverBegin, RefundBegin, locks
<1>3. \A d \in Reqs \ {c} : KeepsLocks(d)
  BY <1>1, <1>2, OthersKeepLocks DEF SettleInv
<1>4. CASE Webhook(c, p) \/ Verify(c, p) \/ Sync(c, p)
  <2>1. \E sp \in PayStatus : Start(c, "lockPay", r, p, sp, "UNREAD", NoPay)
    BY <1>4 DEF Webhook, Verify, Sync, PayStatus, SettleInv, OwnInv, TypeOK
  <2>2. PICK sp \in PayStatus : Start(c, "lockPay", r, p, sp, "UNREAD", NoPay)
    BY <2>1
  <2> QED
    BY <1>1, <1>3, <2>1, <2>2, QuietStart
<1>5. CASE Reconcile(c, p)
  <2>1. Start(c, "sibling", r, p, payStatus[p], regStatus[r], regPtr[r])
    BY <1>5 DEF Reconcile
  <2> QED
    BY <1>1, <1>3, <2>1, QuietStart
<1>6. CASE RecoverBegin(c, p)
  <2>1. \E sp : Start(c, "recoverPay", r, p, sp, regStatus[r], regPtr[r])
    BY <1>6 DEF RecoverBegin
  <2>2. PICK sp : Start(c, "recoverPay", r, p, sp, regStatus[r], regPtr[r])
    BY <2>1
  <2> QED
    BY <1>1, <1>3, <2>1, <2>2, QuietStart
<1>7. CASE RefundBegin(c, p)
  <2>1. Start(c, "refund", r, p, "PAID", "UNREAD", NoPay)
    BY <1>7 DEF RefundBegin
  <2> QED
    BY <1>1, <1>3, <2>1, QuietStart
<1> QED
  BY <1>4, <1>5, <1>6, <1>7

\* A request that begins with the registration, under its row lock.
LEMMA RegistrationArrivalStep ==
    ASSUME SettleInv, OwnInv', NEW c \in Reqs, NEW r \in Regs,
           \/ \E byId \in BOOLEAN :
                CreateOrderSync(c, r, byId) \/ \E p \in Pays : CreateOrderNew(c, r, byId, p)
           \/ CancelBegin(c, r) \/ \E p \in Pays : OfflineBegin(c, r, p)
    PROVE  SettleInv'
<1>1. /\ Quiet /\ regLock[r] = NoReq /\ regLock' = [regLock EXCEPT ![r] = c]
      /\ payLock' = payLock
  BY DEF CreateOrderSync, CreateOrderNew, CancelBegin, OfflineBegin, Quiet, regVars, payVars
<1>2. regLock'[r] = c
  BY <1>1 DEF SettleInv, OwnInv, TypeOK
<1>3. \A d \in Reqs \ {c} : KeepsLocks(d)
  BY <1>1, OthersKeepLocks DEF SettleInv
<1>4. ASSUME NEW p, Start(c, "lockPay", r, p, "CREATED", regStatus[r], p)
      PROVE  SettleInv'
  BY <1>1, <1>3, <1>4, QuietStart
<1>5. ASSUME NEW pc \in {"order", "offline"}, NEW p \in Pays, payStatus[p] = "ABSENT",
             Start(c, pc, r, p, "UNREAD", regStatus[r], regPtr[r])
      PROVE  SettleInv'
  BY <1>1, <1>2, <1>3, <1>5, QuietStart
<1>6. CASE CancelBegin(c, r)
  <2> DEFINE p == regPtr[r]
             sp == IF p = NoPay THEN "UNREAD" ELSE payStatus[p]
  <2>1. regStatus[r] = "PENDING" /\ Start(c, "cancel", r, p, sp, regStatus[r], p)
    BY <1>6 DEF CancelBegin
  <2>2. sp = "CREATED" => payStatus[p] \in Payable
    BY DEF Payable
  <2> HIDE DEF p, sp
  <2> QED
    BY <1>1, <1>2, <1>3, <2>1, <2>2, QuietStart
<1> QED
  BY <1>4, <1>5, <1>6 DEF CreateOrderSync, CreateOrderNew, OfflineBegin, FreshPays, ReqPays

\* A PATCH that begins will cancel.
LEMMA PatchArrivalStep ==
    ASSUME SettleInv, OwnInv', NeverReopened, NEW c \in Reqs, NEW r \in Regs,
           PatchBegin(c, r) \/ RevokeBegin(c, r)
    PROVE  SettleInv'
<1>1. /\ Start(c, "patch", r, NoPay, "UNREAD", regStatus[r], NoPay)
      /\ regStatus[r] # "CANCELLED"
      /\ Quiet /\ UNCHANGED <<regLock, payLock>>
  BY DEF PatchBegin, RevokeBegin, NeverReopened, Quiet, regVars, payVars, locks
<1>2. \A d \in Reqs \ {c} : KeepsLocks(d)
  BY <1>1, OthersKeepLocks DEF SettleInv
<1> QED
  BY <1>1, <1>2, QuietStart

\* SettleInv is inductive as long as nobody puts a registration back.
LEMMA SettleStep ==
    ASSUME SettleInv, NeverReopened, [Next]_vars
    PROVE  SettleInv'
<1>1. OwnInv'
  BY OwnStep DEF SettleInv
<1>2. ASSUME NEW c \in Reqs, Progress(c) \/ Abort(c)
      PROVE  SettleInv'
  BY <1>1, <1>2, ProgressStep
<1>3. CASE Arrival
  BY <1>1, <1>3, LooseStep, PaymentArrivalStep, RegistrationArrivalStep, PatchArrivalStep
  DEF Arrival
<1> QED
  BY <1>1, <1>2, <1>3, LooseStep DEF Next

LEMMA SettleInit == Init => SettleInv
<1> SUFFICES ASSUME Init
             PROVE  SettleInv
  OBVIOUS
<1>1. OwnInv
  BY OwnInit
<1>2. \A c \in Reqs : RequestOK(c)
  BY DEF Init, RequestOK, HoldsLocks, Reserved, NewlyPayable, SettledMemory, CancelIsSafe, PutsNothingBack, Idle
<1>3. AppliedMeansPaid /\ PaidImpliesSettled
  BY DEF Init, AppliedMeansPaid, PaidImpliesSettled
<1> QED
  BY <1>1, <1>2, <1>3 DEF SettleInv

\* In every reachable state payments and registrations are settled together:
\* the invariant the three results below are read off.
THEOREM SettleInvariant ==
    ASSUME NeverReopened
    PROVE  Spec => []SettleInv
<1>1. Init => SettleInv
  BY SettleInit
<1>2. SettleInv /\ [Next]_vars => SettleInv'
  BY SettleStep
<1> QED
  BY <1>1, <1>2, PTL DEF Spec

\* A PAID payment never belongs to a registration that still waits for
\* payment: apply, offline and cancel write both rows in one transaction.
THEOREM PaidIsSettled ==
    ASSUME NeverReopened
    PROVE  Spec => []PaidImpliesSettled
<1>1. SettleInv => PaidImpliesSettled
  BY DEF SettleInv
<1> QED
  BY <1>1, SettleInvariant, PTL

\* However many deliveries of a capture race, one of them applies it.
THEOREM AppliedAtMostOnce ==
    ASSUME NeverReopened
    PROVE  Spec => []AppliedOnce
<1>1. SettleInv => AppliedOnce
  BY DEF SettleInv, AppliedMeansPaid, AppliedOnce
<1> QED
  BY <1>1, SettleInvariant, PTL

\* A step that writes a payment writes one, and a settled one only becomes
\* REFUNDED; no row disappears.
LEMMA PaymentMoves ==
    ASSUME SettleInv, [Next]_vars
    PROVE  \/ payStatus' = payStatus
           \/ \E p \in Pays, st \in PayStatus :
                /\ payStatus' = [payStatus EXCEPT ![p] = st]
                /\ st # "ABSENT"
                /\ payStatus[p] \in {"PAID", "REFUNDED"} =>
                     payStatus[p] = "PAID" /\ st = "REFUNDED"
<1> DEFINE Goal ==
      \/ payStatus' = payStatus
      \/ \E p \in Pays, st \in PayStatus :
           /\ payStatus' = [payStatus EXCEPT ![p] = st]
           /\ st # "ABSENT"
           /\ payStatus[p] \in {"PAID", "REFUNDED"} =>
                payStatus[p] = "PAID" /\ st = "REFUNDED"
<1>1. ASSUME NEW c \in Reqs, ApplyCommit(c)
      PROVE  Goal
  <2>1. req[c].p \in Pays /\ req[c].pc = "commit"
    BY <1>1, RequestPayment DEF ApplyCommit, SettleInv
  <2> QED
    BY <1>1, <2>1
    DEF ApplyCommit, SettleInv, RequestOK, NewlyPayable, Payable, PayStatus
<1>2. ASSUME NEW p \in Pays, FailPayment(p)
      PROVE  Goal
  BY <1>2 DEF FailPayment, PayStatus
<1>3. ASSUME NEW c \in Reqs, CreateOrderCommit(c)
      PROVE  Goal
  <2>1. req[c].p \in Pays /\ req[c].pc = "order"
    BY <1>3, RequestPayment DEF CreateOrderCommit, SettleInv
  <2> QED
    BY <1>3, <2>1 DEF CreateOrderCommit, SettleInv, RequestOK, Reserved, PayStatus
<1>4. ASSUME NEW c \in Reqs, OfflineCommit(c)
      PROVE  Goal
  <2>1. req[c].p \in Pays /\ req[c].pc = "offline"
    BY <1>4, RequestPayment DEF OfflineCommit, SettleInv
  <2>2. payStatus[req[c].p] = "ABSENT"
    BY <2>1 DEF SettleInv, RequestOK, Reserved
  <2>3. payStatus' = payStatus \/ payStatus' = [payStatus EXCEPT ![req[c].p] = "PAID"]
    BY <1>4 DEF OfflineCommit
  <2> QED
    BY <2>1, <2>2, <2>3 DEF PayStatus
<1>5. ASSUME NEW c \in Reqs, CancelCommit(c)
      PROVE  Goal
  BY <1>5
  DEF CancelCommit, SettleInv, OwnInv, OwnPayment, RequestOK, CancelIsSafe, Payable, PayStatus
<1>6. ASSUME NEW c \in Reqs, RefundCommit(c)
      PROVE  Goal
  <2>1. req[c].p \in Pays
    BY <1>6, RequestPayment DEF RefundCommit, SettleInv
  <2> QED
    BY <1>6, <2>1 DEF RefundCommit, PayStatus
<1>7. ASSUME NEW c \in Reqs,
             \/ ReconcileSibling(c) \/ ApplyLock(c) \/ ApplyRepoint(c) \/ ApplyCapacity(c)
             \/ OfflineFulfil(c) \/ RecoverPay(c) \/ DeadlockVictim(c) \/ Abort(c)
             \/ PatchCommit(c) \/ RevokeCommit(c)
      PROVE  payStatus' = payStatus
  BY <1>7
  DEF ReconcileSibling, ApplyLock, ApplyRepoint, ApplyCapacity, OfflineFulfil, RecoverPay,
      DeadlockVictim, Abort, PatchCommit, RevokeCommit, payVars
<1>8. ASSUME Arrival, \A p \in Pays : ~ FailPayment(p)
      PROVE  payStatus' = payStatus
  BY <1>8
  DEF Arrival, Webhook, Verify, Sync, Reconcile, RecoverBegin, RefundBegin, CreateOrderSync,
      CreateOrderNew, CancelBegin, OfflineBegin, OfflineAgain, AdminCancel, PatchBegin,
      RevokeBegin, payVars
<1>9. ASSUME (\E p \in Pays : ProviderCapture(p)) \/ UNCHANGED vars
      PROVE  payStatus' = payStatus
  BY <1>9 DEF ProviderCapture, vars, payVars
<1> HIDE DEF Goal
<1>10. (payStatus' = payStatus) => Goal
  BY DEF Goal
<1>11. Goal
  BY <1>1, <1>2, <1>3, <1>4, <1>5, <1>6, <1>7, <1>8, <1>9, <1>10 DEF Next, Progress
<1> QED
  BY <1>11 DEF Goal

\* PAID only becomes REFUNDED and REFUNDED is final, in every interleaving of
\* stale sessions, failure events and cancellations, PATCH among them, as long
\* as no registration is put back to PENDING.
THEOREM NeverDowngraded ==
    ASSUME NeverReopened
    PROVE  Spec => NoDowngrade
<1> DEFINE Kept ==
      \A p \in Pays :
        /\ payStatus[p] = "PAID" => payStatus'[p] \in {"PAID", "REFUNDED"}
        /\ payStatus[p] = "REFUNDED" => payStatus'[p] = "REFUNDED"
<1>1. SettleInv /\ [Next]_vars => [Kept]_vars
  <2> SUFFICES ASSUME SettleInv, [Next]_vars
               PROVE  Kept
    OBVIOUS
  <2> QED
    BY PaymentMoves DEF SettleInv, OwnInv, TypeOK
<1>2. [][Kept]_vars <=> NoDowngrade
  BY DEF NoDowngrade
<1> QED
  BY <1>1, <1>2, SettleInvariant, PTL DEF Spec
=============================================================================
