---------------------------- MODULE PaymentCore ----------------------------
(***************************************************************************)
(* Payments and solo registrations of one event, as the request handlers   *)
(* of app/payments and app/services change them in PostgreSQL under READ   *)
(* COMMITTED.  Each request owns one session (one transaction at a time).  *)
(* A request reads rows into the session, may wait for the provider or for *)
(* a row lock, and decides on what the session remembers: a later          *)
(* SELECT ... FOR UPDATE takes the row lock but does not refresh an object *)
(* the session already holds.  The seen... fields of a request are that    *)
(* memory.  Uncommitted writes are invisible to others, so a transaction's *)
(* writes are applied by its commit step, while it holds the row locks.    *)
(*                                                                         *)
(* A payment row is born for one registration and keeps it: RegOf gives    *)
(* the registration of every payment row that may ever be inserted.        *)
(***************************************************************************)
EXTENDS Naturals, FiniteSets

CONSTANTS
    Regs,        \* registration rows (solo) of the event
    Pays,        \* payment rows that may be inserted
    RegOf,       \* payments.registration_id of each of them
    Reqs,        \* requests that may run at the same time
    Capacity,    \* events.capacity
    Ops,         \* the operations this instance offers
    Fulfils,     \* possible results of the QR and the receipt step
    MaxAborts,   \* bound on requests lost to a crash, a timeout or an error
    NoPay, NoReq \* NULL pointer, free lock

\* Every operation that changes a registration, a payment or a QR code here.
\* PatchCancel and Reopen are the two effects of PATCH on a registration.  An
\* insert, by the participant or by hand, makes a registration as in Init;
\* inserted as paid it goes on as Offline.
AllOps == {"CreateOrder", "Webhook", "Verify", "Sync", "Reconcile", "Fail",
           "Offline", "Recover", "Cancel", "AdminCancel", "PatchCancel", "Reopen",
           "Revoke", "Refund"}

ASSUME CoreAssumption ==
    /\ IsFiniteSet(Regs) /\ Regs # {}
    /\ RegOf \in [Pays -> Regs]
    /\ Capacity \in Nat /\ MaxAborts \in Nat
    /\ Ops \subseteq AllOps
    /\ Fulfils \subseteq BOOLEAN /\ Fulfils # {}
    /\ NoPay \notin Pays /\ NoReq \notin Reqs

VARIABLES
    regStatus,   \* registrations.status
    regPtr,      \* registrations.payment_id
    qr,          \* the registration's qr_codes row: none, active or inactive
    payStatus,   \* payments.status, ABSENT before the insert
    order,       \* the provider's view of the payment's order
    receipts,    \* payments that have a receipts row
    applied,     \* how often apply_payment_success made each payment newly paid
    regLock, payLock, eventLock,   \* holders of the row locks
    req,         \* what each request is doing and remembers
    aborts       \* requests lost so far

regVars == <<regStatus, regPtr, qr>>
payVars == <<payStatus, receipts, applied>>
locks   == <<regLock, payLock, eventLock>>
vars    == <<regVars, payVars, order, locks, req, aborts>>

RegStatus == {"PENDING", "CONFIRMED", "CANCELLED"}
PayStatus == {"ABSENT", "CREATED", "FAILED", "PAID", "REFUNDED"}
Payable   == {"CREATED", "FAILED"}

PCs == {"idle", "sibling", "lockPay", "repoint", "capacity", "commit",
        "recoverPay", "order", "offline", "fulfil", "cancel", "patch", "revoke",
        "refund"}

\* UNREAD: the session has not loaded that row yet.
Request == [pc : PCs, r : Regs, p : Pays \cup {NoPay},
            seenPay : PayStatus \cup {"UNREAD"},
            seenReg : RegStatus \cup {"UNREAD"},
            seenPtr : Pays \cup {NoPay},
            newly : BOOLEAN]

\* An idle request remembers nothing: its fields have fixed values.
Idle == [pc |-> "idle", r |-> CHOOSE r \in Regs : TRUE, p |-> NoPay,
         seenPay |-> "UNREAD", seenReg |-> "UNREAD", seenPtr |-> NoPay,
         newly |-> FALSE]

Init ==
    /\ regStatus = [r \in Regs |-> "PENDING"]
    /\ regPtr    = [r \in Regs |-> NoPay]
    /\ qr        = [r \in Regs |-> "none"]
    /\ payStatus = [p \in Pays |-> "ABSENT"]
    /\ order     = [p \in Pays |-> "none"]
    /\ receipts  = {}
    /\ applied   = [p \in Pays |-> 0]
    /\ regLock   = [r \in Regs |-> NoReq]
    /\ payLock   = [p \in Pays |-> NoReq]
    /\ eventLock = NoReq
    /\ req       = [c \in Reqs |-> Idle]
    /\ aborts    = 0
-----------------------------------------------------------------------------
(* Sessions and row locks.                                                 *)

\* Variants named Mutant... are defects the runs must notice: they stand in
\* for the definition that follows them and are used nowhere else.

MutantGrants(holder, c) == TRUE

\* A row lock is granted when it is free or already held by the requester.
Grants(holder, c) == holder \in {NoReq, c}

\* The event row stays locked.
MutantReleaseLocks(c) ==
    /\ regLock' = [r \in Regs |-> IF regLock[r] = c THEN NoReq ELSE regLock[r]]
    /\ payLock' = [p \in Pays |-> IF payLock[p] = c THEN NoReq ELSE payLock[p]]
    /\ eventLock' = eventLock

\* Commit, rollback or close: every row lock of the transaction is released.
ReleaseLocks(c) ==
    /\ regLock' = [r \in Regs |-> IF regLock[r] = c THEN NoReq ELSE regLock[r]]
    /\ payLock' = [p \in Pays |-> IF payLock[p] = c THEN NoReq ELSE payLock[p]]
    /\ eventLock' = IF eventLock = c THEN NoReq ELSE eventLock

Finish(c) == req' = [req EXCEPT ![c] = Idle] /\ ReleaseLocks(c)

Step(c, pc) == req' = [req EXCEPT ![c].pc = pc]

\* A request begins at pc, having read what the record says.
Start(c, pc, r, p, sp, sr, sptr) ==
    /\ req[c].pc = "idle"
    /\ req' = [req EXCEPT ![c] =
                 [pc |-> pc, r |-> r, p |-> p, seenPay |-> sp, seenReg |-> sr,
                  seenPtr |-> sptr, newly |-> FALSE]]

ReqPays(r) == {p \in Pays : RegOf[p] = r}

\* Rows a caller may insert next for r.
FreshPays(r) == {p \in ReqPays(r) : payStatus[p] = "ABSENT"}
-----------------------------------------------------------------------------
(* The provider: an order is captured when the customer pays.              *)

ProviderCapture(p) ==
    /\ order[p] = "open"
    /\ order' = [order EXCEPT ![p] = "captured"]
    /\ UNCHANGED <<regVars, payVars, locks, req, aborts>>
-----------------------------------------------------------------------------
(* Ways into apply_payment_success.  Each loads the payment without a lock *)
(* and then waits for the provider (or checks a signature), so the payment *)
(* it remembers can be old when apply locks the row.                       *)

\* payment.captured and order.paid: proved against the provider's API.
Webhook(c, p) ==
    /\ "Webhook" \in Ops
    /\ payStatus[p] # "ABSENT" /\ order[p] = "captured"
    /\ Start(c, "lockPay", RegOf[p], p, payStatus[p], "UNREAD", NoPay)
    /\ UNCHANGED <<regVars, payVars, order, locks, aborts>>

\* The checkout signature proves the capture, even after a refund.
Verify(c, p) ==
    /\ "Verify" \in Ops
    /\ payStatus[p] # "ABSENT" /\ order[p] \in {"captured", "refunded"}
    /\ Start(c, "lockPay", RegOf[p], p, payStatus[p], "UNREAD", NoPay)
    /\ UNCHANGED <<regVars, payVars, order, locks, aborts>>

Sync(c, p) ==
    /\ "Sync" \in Ops
    /\ payStatus[p] = "CREATED" /\ order[p] = "captured"
    /\ Start(c, "lockPay", RegOf[p], p, "CREATED", "UNREAD", NoPay)
    /\ UNCHANGED <<regVars, payVars, order, locks, aborts>>

\* Reconcile also remembers the registration, read before the provider call.
Reconcile(c, p) ==
    LET r == RegOf[p] IN
    /\ "Reconcile" \in Ops
    /\ payStatus[p] # "ABSENT" /\ order[p] = "captured"
    /\ regStatus[r] # "CANCELLED"
    /\ Start(c, "sibling", r, p, payStatus[p], regStatus[r], regPtr[r])
    /\ UNCHANGED <<regVars, payVars, order, locks, aborts>>

\* A second PAID payment of the registration makes this one a duplicate.
ReconcileSibling(c) ==
    LET p == req[c].p
        sibling == \E q \in ReqPays(req[c].r) \ {p} : payStatus[q] = "PAID"
    IN
    /\ req[c].pc = "sibling"
    /\ IF sibling /\ req[c].seenPay # "PAID"
         THEN Finish(c)
         ELSE Step(c, "lockPay") /\ UNCHANGED locks
    /\ UNCHANGED <<regVars, payVars, order, aborts>>
-----------------------------------------------------------------------------
(* apply_payment_success, one step per row lock it may wait for.           *)

\* Where the confirmation goes once the pointer is right: a registration
\* remembered as CONFIRMED skips the event lock and the capacity check.
ConfirmPc(seenReg) == IF seenReg = "CONFIRMED" THEN "commit" ELSE "capacity"

\* A remembered CANCELLED skips pointer, capacity and confirmation.
AfterLockPc(p, seenReg, seenPtr) ==
    CASE seenReg = "CANCELLED" -> "commit"
      [] seenReg # "CANCELLED" /\ seenPtr # p -> "repoint"
      [] OTHER -> ConfirmPc(seenReg)

\* The UPDATE has no status guard.
MutantUnguarded(seen, st) ==
    CASE seen = "PAID"      -> {"again"}
      [] seen \in Payable   -> {"newly"}
      [] OTHER              -> {"stop"}

\* A FAILED payment is not in the guard's list, and the handler goes on.
MutantFailedGoesOn(seen, st) ==
    CASE seen \in {"PAID", "FAILED"}              -> {"again"}
      [] seen = "CREATED" /\ st \in Payable       -> {"newly"}
      [] seen = "CREATED" /\ st \notin Payable    -> {"again", "stop"}
      [] OTHER                                    -> {"stop"}

\* A FAILED payment is final.
MutantFailedIsFinal(seen, st) ==
    CASE seen = "PAID"                          -> {"again"}
      [] seen = "CREATED" /\ st = "CREATED"     -> {"newly"}
      [] OTHER                                  -> {"stop"}

\* What the status transition comes to, given the remembered status seen and
\* the row's status st.  A guarded UPDATE that matches no row may or may not
\* leave the remembered object PAID (it depends on how the ORM synchronizes
\* the session); with PAID the handler goes on, otherwise it stops.
TransitionOutcomes(seen, st) ==
    CASE seen = "PAID"                          -> {"again"}
      [] seen \in Payable /\ st \in Payable     -> {"newly"}
      [] seen \in Payable /\ st \notin Payable  -> {"again", "stop"}
      [] OTHER                                  -> {"stop"}

\* Lock the payment, read the registration unless the session has it, and
\* run the guarded transition.
ApplyLock(c) ==
    LET q == req[c]
        sr == IF q.seenReg = "UNREAD" THEN regStatus[q.r] ELSE q.seenReg
        sptr == IF q.seenReg = "UNREAD" THEN regPtr[q.r] ELSE q.seenPtr
    IN
    /\ q.pc = "lockPay"
    /\ Grants(payLock[q.p], c)
    /\ \E outcome \in TransitionOutcomes(q.seenPay, payStatus[q.p]) :
         IF outcome = "stop"
           THEN Finish(c)
           ELSE /\ payLock' = [payLock EXCEPT ![q.p] = c]
                /\ req' = [req EXCEPT ![c] =
                     [q EXCEPT !.pc = AfterLockPc(q.p, sr, sptr), !.seenReg = sr,
                               !.seenPtr = sptr, !.newly = (outcome = "newly")]]
                /\ UNCHANGED <<regLock, eventLock>>
    /\ UNCHANGED <<regVars, payVars, order, aborts>>

\* The flush of the new pointer takes the registration's row lock.
ApplyRepoint(c) ==
    LET q == req[c] IN
    /\ q.pc = "repoint"
    /\ Grants(regLock[q.r], c)
    /\ regLock' = [regLock EXCEPT ![q.r] = c]
    /\ Step(c, ConfirmPc(q.seenReg))
    /\ UNCHANGED <<regVars, payVars, order, payLock, eventLock, aborts>>

Confirmed == {r \in Regs : regStatus[r] = "CONFIRMED"}

MutantHasRoom == Cardinality(Confirmed) <= Capacity

HasRoom == Cardinality(Confirmed) + 1 <= Capacity

\* enforce_capacity_before_confirmation: full means CAPACITY_FULL and rollback.
ApplyCapacity(c) ==
    /\ req[c].pc = "capacity"
    /\ eventLock = NoReq
    /\ IF HasRoom
         THEN /\ eventLock' = c
              /\ Step(c, "commit")
              /\ UNCHANGED <<regLock, payLock>>
         ELSE Finish(c)
    /\ UNCHANGED <<regVars, payVars, order, aborts>>

\* An existing code is returned as it is, active or not.
MutantFulfil(r, p) ==
    \E qrOk \in Fulfils, receiptOk \in Fulfils :
        /\ qr' = IF qrOk /\ qr[r] = "none" THEN [qr EXCEPT ![r] = "active"] ELSE qr
        /\ receipts' = IF receiptOk THEN receipts \cup {p} ELSE receipts

\* QR and receipt of one fulfilment; each may fail and be swallowed.
Fulfil(r, p) ==
    \E qrOk \in Fulfils, receiptOk \in Fulfils :
        /\ qr' = IF qrOk THEN [qr EXCEPT ![r] = "active"] ELSE qr
        /\ receipts' = IF receiptOk THEN receipts \cup {p} ELSE receipts

\* The registration is not confirmed with the payment.
MutantConfirmedStatus(seenReg, r) == regStatus[r]

\* The status written by confirm_solo_registration: the UPDATE has no status
\* guard, only the remembered registration is looked at.
ConfirmedStatus(seenReg, r) ==
    IF seenReg = "CANCELLED" THEN regStatus[r] ELSE "CONFIRMED"

\* The confirming UPDATE (registration row lock), the hand-offs, the commit.
ApplyCommit(c) ==
    LET q == req[c] IN
    /\ q.pc = "commit"
    /\ q.seenReg # "CANCELLED" => Grants(regLock[q.r], c)
    /\ payStatus' = IF q.newly THEN [payStatus EXCEPT ![q.p] = "PAID"] ELSE payStatus
    /\ regStatus' = [regStatus EXCEPT ![q.r] = ConfirmedStatus(q.seenReg, q.r)]
    /\ regPtr' = IF q.seenReg # "CANCELLED" /\ q.seenPtr # q.p
                   THEN [regPtr EXCEPT ![q.r] = q.p] ELSE regPtr
    /\ Fulfil(q.r, q.p)
    /\ applied' = IF q.newly THEN [applied EXCEPT ![q.p] = @ + 1] ELSE applied
    /\ Finish(c)
    /\ UNCHANGED <<order, aborts>>

\* The event's status string is stored as it came.
MutantFailRaw(p) ==
    /\ "Fail" \in Ops
    /\ payStatus[p] = "CREATED" /\ payLock[p] = NoReq
    /\ payStatus' = [payStatus EXCEPT ![p] = "failed"]
    /\ UNCHANGED <<regVars, receipts, applied, order, locks, req, aborts>>

\* A failure event fails a payment whatever its status.
MutantFailAnything(p) ==
    /\ "Fail" \in Ops
    /\ payStatus[p] # "ABSENT" /\ payLock[p] = NoReq
    /\ payStatus' = [payStatus EXCEPT ![p] = "FAILED"]
    /\ UNCHANGED <<regVars, receipts, applied, order, locks, req, aborts>>

\* payment.failed: a guarded CREATED -> FAILED, waiting for the row lock.
FailPayment(p) ==
    /\ "Fail" \in Ops
    /\ payStatus[p] = "CREATED" /\ payLock[p] = NoReq
    /\ payStatus' = [payStatus EXCEPT ![p] = "FAILED"]
    /\ UNCHANGED <<regVars, receipts, applied, order, locks, req, aborts>>
-----------------------------------------------------------------------------
(* create-order: the registration row stays locked over the provider call. *)

\* byId says whether the caller named the registration (any but CONFIRMED) or
\* it was looked up by profile (CANCELLED ones are not found).
OrderableBy(byId, r) ==
    /\ regStatus[r] # "CONFIRMED"
    /\ byId \/ regStatus[r] # "CANCELLED"

MutantNeedsOrder(r) == TRUE

\* No payment, or a FAILED one: a new order is needed.
NeedsOrder(r) == IF regPtr[r] = NoPay THEN TRUE ELSE payStatus[regPtr[r]] = "FAILED"

\* A new order will be made for a fresh row.
CreateOrderNew(c, r, byId, p) ==
    /\ "CreateOrder" \in Ops
    /\ regLock[r] = NoReq
    /\ OrderableBy(byId, r)
    /\ NeedsOrder(r)
    /\ p \in FreshPays(r)
    /\ Start(c, "order", r, p, "UNREAD", regStatus[r], regPtr[r])
    /\ regLock' = [regLock EXCEPT ![r] = c]
    /\ UNCHANGED <<regVars, payVars, order, payLock, eventLock, aborts>>

\* A CREATED payment is synchronized first, under the registration lock; when
\* the provider shows a capture this session applies it.
CreateOrderSync(c, r, byId) ==
    LET p == regPtr[r] IN
    /\ "CreateOrder" \in Ops
    /\ regLock[r] = NoReq
    /\ OrderableBy(byId, r)
    /\ p # NoPay
    /\ payStatus[p] = "CREATED" /\ order[p] = "captured"
    /\ Start(c, "lockPay", r, p, "CREATED", regStatus[r], p)
    /\ regLock' = [regLock EXCEPT ![r] = c]
    /\ UNCHANGED <<regVars, payVars, order, payLock, eventLock, aborts>>

\* The provider made the order: insert the row, move the pointer, commit.
CreateOrderCommit(c) ==
    LET q == req[c] IN
    /\ q.pc = "order"
    /\ order' = [order EXCEPT ![q.p] = "open"]
    /\ payStatus' = [payStatus EXCEPT ![q.p] = "CREATED"]
    /\ regPtr' = [regPtr EXCEPT ![q.r] = q.p]
    /\ Finish(c)
    /\ UNCHANGED <<regStatus, qr, receipts, applied, aborts>>
-----------------------------------------------------------------------------
(* Offline payments: a fresh PAID row under the registration lock, then the *)
(* QR and the receipt in a second transaction that locks nothing.          *)

\* Already confirmed and paid: only the fulfilment is run again.
OfflineAgain(r) ==
    /\ "Offline" \in Ops
    /\ regLock[r] = NoReq
    /\ regStatus[r] = "CONFIRMED" /\ regPtr[r] # NoPay
    /\ payStatus[regPtr[r]] = "PAID"
    /\ Fulfil(r, regPtr[r])
    /\ UNCHANGED <<regStatus, regPtr, payStatus, applied, order, locks, req, aborts>>

OfflineBegin(c, r, p) ==
    /\ "Offline" \in Ops
    /\ regLock[r] = NoReq
    /\ regStatus[r] # "CANCELLED"
    /\ ~ (regStatus[r] = "CONFIRMED" /\ regPtr[r] # NoPay /\ payStatus[regPtr[r]] = "PAID")
    /\ p \in FreshPays(r)
    /\ Start(c, "offline", r, p, "UNREAD", regStatus[r], regPtr[r])
    /\ regLock' = [regLock EXCEPT ![r] = c]
    /\ UNCHANGED <<regVars, payVars, order, payLock, eventLock, aborts>>

\* Nothing is waited for between the event lock and the commit, so the
\* capacity check and the writes are one step.
OfflineCommit(c) ==
    LET q == req[c] IN
    /\ q.pc = "offline"
    /\ q.seenReg # "CONFIRMED" => eventLock = NoReq
    /\ ReleaseLocks(c)
    /\ IF q.seenReg = "CONFIRMED" \/ HasRoom
         THEN /\ payStatus' = [payStatus EXCEPT ![q.p] = "PAID"]
              /\ regPtr' = [regPtr EXCEPT ![q.r] = q.p]
              /\ regStatus' = [regStatus EXCEPT ![q.r] = "CONFIRMED"]
              /\ Step(c, "fulfil")
         ELSE /\ req' = [req EXCEPT ![c] = Idle]
              /\ UNCHANGED <<payStatus, regPtr, regStatus>>
    /\ UNCHANGED <<qr, receipts, applied, order, aborts>>

OfflineFulfil(c) ==
    /\ req[c].pc = "fulfil"
    /\ Fulfil(req[c].r, req[c].p)
    /\ Finish(c)
    /\ UNCHANGED <<regStatus, regPtr, payStatus, applied, order, aborts>>
-----------------------------------------------------------------------------
(* Administrator recovery: registration lock, then payment lock, then the  *)
(* provider, then apply in the same transaction.                           *)

\* Loading the registration also loads the payment it points to.
RecoverBegin(c, p) ==
    LET r == RegOf[p] IN
    /\ "Recover" \in Ops
    /\ regLock[r] = NoReq
    /\ payStatus[p] # "ABSENT" /\ order[p] # "none"
    /\ regStatus[r] # "CANCELLED"
    /\ Start(c, "recoverPay", r, p, IF regPtr[r] = p THEN payStatus[p] ELSE "UNREAD",
             regStatus[r], regPtr[r])
    /\ regLock' = [regLock EXCEPT ![r] = c]
    /\ UNCHANGED <<regVars, payVars, order, payLock, eventLock, aborts>>

RecoverPay(c) ==
    LET q == req[c]
        seen == IF q.seenPay = "UNREAD" THEN payStatus[q.p] ELSE q.seenPay
    IN
    /\ q.pc = "recoverPay"
    /\ payLock[q.p] = NoReq
    /\ IF seen = "REFUNDED" \/ order[q.p] # "captured"
         THEN Finish(c)
         ELSE /\ payLock' = [payLock EXCEPT ![q.p] = c]
              /\ req' = [req EXCEPT ![c] = [q EXCEPT !.pc = "lockPay", !.seenPay = seen]]
              /\ UNCHANGED <<regLock, eventLock>>
    /\ UNCHANGED <<regVars, payVars, order, aborts>>
-----------------------------------------------------------------------------
(* Cancellation, the administrator's PATCH, revocation and refund.         *)

\* cancel_unpaid_registration: lock the registration, look at the payment it
\* points to (without locking it), refuse CONFIRMED and PAID.
CancelBegin(c, r) ==
    LET p == regPtr[r] IN
    /\ "Cancel" \in Ops
    /\ regLock[r] = NoReq
    /\ regStatus[r] = "PENDING"
    /\ IF p = NoPay THEN TRUE ELSE payStatus[p] # "PAID"
    /\ Start(c, "cancel", r, p, IF p = NoPay THEN "UNREAD" ELSE payStatus[p],
             regStatus[r], p)
    /\ regLock' = [regLock EXCEPT ![r] = c]
    /\ UNCHANGED <<regVars, payVars, order, payLock, eventLock, aborts>>

\* The ORM writes CREATED -> FAILED with no guard on the row's status.
CancelCommit(c) ==
    LET q == req[c]
        fails == q.seenPay = "CREATED"
    IN
    /\ q.pc = "cancel"
    /\ IF fails THEN payLock[q.p] = NoReq ELSE TRUE
    /\ regStatus' = [regStatus EXCEPT ![q.r] = "CANCELLED"]
    /\ qr' = [qr EXCEPT ![q.r] = IF @ = "active" THEN "inactive" ELSE @]
    /\ payStatus' = IF fails THEN [payStatus EXCEPT ![q.p] = "FAILED"] ELSE payStatus
    /\ regPtr' = [regPtr EXCEPT ![q.r] = NoPay]
    /\ Finish(c)
    /\ UNCHANGED <<receipts, applied, order, aborts>>

\* The administrator's cancel: any status, payments untouched.
AdminCancel(r) ==
    /\ "AdminCancel" \in Ops
    /\ regLock[r] = NoReq
    /\ regStatus' = [regStatus EXCEPT ![r] = "CANCELLED"]
    /\ qr' = [qr EXCEPT ![r] = IF @ = "active" THEN "inactive" ELSE @]
    /\ UNCHANGED <<regPtr, payVars, order, locks, req, aborts>>

\* PATCH reads the registration without a lock and checks the caller's rights.
\* A registration seen CANCELLED is reopened, any other one is cancelled.
PatchBegin(c, r) ==
    /\ (IF regStatus[r] = "CANCELLED" THEN "Reopen" ELSE "PatchCancel") \in Ops
    /\ Start(c, "patch", r, NoPay, "UNREAD", regStatus[r], NoPay)
    /\ UNCHANGED <<regVars, payVars, order, locks, aborts>>

\* The UPDATE waits for the row and writes, whatever the status is by now.
PatchCommit(c) ==
    LET q == req[c] IN
    /\ q.pc = "patch"
    /\ regLock[q.r] = NoReq
    /\ regStatus' = [regStatus EXCEPT ![q.r] =
                       IF q.seenReg = "CANCELLED" THEN "PENDING" ELSE "CANCELLED"]
    /\ Finish(c)
    /\ UNCHANGED <<regPtr, qr, payVars, order, aborts>>

\* Undo a confirmation: the endpoint, or PATCH to PENDING, reads CONFIRMED
\* without a lock.
RevokeBegin(c, r) ==
    /\ "Revoke" \in Ops
    /\ regStatus[r] = "CONFIRMED"
    /\ Start(c, "revoke", r, NoPay, "UNREAD", "CONFIRMED", NoPay)
    /\ UNCHANGED <<regVars, payVars, order, locks, aborts>>

\* The service locks the row and decides on the status the session remembers:
\* PENDING is written whatever it is by now; payments are untouched.
RevokeCommit(c) ==
    LET q == req[c] IN
    /\ q.pc = "revoke"
    /\ regLock[q.r] = NoReq
    /\ regStatus' = [regStatus EXCEPT ![q.r] = "PENDING"]
    /\ qr' = [qr EXCEPT ![q.r] = IF @ = "active" THEN "inactive" ELSE @]
    /\ Finish(c)
    /\ UNCHANGED <<regPtr, payVars, order, aborts>>

\* The provider refunds first; offline payments have nothing to refund there.
RefundBegin(c, p) ==
    /\ "Refund" \in Ops
    /\ payStatus[p] = "PAID" /\ order[p] = "captured"
    /\ order' = [order EXCEPT ![p] = "refunded"]
    /\ Start(c, "refund", RegOf[p], p, "PAID", "UNREAD", NoPay)
    /\ UNCHANGED <<regVars, payVars, locks, aborts>>

\* The registrations an UPDATE ... WHERE payment_id = p cancels.
PointingTo(p) == {r \in Regs : regPtr[r] = p}

RefundCommit(c) ==
    LET p == req[c].p IN
    /\ req[c].pc = "refund"
    /\ payLock[p] = NoReq
    /\ IF payStatus[p] = "PAID"
         THEN /\ \A r \in PointingTo(p) : regLock[r] = NoReq
              /\ payStatus' = [payStatus EXCEPT ![p] = "REFUNDED"]
              /\ regStatus' = [r \in Regs |-> IF r \in PointingTo(p)
                                                THEN "CANCELLED" ELSE regStatus[r]]
         ELSE UNCHANGED <<payStatus, regStatus>>
    /\ Finish(c)
    /\ UNCHANGED <<regPtr, qr, receipts, applied, order, aborts>>
-----------------------------------------------------------------------------
(* Lost requests and deadlocks.                                            *)

\* A crash, a timeout or an error ends the session: rollback.
Abort(c) ==
    /\ req[c].pc # "idle"
    /\ aborts < MaxAborts
    /\ aborts' = aborts + 1
    /\ Finish(c)
    /\ UNCHANGED <<regVars, payVars, order>>

\* The holders of the row locks the next step of c waits for.
WaitsFor(c) ==
    LET q == req[c]
        holders ==
            CASE q.pc \in {"lockPay", "recoverPay"} -> {payLock[q.p]}
              [] q.pc = "repoint" -> {regLock[q.r]}
              [] q.pc = "commit" /\ q.seenReg # "CANCELLED" -> {regLock[q.r]}
              [] q.pc = "capacity" -> {eventLock}
              [] q.pc = "offline" /\ q.seenReg # "CONFIRMED" -> {eventLock}
              [] q.pc = "cancel" /\ q.seenPay = "CREATED" -> {payLock[q.p]}
              [] q.pc \in {"patch", "revoke"} -> {regLock[q.r]}
              [] q.pc = "refund" -> {payLock[q.p]} \cup {regLock[r] : r \in PointingTo(q.p)}
              [] OTHER -> {}
    IN holders \ {NoReq, c}

\* Every member of a non-empty set waits for another member.
InDeadlock(c) ==
    \E S \in SUBSET Reqs : c \in S /\ \A d \in S : WaitsFor(d) \cap S # {}

\* PostgreSQL rolls back one transaction of a lock cycle.
DeadlockVictim(c) ==
    /\ InDeadlock(c)
    /\ Finish(c)
    /\ UNCHANGED <<regVars, payVars, order, aborts>>
-----------------------------------------------------------------------------
\* Requests that begin, and the ones that run in a single transaction.
Arrival ==
    \/ \E c \in Reqs, p \in Pays :
          Webhook(c, p) \/ Verify(c, p) \/ Sync(c, p) \/ Reconcile(c, p)
          \/ RecoverBegin(c, p) \/ RefundBegin(c, p)
    \/ \E c \in Reqs, r \in Regs, byId \in BOOLEAN :
          CreateOrderSync(c, r, byId) \/ \E p \in Pays : CreateOrderNew(c, r, byId, p)
    \/ \E c \in Reqs, r \in Regs :
          \/ CancelBegin(c, r) \/ PatchBegin(c, r) \/ RevokeBegin(c, r)
          \/ \E p \in Pays : OfflineBegin(c, r, p)
    \/ \E p \in Pays : FailPayment(p)
    \/ \E r \in Regs : OfflineAgain(r) \/ AdminCancel(r)

\* A request that is being handled goes on.
Progress(c) ==
    \/ ReconcileSibling(c) \/ ApplyLock(c) \/ ApplyRepoint(c) \/ ApplyCapacity(c)
    \/ ApplyCommit(c) \/ CreateOrderCommit(c) \/ OfflineCommit(c) \/ OfflineFulfil(c)
    \/ RecoverPay(c) \/ CancelCommit(c) \/ PatchCommit(c) \/ RevokeCommit(c)
    \/ RefundCommit(c) \/ DeadlockVictim(c)

Next ==
    \/ \E p \in Pays : ProviderCapture(p)
    \/ Arrival
    \/ \E c \in Reqs : Progress(c) \/ Abort(c)

Spec == Init /\ [][Next]_vars

(* Fairness.  The server runs every handler to its end.  PostgreSQL queues   *)
(* the waiters of a row: a confirmation that waits gets the row when it is   *)
(* freed, before later requests.  The provider repeats a capture webhook     *)
(* that was not answered with success.  Customers, administrators and        *)
(* failures are not fair.                                                    *)
Redelivery(p) == \E c \in Reqs : Webhook(c, p)

Granted(p) ==
    \E c \in Reqs : req[c].p = p /\ (ApplyRepoint(c) \/ ApplyCommit(c))

HandledSpec == Spec /\ \A c \in Reqs : SF_vars(Progress(c))

FairSpec ==
    /\ HandledSpec
    /\ \A p \in Pays : SF_vars(Redelivery(p)) /\ SF_vars(Granted(p))
-----------------------------------------------------------------------------
(* Properties.                                                             *)

\* Every variable keeps its type.
TypeOK ==
    /\ regStatus \in [Regs -> RegStatus]
    /\ regPtr \in [Regs -> Pays \cup {NoPay}]
    /\ qr \in [Regs -> {"none", "active", "inactive"}]
    /\ payStatus \in [Pays -> PayStatus]
    /\ order \in [Pays -> {"none", "open", "captured", "refunded"}]
    /\ receipts \in SUBSET Pays
    /\ applied \in [Pays -> Nat]
    /\ regLock \in [Regs -> Reqs \cup {NoReq}]
    /\ payLock \in [Pays -> Reqs \cup {NoReq}]
    /\ eventLock \in Reqs \cup {NoReq}
    /\ req \in [Reqs -> Request]
    /\ aborts \in Nat

\* Money that was taken is never forgotten: a PAID payment stays PAID or is
\* refunded, and a refund is final, whatever stale snapshot a late webhook,
\* a failure event or a cancellation acts on.
NoDowngrade ==
    [][\A p \in Pays :
         /\ payStatus[p] = "PAID" => payStatus'[p] \in {"PAID", "REFUNDED"}
         /\ payStatus[p] = "REFUNDED" => payStatus'[p] = "REFUNDED"]_vars

\* No payment is PAID while its registration waits for payment: the payment
\* and the registration change together or the registration was cancelled.
\* (An administrator who revokes or reopens breaks this at will.)
PaidImpliesSettled ==
    \A p \in Pays : payStatus[p] = "PAID" => regStatus[RegOf[p]] # "PENDING"

\* Webhook, checkout verification, polling, reconciliation and recovery race
\* for the same capture; one of them applies it, so one notice is sent.
AppliedOnce == \A p \in Pays : applied[p] <= 1

\* A registration has at most one CREATED payment: retried and concurrent
\* create-order calls reuse the open attempt.
OneOpenAttempt ==
    \A p, q \in Pays :
        RegOf[p] = RegOf[q] /\ payStatus[p] = "CREATED" /\ payStatus[q] = "CREATED"
            => p = q

\* CONFIRMED registrations never exceed the event's capacity.
CapacityRespected == Cardinality(Confirmed) <= Capacity

\* A CONFIRMED registration is backed by a PAID payment of its own.
MoneyBacked ==
    \A r \in Regs : regStatus[r] = "CONFIRMED" =>
        \E p \in ReqPays(r) : payStatus[p] = "PAID"

\* A CONFIRMED registration has an active QR, unless the second transaction
\* of an offline confirmation is still to come.
ConfirmedCanEnter ==
    \A r \in Regs : regStatus[r] = "CONFIRMED" =>
        \/ qr[r] = "active"
        \/ \E c \in Reqs : req[c].pc = "fulfil" /\ req[c].r = r

\* With seats for every registration, a captured order ends up as a PAID (or
\* by then refunded) payment, however webhooks, cancellations, failures,
\* retries and deadlocks interleave.
CapturedIsApplied ==
    \A p \in Pays : order[p] = "captured" ~> payStatus[p] \in {"PAID", "REFUNDED"}

\* Every request ends: lock cycles between apply (payment, registration,
\* event), offline and recovery (registration first) are always broken.
RequestsEnd == \A c \in Reqs : req[c].pc # "idle" ~> req[c].pc = "idle"

\* The sessions, locks and memories of this module implement the ledger: each
\* of its steps is one step of the ledger or none, whatever requests are in
\* flight.  (In instances without Revoke and Reopen.)
Ledger == INSTANCE PaymentLedger WITH reg <- regStatus, pay <- payStatus
ImplementsLedger == Ledger!Spec
-----------------------------------------------------------------------------
(* Inductive invariants.  OwnInv makes the types inductive; SettleInv is   *)
(* what PaidImpliesSettled, NoDowngrade and AppliedOnce rest on when       *)
(* nothing settled is put back to PENDING (no Revoke, no Reopen).          *)

PointersAreOwn == \A r \in Regs : regPtr[r] # NoPay => RegOf[regPtr[r]] = r

\* A request's payment belongs to its registration; only a cancellation may
\* have no payment, and then it saw none; a PATCH or a revocation has none.
OwnPayment(c) ==
    req[c].pc # "idle" =>
        \/ req[c].p \in Pays /\ RegOf[req[c].p] = req[c].r
        \/ /\ req[c].pc \in {"cancel", "patch", "revoke"}
           /\ req[c].p = NoPay /\ req[c].seenPay = "UNREAD"

OwnInv == TypeOK /\ PointersAreOwn /\ \A c \in Reqs : OwnPayment(c)

\* Which row lock a request holds at which point.
HoldsLocks(c) ==
    /\ req[c].pc \in {"repoint", "capacity", "commit"} => payLock[req[c].p] = c
    /\ req[c].pc \in {"order", "offline", "cancel"} => regLock[req[c].r] = c

\* The row a create-order or an offline confirmation will insert is its own.
Reserved(c) == req[c].pc \in {"order", "offline"} => payStatus[req[c].p] = "ABSENT"

\* Whoever is about to write PAID has locked a row that is still payable.
NewlyPayable(c) ==
    req[c].newly => /\ req[c].pc \in {"repoint", "capacity", "commit"}
                    /\ payStatus[req[c].p] \in Payable

\* A registration remembered as settled is settled: it never waits again.
SettledMemory(c) ==
    req[c].seenReg \in {"CONFIRMED", "CANCELLED"} => regStatus[req[c].r] # "PENDING"

\* A cancellation in progress keeps the registration PENDING, and the payment
\* it is going to fail cannot become PAID meanwhile.
CancelIsSafe(c) ==
    req[c].pc = "cancel" =>
        /\ regStatus[req[c].r] = "PENDING"
        /\ req[c].seenPay = "CREATED" => payStatus[req[c].p] \in Payable

\* Nobody is about to put a settled registration back to PENDING.
PutsNothingBack(c) ==
    /\ req[c].pc # "revoke"
    /\ req[c].pc = "patch" => req[c].seenReg # "CANCELLED"

RequestOK(c) ==
    /\ HoldsLocks(c) /\ Reserved(c) /\ NewlyPayable(c) /\ SettledMemory(c)
    /\ CancelIsSafe(c) /\ PutsNothingBack(c)

\* What was not paid yet was not applied yet, and nothing is applied twice.
AppliedMeansPaid ==
    \A p \in Pays :
        /\ applied[p] <= 1
        /\ payStatus[p] \notin {"PAID", "REFUNDED"} => applied[p] = 0

SettleInv ==
    /\ OwnInv
    /\ \A c \in Reqs : RequestOK(c)
    /\ AppliedMeansPaid
    /\ PaidImpliesSettled
=============================================================================
