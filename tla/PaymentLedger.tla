--------------------------- MODULE PaymentLedger ---------------------------
(***************************************************************************)
(* What the payment core promises, as if every operation were one atomic   *)
(* step: a ledger of registrations and payments.  PaymentCore, where the   *)
(* same operations are sessions that read, wait, lock and commit, and are  *)
(* lost or repeated in between, implements it.                             *)
(*                                                                         *)
(* The promises: a payment becomes PAID together with the confirmation of  *)
(* its registration, or the registration has been cancelled; nothing is    *)
(* confirmed without money received for it; a participant cancels only     *)
(* what waits for payment, and the open attempt with it; only PAID money   *)
(* is refunded, and nothing else ever happens to it.                       *)
(*                                                                         *)
(* It makes no promise about administrators who put a registration back to *)
(* PENDING: who revoke confirmations or reopen what was cancelled.         *)
(***************************************************************************)
CONSTANTS Regs,   \* registrations
          Pays,   \* payments
          RegOf   \* the registration of each payment

VARIABLES reg,    \* registrations.status
          pay     \* payments.status

ledger == <<reg, pay>>

Init ==
    /\ reg = [r \in Regs |-> "PENDING"]
    /\ pay = [p \in Pays |-> "ABSENT"]

\* A new attempt to pay.
Order(p) ==
    /\ pay[p] = "ABSENT"
    /\ pay' = [pay EXCEPT ![p] = "CREATED"]
    /\ UNCHANGED reg

Fail(p) ==
    /\ pay[p] = "CREATED"
    /\ pay' = [pay EXCEPT ![p] = "FAILED"]
    /\ UNCHANGED reg

\* Money for p is received: a capture, or an offline payment.
Settle(p) ==
    /\ pay[p] \in {"ABSENT", "CREATED", "FAILED"}
    /\ pay' = [pay EXCEPT ![p] = "PAID"]
    /\ \/ reg' = [reg EXCEPT ![RegOf[p]] = "CONFIRMED"]
       \/ reg[RegOf[p]] = "CANCELLED" /\ UNCHANGED reg

\* A repeated delivery confirms once more what was paid.
Reconfirm(p) ==
    /\ pay[p] \in {"PAID", "REFUNDED"}
    /\ reg' = [reg EXCEPT ![RegOf[p]] = "CONFIRMED"]
    /\ UNCHANGED pay

\* A participant gives up; an open attempt is closed with the registration.
Cancel(r) ==
    /\ reg[r] = "PENDING"
    /\ reg' = [reg EXCEPT ![r] = "CANCELLED"]
    /\ \/ UNCHANGED pay
       \/ \E p \in Pays : /\ RegOf[p] = r /\ pay[p] = "CREATED"
                          /\ pay' = [pay EXCEPT ![p] = "FAILED"]

\* An administrator cancels, by cancel or by PATCH, whatever the status.
Withdraw(r) ==
    /\ reg' = [reg EXCEPT ![r] = "CANCELLED"]
    /\ UNCHANGED pay

Refund(p) ==
    /\ pay[p] = "PAID"
    /\ pay' = [pay EXCEPT ![p] = "REFUNDED"]
    /\ \/ UNCHANGED reg
       \/ reg' = [reg EXCEPT ![RegOf[p]] = "CANCELLED"]

Next ==
    \/ \E p \in Pays : Order(p) \/ Fail(p) \/ Settle(p) \/ Reconfirm(p) \/ Refund(p)
    \/ \E r \in Regs : Cancel(r) \/ Withdraw(r)

Spec == Init /\ [][Next]_ledger
=============================================================================
