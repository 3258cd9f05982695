--------------------------- MODULE MCPaymentCore ---------------------------
(* Instances of PaymentCore for TLC. *)
EXTENDS PaymentCore, TLC

CONSTANTS r1, r2, r3, p1, p2, p3, p4

\* Every payment belongs to r1: attempts of one registration.
AllToR1 == [p \in Pays |-> r1]

\* p1, p2, ... belong to r1, r2, ...; p4 is a second attempt of r1.
PairedRegOf == [p \in Pays |-> CASE p = p1 -> r1 [] p = p2 -> r2
                                  [] p = p3 -> r3 [] p = p4 -> r1]

ReqSymmetry == Permutations(Reqs)

\* With every payment on r1 the attempts are interchangeable as well.
AttemptSymmetry == Permutations(Reqs) \cup Permutations(Pays)
=============================================================================
