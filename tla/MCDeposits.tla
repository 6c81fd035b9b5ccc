------------------------------ MODULE MCDeposits ------------------------------
(* Instances of Deposits for TLC.                                           *)
EXTENDS DepositReconciliation, TLC

CONSTANTS i1, i2, e1, e2, p1, p2, s1, s2

\* Two events of one payment.
OnePayment == [e \in Events |-> p1]

\* Two payments that name the same intent.
TwoPayments == (e1 :> p1) @@ (e2 :> p2)
SameIntent == [e \in Events |-> i1]

\* The second event names nothing: an operator links it.
OneNamed == (e1 :> i1) @@ (e2 :> NoIntent)

AllFit == [e \in Events |-> Intents]
FirstFits == (e1 :> {i1}) @@ (e2 :> {})

SessionSymmetry == Permutations({s1, s2})
=============================================================================
