---------------------------- MODULE MCWithdrawals ----------------------------
(* Instances of Withdrawals for TLC.                                        *)
EXTENDS WithdrawalReconciliation, TLC

CONSTANTS w1, w2, s1, s2, n1, n2

AllStatuses == {"accepted", "confirmed", "failed", "rejected", "unknown"}
FinalStatuses == {"confirmed", "failed"}

OneAmount == (w1 :> 1)
TwoAmounts == (w1 :> 1) @@ (w2 :> 2)

\* Callbacks whose references belong together or are recognisably wrong: all
\* there are of one request.
CoherentShapes == {"own", "external_only", "mismatch", "unmatched"}
CrossedShapes == {"own", "other_request"}

SessionNonceSymmetry == Permutations({s1, s2}) \cup Permutations({n1, n2})
=============================================================================
