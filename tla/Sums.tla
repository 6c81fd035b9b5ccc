--------------------------------- MODULE Sums ---------------------------------
(* Sums of amounts, as the specifications of balances and pools need them. *)
EXTENDS Integers, FiniteSets, FiniteSetsExt

\* The sum of the values of a function with a finite domain.
Total(f) == MapThenSumSet(LAMBDA x : f[x], DOMAIN f)
=============================================================================
