------------------------ MODULE MCFundingAttestations ------------------------
(* A small instance of FundingAttestations: two attestations of different
   payments for one intent, on two connections. *)
EXTENDS FundingAttestations, TLC

CONSTANTS a1, a2

Source == (a1 :> 1) @@ (a2 :> 2)
Intent == (a1 :> 1) @@ (a2 :> 1)

Alike == Permutations(Callers) \cup Permutations(Requests) \cup Permutations(Payloads)
=============================================================================
