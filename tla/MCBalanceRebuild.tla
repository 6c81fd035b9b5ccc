-------------------------- MODULE MCBalanceRebuild --------------------------
(* Instances of BalanceRebuild for TLC.                                     *)
EXTENDS BalanceRebuild, TLC

CONSTANTS s1, s2

\* Postings over the same two accounts in either direction, and over a third.
ThreePostings == {(1 :> 1) @@ (2 :> -1), (1 :> -1) @@ (2 :> 1), (2 :> 1) @@ (3 :> -1)}
=============================================================================
