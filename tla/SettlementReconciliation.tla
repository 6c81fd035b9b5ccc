----------------------- MODULE SettlementReconciliation -----------------------
(***************************************************************************)
(* The reconciliation report on a race: one operator per check of          *)
(* detectSettlementReconciliationIssues.  A race is looked at long after   *)
(* its last change, past the 24 hours a review may take, and by one        *)
(* consistent look: the code makes one query after the other.              *)
(*                                                                         *)
(* Left out are duplicates of completed runs and runs that are stuck in    *)
(* the middle, which the tables of RacePools cannot hold, and the ledger's *)
(* id and amount of an applied carryover, which are posted with it.        *)
(***************************************************************************)
EXTENDS RacePools

SettledPoolWithoutCompletedRun(r) == pool[r] = "settled" /\ ~Completed(r)

CompletedRunWithPoolNotSettled(r) == Completed(r) /\ pool[r] # "settled"

CompletedSettlementWithNonTerminalBets(r) == Completed(r) /\ AcceptedBets(r) # {}

\* A pending carryover of the race explains any residual of its clearing account.
SettlementClearingResidualUnhandled(r) ==
  Completed(r) /\ clearing[r] # 0 /\ carryover[r].status # "pending"

ManualReviewPoolStale(r) == pool[r] = "manual_review"

ManualReviewSettlementStale(r) == run[r].review > 0

\* Reported for the race a carryover is from and for the one it should go to.
PendingCarryoverEligibleButUnapplied(r) ==
  \E source, target \in Races :
    /\ carryover[source].status = "pending"
    /\ IsNextEligible(pool, source, target)
    /\ r \in {source, target}

Errors(r) ==
  \/ SettledPoolWithoutCompletedRun(r) \/ CompletedRunWithPoolNotSettled(r)
  \/ CompletedSettlementWithNonTerminalBets(r) \/ SettlementClearingResidualUnhandled(r)

Warnings(r) ==
  \/ ManualReviewPoolStale(r) \/ ManualReviewSettlementStale(r)
  \/ PendingCarryoverEligibleButUnapplied(r)

-----------------------------------------------------------------------------
HoldsStakes(r) == \E b \in Bets : stakeOf[b] = "locked" /\ bet[b].offer.race = r

HasSuccessor(r) == \E t \in Races : r < t /\ MayReceive(pool, t)

\* Money that stays with a race is on its report, and a race whose money went
\* where it belongs raises no error: stakes and carried amounts wait for the race
\* to be run, or are reported, or lie in a voided pool; a carryover is reported
\* as soon as there is a race to take it; and the one error there ever is comes
\* of a house take that was posted apart.  Such a house take is not reported
\* while its race is not settled or has a carryover pending, and what a voided
\* pool keeps is not reported at all.
StuckMoneyIsReported ==
  \A r \in Races :
    /\ HoldsStakes(r) \/ clearing[r] # -taken[r] =>
         Errors(r) \/ Warnings(r) \/ pool[r] \in {"open", "frozen", "voided"}
    /\ rollover[r] # 0 => Warnings(r) \/ ~HasSuccessor(r)
    /\ Errors(r) => taken[r] # 0
    /\ Completed(r) /\ taken[r] # 0 => Errors(r) \/ carryover[r].status = "pending"
=============================================================================
