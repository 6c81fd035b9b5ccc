----------------------- MODULE WithdrawalReconciliation -----------------------
(***************************************************************************)
(* The reconciliation report on withdrawal requests: one operator per      *)
(* query of detectReconciliationIssues that reads the requests.  A request *)
(* is looked at long after its last change, past every age limit of the    *)
(* queries (15 minutes, 1 hour, 24 hours).  The queries that read provider *)
(* events, which Withdrawals only counts, are left out.                    *)
(***************************************************************************)
EXTENDS Withdrawals

Reserved(w) == posted[w]["withdrawal_reserve"] > 0

\* requestedWithoutReservation and reservedMissingFinalStatus, which together
\* report either status whatever the reservation is.
NotReserved(w) == request[w].status \in {"requested", "reservation_pending"}

TerminalUnreleased(w) ==
  /\ request[w].status \in {"rejected", "cancelled"}
  /\ Reserved(w)
  /\ request[w].release = None

ApprovedAwaitingSubmission(w) ==
  request[w].status \in {"approved", "submission_pending"} /\ submission[w] = None

SubmittingStuck(w) == request[w].status = "submitting"

\* A submission always has the external id of its payout.
SubmittedMissingProviderReference(w) ==
  request[w].status \in {"submitted", "provider_pending"} /\ submission[w] = None

ProviderPendingNotRecentlySynced(w) ==
  request[w].status = "provider_pending" /\ submission[w] # None

ProviderConfirmedNotFinalized(w) ==
  \/ request[w].status = "provider_confirmed"
  \/ /\ request[w].status = "completed"
     /\ request[w].finalized => posted[w]["withdrawal_finalized"] = 0

ProviderFailureRequiresReview(w) ==
  request[w].status \in {"provider_failed", "provider_rejected", "provider_unknown"}

FailureReleasedMissingLedger(w) ==
  /\ request[w].status = "provider_failure_released"
  /\ request[w].release # "withdrawal_provider_failure_release"

TerminalProviderFailureHoldingReservation_Failed(w) ==
  /\ request[w].status = "provider_failed_terminal"
  /\ Reserved(w)
  /\ request[w].release = None /\ ~request[w].finalized

TerminalProviderFailureHoldingReservation(w) ==
  /\ request[w].status \in {"provider_failed_terminal", "provider_rejected_terminal"}
  /\ Reserved(w)
  /\ request[w].release = None /\ ~request[w].finalized

DuplicateFinalizations(w) == posted[w]["withdrawal_finalized"] > 1

StuckReview(w) == request[w].status = "review_required"

\* invalidCompletedReleasedState, of completed requests, is a case of this.
ImpossibleReleasedActive(w) ==
  /\ request[w].release # None
  /\ request[w].status \notin {"rejected", "cancelled", "provider_failure_released"}

OnReport(w) ==
  \/ NotReserved(w) \/ TerminalUnreleased(w) \/ ApprovedAwaitingSubmission(w)
  \/ SubmittingStuck(w) \/ SubmittedMissingProviderReference(w)
  \/ ProviderPendingNotRecentlySynced(w) \/ ProviderConfirmedNotFinalized(w)
  \/ ProviderFailureRequiresReview(w) \/ FailureReleasedMissingLedger(w)
  \/ TerminalProviderFailureHoldingReservation(w) \/ DuplicateFinalizations(w)
  \/ StuckReview(w) \/ ImpossibleReleasedActive(w)

-----------------------------------------------------------------------------
\* Money that stays reserved is on the report sooner or later, whatever
\* commands, callbacks and crashes brought the request where it is; except while
\* an operator has yet to decide, after one closed the review of an unknown
\* outcome, and when one approved a request again that already was submitted.
\* The last two no query reports.
HeldMoneyIsReported ==
  \A w \in Withdrawals :
    HeldAmount(w) = "reserved" =>
      \/ OnReport(w)
      \/ request[w].status \in {"reserved", "provider_unknown_reviewed"}
      \/ request[w].status \in Submittable /\ submission[w] # None
=============================================================================
