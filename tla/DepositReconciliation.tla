------------------------ MODULE DepositReconciliation ------------------------
(***************************************************************************)
(* The reconciliation report on deposits: one operator per query of        *)
(* detectReconciliationIssues.  The queries that read what Deposits leaves *)
(* out are not here: reason codes, arrival times, webhook rejections and   *)
(* the ledger ids that events keep.                                        *)
(***************************************************************************)
EXTENDS Deposits

ExpiredIntent(i) ==
  i \in expired /\ intent[i].status \in {"awaiting_external_payment", "detected"}

IntentMissingLedger(i) ==
  /\ intent[i].status = "credited"
  /\ \A p \in Payments : p = intent[i].credited => credits[p][i] = 0

\* An event that is not on record is not confirmed and names no intent.
ConfirmedUncredited(e) ==
  /\ event[e].confirmed
  /\ event[e].status \notin {"credited", "duplicate", "review_required"}

EventMissingLedger(e) ==
  event[e].status = "credited" /\ event[e].intent \notin PaidInto(PaymentOf[e])

ConfirmedReview(e) == event[e].confirmed /\ event[e].status = "review_required"

TerminalNoCredit(e) == event[e].status \in Final

\* Any credit of the intent the event names counts, also another payment's.
LedgerPostedIntentNotFinalized(e) ==
  /\ event[e].status # "credited"
  /\ \E p \in Payments : event[e].intent \in PaidInto(p)

EventOnReport(e) ==
  \/ ConfirmedUncredited(e) \/ EventMissingLedger(e) \/ ConfirmedReview(e)
  \/ TerminalNoCredit(e) \/ LedgerPostedIntentNotFinalized(e)

IntentOnReport(i) == ExpiredIntent(i) \/ IntentMissingLedger(i)

-----------------------------------------------------------------------------
\* No confirmed payment is lost: it was credited to a player, or the report
\* shows an event of it, also when a second event of the payment was put away
\* as a duplicate.  And an intent is on the report only while it waits: what is
\* called credited has its ledger row.
ConfirmedIsCreditedOrReported ==
  /\ \A e \in Events :
       event[e].confirmed /\ PaidInto(PaymentOf[e]) = {} => EventOnReport(e)
  /\ \A i \in Intents : IntentOnReport(i) => intent[i].status # "credited"
=============================================================================
