----------------------------- MODULE Withdrawals -----------------------------
(***************************************************************************)
(* WithdrawalService: the requests of one player, the external payout      *)
(* provider and its callbacks.                                             *)
(*                                                                         *)
(* Every command is one database transaction that locks the request row    *)
(* (FOR UPDATE) before it reads anything the command depends on, so a      *)
(* command that stays inside the database is one step, enabled while no    *)
(* other transaction holds the row.  Two are not: submitting calls the     *)
(* provider from inside the transaction, and a callback inserts its        *)
(* receipt and reads a submission before it locks the request.             *)
(*                                                                         *)
(* A replay of a command under its idempotency key changes nothing and is  *)
(* not a step; a crashed transaction leaves only what the provider did.    *)
(***************************************************************************)
EXTENDS Sequences, Sums

CONSTANTS
  Withdrawals,      \* withdrawal requests of one player
  Amount, Funds,    \* their amounts, the player's balance at the start
  ManualReview,     \* requests whose destination the provider cannot serve
  ProviderStatuses, \* statuses the provider may report
  Nonces,           \* nonces of provider callbacks; bounds their number
  Shapes,           \* kinds of callbacks the provider sends, see Callbacks
  Sessions,         \* database connections
  CanCrash          \* whether transactions may be cut off before COMMIT

ASSUME WithdrawalsAssumption ==
  /\ IsFiniteSet(Withdrawals)
  /\ Amount \in [Withdrawals -> Nat \ {0}]
  /\ Funds \in Nat
  /\ ManualReview \subseteq Withdrawals
  /\ ProviderStatuses \subseteq
       {"accepted", "pending", "confirmed", "failed", "rejected", "unknown"}
  /\ Shapes \subseteq {"own", "external_only", "mismatch", "other_request", "unmatched"}
  /\ CanCrash \in BOOLEAN

VARIABLES
  request,     \* withdrawal_requests: status and ledger references
  submission,  \* withdrawal_provider_submissions: the provider's last status
  posted,      \* ledger rows of each request, how many of each type
  events,      \* per nonce, the accepted receipts with their provider event
  rejections,  \* nonces with a receipt rejected as a duplicate
  crossed,     \* requests that applied events name with the payout of another
  payouts,     \* external: payouts the provider has taken on
  reported,    \* external: what the provider has said of each payout
  session      \* the transactions in flight

tables == <<request, submission, posted, events, rejections, crossed>>
provider == <<payouts, reported>>
vars == <<request, submission, posted, events, rejections, crossed, payouts, reported, session>>

ReleaseTypes == {"withdrawal_reversal", "withdrawal_provider_failure_release"}
ResolutionTypes == ReleaseTypes \cup {"withdrawal_finalized", "withdrawal_complete"}
RowTypes == {"withdrawal_reserve"} \cup ResolutionTypes

\* Statuses under which the provider has the request, or had the last word.
ProviderHeld ==
  {"submitting", "submitted", "provider_pending", "provider_confirmed",
   "provider_failed", "provider_rejected", "provider_unknown",
   "provider_failure_released", "provider_failed_terminal",
   "provider_rejected_terminal", "provider_unknown_reviewed", "completed"}

Statuses ==
  ProviderHeld \cup
  {"requested", "reservation_pending", "reserved", "review_required", "approved",
   "rejected", "cancelled", "submission_pending", "failed"}

\* A request that is not in the table yet, and a value that is not there.
Absent == "absent"
None == "none"

Requests ==
  [status: Statuses \cup {Absent}, release: ReleaseTypes \cup {None},
   finalized: BOOLEAN]

\* A callback names a request and a payout, either of which may be missing,
\* and says whether amount, currency and transaction id are those on record.
Callbacks ==
  [nonce: Nonces, request: Withdrawals \cup {None},
   external: Withdrawals \cup {None}, status: ProviderStatuses, agrees: BOOLEAN]

NoSession == [op |-> "idle"]

SessionStates ==
  {NoSession} \cup
  [op: {"submitting"}, request: Withdrawals] \cup
  [op: {"submitted"}, request: Withdrawals, status: ProviderStatuses] \cup
  [op: {"received"}, callback: Callbacks, found: Withdrawals \cup {None}] \cup
  [op: {"replayed"}, nonce: Nonces]

TypeOK ==
  /\ request \in [Withdrawals -> Requests]
  /\ submission \in [Withdrawals -> ProviderStatuses \cup {None}]
  /\ posted \in [Withdrawals -> [RowTypes -> Nat]]
  /\ events \in [Nonces -> Nat]
  /\ rejections \subseteq Nonces
  /\ crossed \subseteq Withdrawals
  /\ payouts \subseteq [request: Withdrawals, key: Nat]
  /\ reported \in [Withdrawals -> SUBSET ProviderStatuses]
  /\ session \in [Sessions -> SessionStates]

Init ==
  /\ request = [w \in Withdrawals |->
                  [status |-> Absent, release |-> None, finalized |-> FALSE]]
  /\ submission = [w \in Withdrawals |-> None]
  /\ posted = [w \in Withdrawals |-> [t \in RowTypes |-> 0]]
  /\ events = [n \in Nonces |-> 0]
  /\ rejections = {}
  /\ crossed = {}
  /\ payouts = {}
  /\ reported = [w \in Withdrawals |-> {}]
  /\ session = [s \in Sessions |-> NoSession]

-----------------------------------------------------------------------------
(* The ledger and the row locks *)

Returned(w) == posted[w]["withdrawal_reversal"] + posted[w]["withdrawal_provider_failure_release"]
Paid(w) == posted[w]["withdrawal_finalized"] + posted[w]["withdrawal_complete"]

Available ==
  Funds - Total([w \in Withdrawals |->
    Amount[w] * (posted[w]["withdrawal_reserve"] - Returned(w))])

\* validatePosting: the available account may not go negative.
Funded(w) == Amount[w] <= Available

Unresolved_NoIndex(w) == TRUE

\* The unique index on the resolution of a reservation.
Unresolved(w) == \A t \in ResolutionTypes : posted[w][t] = 0

Post(w, type) == posted' = [posted EXCEPT ![w][type] = @ + 1]

\* Sessions that hold the request row FOR UPDATE, and those whose callback
\* receipt refers to it and holds it FOR KEY SHARE.
Exclusive(w) ==
  {s \in Sessions : session[s].op \in {"submitting", "submitted"} /\ session[s].request = w}

Sharing(w) ==
  {s \in Sessions : session[s].op = "received" /\ session[s].callback.request = w}

\* A command on request w gets the row lock.
Locked(w) ==
  /\ request[w].status # Absent
  /\ Exclusive(w) \cup Sharing(w) = {}

SetStatus(w, st) == request' = [request EXCEPT ![w].status = st]
-----------------------------------------------------------------------------
(* Commands of players and operators *)

\* createWithdrawalRequest: the request and its reservation in one transaction.
Create(w) ==
  /\ request[w].status = Absent
  /\ Funded(w)
  /\ SetStatus(w, IF w \in ManualReview THEN "review_required" ELSE "reserved")
  /\ Post(w, "withdrawal_reserve")
  /\ UNCHANGED <<submission, events, rejections, crossed, provider, session>>

Approve(w) ==
  /\ Locked(w)
  /\ request[w].status \in {"reserved", "review_required"}
  /\ SetStatus(w, "submission_pending")
  /\ UNCHANGED <<submission, posted, events, rejections, crossed, provider, session>>

\* Release rows of w that releaseReservationIfNeeded takes for its own.
ExistingReleases(w, type) ==
  {t \in ReleaseTypes :
     /\ posted[w][t] > 0
     /\ t = type \/ type = "withdrawal_reversal"}

Release_Always(w, type, st) ==
  /\ request' = [request EXCEPT ![w].status = st, ![w].release = type]
  /\ Post(w, type)

\* releaseReservationIfNeeded and the new status: the release on record, one
\* found in the ledger, or a new one the unique index lets in.
Release(w, type, st) ==
  \/ /\ request[w].release # None
     /\ SetStatus(w, st)
     /\ UNCHANGED posted
  \/ /\ request[w].release = None
     /\ \E t \in ExistingReleases(w, type) :
          request' = [request EXCEPT ![w].status = st, ![w].release = t]
     /\ UNCHANGED posted
  \/ /\ request[w].release = None
     /\ ExistingReleases(w, type) = {}
     /\ Unresolved(w)
     /\ request' = [request EXCEPT ![w].status = st, ![w].release = type]
     /\ Post(w, type)

\* assertRejectable
Rejectable == Statuses \ (ProviderHeld \cup {"cancelled", "rejected"})

\* assertCancellable
Cancellable == Rejectable \ {"approved", "submission_pending"}

Reject(w) ==
  /\ Locked(w)
  /\ request[w].status \in Rejectable
  /\ Release(w, "withdrawal_reversal", "rejected")
  /\ UNCHANGED <<submission, events, rejections, crossed, provider, session>>

Cancel(w) ==
  /\ Locked(w)
  /\ request[w].status \in Cancellable
  /\ Release(w, "withdrawal_reversal", "cancelled")
  /\ UNCHANGED <<submission, events, rejections, crossed, provider, session>>

\* assertFinalizableProviderStatus
Finalizable == {"provider_confirmed"}

\* finalizeWithdrawalRequest: a finalization in the ledger is reused.
Finalize(w) ==
  /\ Locked(w)
  /\ submission[w] # None
  /\ request[w].status \in Finalizable
  /\ request' = [request EXCEPT ![w].status = "completed", ![w].finalized = TRUE]
  /\ \/ posted[w]["withdrawal_finalized"] > 0 /\ UNCHANGED posted
     \/ /\ posted[w]["withdrawal_finalized"] = 0
        /\ Unresolved(w)
        /\ Post(w, "withdrawal_finalized")
  /\ UNCHANGED <<submission, events, rejections, crossed, provider, session>>

\* assertProviderFailureReleasable
Releasable == {"provider_failed", "provider_rejected"}

ReleaseProviderFailure(w) ==
  /\ Locked(w)
  /\ submission[w] # None
  /\ request[w].status \in Releasable
  /\ Release(w, "withdrawal_provider_failure_release", "provider_failure_released")
  /\ UNCHANGED <<submission, events, rejections, crossed, provider, session>>

\* markProviderTerminal and markWithdrawalProviderUnknownReviewed
Mark(w) ==
  /\ Locked(w)
  /\ submission[w] # None
  /\ request[w].status \in {"provider_failed", "provider_rejected", "provider_unknown"}
  /\ SetStatus(w, CASE request[w].status = "provider_failed" -> "provider_failed_terminal"
                    [] request[w].status = "provider_rejected" -> "provider_rejected_terminal"
                    [] OTHER -> "provider_unknown_reviewed")
  /\ UNCHANGED <<submission, posted, events, rejections, crossed, provider, session>>

\* POST /ledger/reservations/.../release and .../capture: the accounting routes
\* resolve the reservation without the withdrawal knowing.
ResolveInLedger(w) ==
  /\ posted[w]["withdrawal_reserve"] > 0
  /\ Unresolved(w)
  /\ \E t \in {"withdrawal_reversal", "withdrawal_complete"} : Post(w, t)
  /\ UNCHANGED <<request, submission, events, rejections, crossed, provider, session>>

-----------------------------------------------------------------------------
(* The provider *)

StatusFor_Verbatim(p) == "provider_" \o p

\* withdrawalStatusForProviderStatus
StatusFor(p) ==
  CASE p \in {"accepted", "pending"} -> "provider_pending"
    [] p = "confirmed" -> "provider_confirmed"
    [] p = "failed" -> "provider_failed"
    [] p = "rejected" -> "provider_rejected"
    [] p = "unknown" -> "provider_unknown"

\* Only what the properties ask about is remembered.
Decisive == {"confirmed", "failed", "rejected"}

Report(w, p) == reported' = [reported EXCEPT ![w] = @ \cup ({p} \cap Decisive)]

Submittable == {"approved", "submission_pending", "submitting"}

\* A submission on record is applied, never repeated.
ResumeSubmission(w) ==
  /\ Locked(w)
  /\ submission[w] # None
  /\ request[w].status \in Submittable
  /\ SetStatus(w, StatusFor(submission[w]))
  /\ UNCHANGED <<submission, posted, events, rejections, crossed, provider, session>>

\* validateDestination fails.
BlockSubmission(w) ==
  /\ Locked(w)
  /\ submission[w] = None
  /\ request[w].status \in Submittable
  /\ w \in ManualReview
  /\ SetStatus(w, "review_required")
  /\ UNCHANGED <<submission, posted, events, rejections, crossed, provider, session>>

\* The status 'submitting' is written and the provider is called next; the row
\* stays locked and nobody sees that status.
BeginSubmit(s, w) ==
  /\ session[s] = NoSession
  /\ Locked(w)
  /\ submission[w] = None
  /\ request[w].status \in Submittable
  /\ w \notin ManualReview
  /\ session' = [session EXCEPT ![s] = [op |-> "submitting", request |-> w]]
  /\ UNCHANGED <<tables, provider>>

PayoutKey_PerAttempt(w) == Cardinality({p \in payouts : p.request = w}) + 1

\* providerIdempotencyKey: the same for every attempt of a request.
PayoutKey(w) == 1

\* The provider takes the payout on, or knows it by its key, and answers.
ProviderAccepts(s) ==
  /\ session[s].op = "submitting"
  /\ LET w == session[s].request IN
       /\ payouts' = payouts \cup {[request |-> w, key |-> PayoutKey(w)]}
       /\ \E p \in ProviderStatuses :
            /\ Report(w, p)
            /\ session' = [session EXCEPT ![s] =
                             [op |-> "submitted", request |-> w, status |-> p]]
  /\ UNCHANGED tables

CommitSubmit(s) ==
  /\ session[s].op = "submitted"
  /\ submission' = [submission EXCEPT ![session[s].request] = session[s].status]
  /\ SetStatus(session[s].request, StatusFor(session[s].status))
  /\ session' = [session EXCEPT ![s] = NoSession]
  /\ UNCHANGED <<posted, events, rejections, crossed, provider>>

\* syncWithdrawalProviderStatus, whatever the status of the request.
Sync(w) ==
  /\ Locked(w)
  /\ submission[w] # None
  /\ \E p \in ProviderStatuses :
       /\ Report(w, p)
       /\ submission' = [submission EXCEPT ![w] = p]
       /\ SetStatus(w, StatusFor(p))
  /\ UNCHANGED <<posted, events, rejections, crossed, payouts, session>>

-----------------------------------------------------------------------------
(* Callbacks *)

Existing(w) == w = None \/ request[w].status # Absent

\* What the provider may send about a payout it has taken on, by the shape of
\* the references; "unmatched" names nothing on record.
ShapeOf(cb) ==
  CASE cb.external = None /\ cb.request = None -> "unmatched"
    [] cb.external = None \/ ~cb.agrees -> "mismatch"
    [] cb.request = None -> "external_only"
    [] cb.request = cb.external -> "own"
    [] OTHER -> "other_request"

Sendable ==
  {cb \in Callbacks :
     /\ Existing(cb.request)
     /\ ShapeOf(cb) \in Shapes
     /\ cb.external # None => \E p \in payouts : p.request = cb.external
     /\ cb.external = None => ~cb.agrees}

NewNonce(n) == events[n] = 0

\* The receipt's insert waits for the same nonce in flight and for the row it
\* refers to; the submission is looked up before the request is locked.
Receive(s, cb) ==
  /\ session[s] = NoSession
  /\ \A t \in Sessions : session[t].op = "received" => session[t].callback.nonce # cb.nonce
  /\ IF NewNonce(cb.nonce)
     THEN /\ cb.request # None => Exclusive(cb.request) = {}
          /\ session' = [session EXCEPT ![s] =
               [op |-> "received", callback |-> cb,
                found |-> IF cb.external # None /\ submission[cb.external] # None
                          THEN cb.external ELSE None]]
          /\ IF cb.external = None THEN UNCHANGED reported ELSE Report(cb.external, cb.status)
     ELSE /\ session' = [session EXCEPT ![s] = [op |-> "replayed", nonce |-> cb.nonce]]
          /\ UNCHANGED reported
  /\ UNCHANGED <<tables, payouts>>

\* recordWebhookReplayRejection, in a transaction of its own.
RejectReplay(s) ==
  /\ session[s].op = "replayed"
  /\ rejections' = rejections \cup {session[s].nonce}
  /\ session' = [session EXCEPT ![s] = NoSession]
  /\ UNCHANGED <<request, submission, posted, events, crossed, provider>>

\* isTerminalForProviderCallback
CallbackTerminal ==
  {"completed", "cancelled", "rejected", "provider_failure_released",
   "provider_failed_terminal", "provider_rejected_terminal",
   "provider_unknown_reviewed"}

\* The request a callback is about: the one it names, or the one of the
\* submission found by its external id.
Target(r) == IF r.callback.request # None THEN r.callback.request ELSE r.found

\* The submission it updates, and whether it needs a review instead.
Matched(r, w) ==
  IF r.found # None THEN r.found ELSE IF submission[w] # None THEN w ELSE None

NeedsReview_NotTerminal(r, w) ==
  LET m == Matched(r, w)
  IN m = None \/ m # r.callback.external \/ ~r.callback.agrees

NeedsReview(r, w) ==
  LET m == Matched(r, w)
  IN \/ m = None \/ m # r.callback.external \/ ~r.callback.agrees
     \/ request[w].status \in CallbackTerminal

RecordEvent(n) == events' = [events EXCEPT ![n] = @ + 1]

ApplyUnmatched(s) ==
  /\ session[s].op = "received"
  /\ Target(session[s]) = None
  /\ RecordEvent(session[s].callback.nonce)
  /\ session' = [session EXCEPT ![s] = NoSession]
  /\ UNCHANGED <<request, submission, posted, rejections, crossed, provider>>

\* matchWithdrawalProviderEvent after the lock, applyWebhookEventIfSafe, COMMIT.
ApplyCallback(s) ==
  LET r == session[s]
      w == Target(r)
  IN
  /\ r.op = "received"
  /\ w # None
  /\ (Exclusive(w) \cup Sharing(w)) \subseteq {s}
  /\ RecordEvent(r.callback.nonce)
  /\ session' = [session EXCEPT ![s] = NoSession]
  /\ \/ /\ NeedsReview(r, w)
        /\ IF request[w].status \in CallbackTerminal
           THEN UNCHANGED request ELSE SetStatus(w, "review_required")
        /\ UNCHANGED <<submission, crossed>>
     \/ /\ ~NeedsReview(r, w)
        /\ crossed' = IF Matched(r, w) = w THEN crossed ELSE crossed \cup {w}
        /\ submission' = [submission EXCEPT ![Matched(r, w)] = r.callback.status]
        /\ SetStatus(w, StatusFor(r.callback.status))
  /\ UNCHANGED <<posted, rejections, provider>>

-----------------------------------------------------------------------------
Abort_NoRollback(s) == UNCHANGED vars

\* ROLLBACK; what the provider did stays done.
Abort(s) ==
  /\ session' = [session EXCEPT ![s] = NoSession]
  /\ UNCHANGED <<tables, provider>>

\* Two callbacks that both hold a request FOR KEY SHARE both wait to lock it:
\* PostgreSQL finds the deadlock and aborts one of them.
InDeadlock(s) ==
  /\ session[s].op = "received"
  /\ Target(session[s]) # None
  /\ s \in Sharing(Target(session[s]))
  /\ Sharing(Target(session[s])) # {s}

BreakDeadlock(s) == InDeadlock(s) /\ Abort(s)

\* The process dies, the provider call throws, a statement fails.
Crash(s) == CanCrash /\ session[s] # NoSession /\ Abort(s)

Command(w) ==
  \/ Create(w) \/ Approve(w) \/ Reject(w) \/ Cancel(w) \/ Finalize(w)
  \/ ReleaseProviderFailure(w) \/ Mark(w) \/ ResolveInLedger(w)
  \/ ResumeSubmission(w) \/ BlockSubmission(w) \/ Sync(w)

Continue(s) ==
  \/ ProviderAccepts(s) \/ CommitSubmit(s) \/ RejectReplay(s)
  \/ ApplyUnmatched(s) \/ ApplyCallback(s) \/ BreakDeadlock(s)

Next ==
  \/ \E w \in Withdrawals : Command(w)
  \/ \E s \in Sessions :
       \/ \E w \in Withdrawals : BeginSubmit(s, w)
       \/ \E cb \in Sendable : Receive(s, cb)
       \/ Continue(s)
       \/ Crash(s)

Spec == Init /\ [][Next]_vars

\* A transaction that has begun goes on: its statements execute, row locks are
\* granted in queue order, and the deadlock detector runs.
LiveSpec == Spec /\ \A s \in Sessions : SF_vars(Continue(s))

-----------------------------------------------------------------------------
(* Properties *)

\* A request whose status says the money went back or went out has exactly the
\* ledger row that says so, whatever command, callback or sync came before:
\* "Rejected and cancelled withdrawals release reserved funds exactly once".
OutcomeInLedger ==
  \A w \in Withdrawals :
    /\ request[w].status \in {"rejected", "cancelled", "provider_failure_released"}
         => Returned(w) = 1 /\ Paid(w) = 0
    /\ request[w].status = "completed"
         => Paid(w) = 1 /\ Returned(w) = 0

\* A request is paid out by the provider at most once, also when a submission
\* is repeated after its transaction was lost.
OnePayoutPerRequest ==
  \A p, q \in payouts : p.request = q.request => p = q

\* Money leaves the ledger only for a payout the provider has confirmed, and
\* comes back as a provider failure only when the provider has said so.
FollowsProvider(w) ==
  /\ posted[w]["withdrawal_finalized"] > 0 => "confirmed" \in reported[w]
  /\ posted[w]["withdrawal_provider_failure_release"] > 0
       => reported[w] \cap {"failed", "rejected"} # {}

\* A callback takes effect once: a nonce that is delivered again, at the same
\* time or after a crash, never leads to a second event, and only a duplicate
\* is recorded as one.
CallbackAppliesOnce ==
  \A n \in Nonces : events[n] <= 1 /\ (n \in rejections => events[n] = 1)

\* The status of a request, its rows in the ledger and what the provider said of
\* its payout agree: the first two for every request, whatever callbacks came,
\* the third unless a callback about another's payout was applied to it.
RecordsAgree ==
  /\ OutcomeInLedger
  /\ \A w \in Withdrawals \ crossed : FollowsProvider(w)

\* What is repeated, a submission after a crash or a callback, counts once.
RepeatsCountOnce == OnePayoutPerRequest /\ CallbackAppliesOnce

\* A callback never takes a request out of a status that ends it.
CallbacksRespectOutcome ==
  [][\A w \in Withdrawals :
       events' # events /\ request[w].status \in CallbackTerminal
         => request'[w] = request[w]]_vars

\* Two callbacks about the same request do not block each other for ever.
CallbacksFinish ==
  \A s \in Sessions : session[s].op = "received" ~> session[s].op # "received"

(* The promise *)

\* The amounts behave as WithdrawalFunds promises.
HeldAmount(w) ==
  CASE posted[w]["withdrawal_reserve"] = 0 -> "none"
    [] Returned(w) > 0 -> "returned"
    [] Paid(w) > 0 -> "paid"
    [] OTHER -> "reserved"

Promise ==
  INSTANCE WithdrawalFunds WITH
    available <- Available,
    held <- [w \in Withdrawals |-> HeldAmount(w)]

FundsSpec == Promise!Spec
=============================================================================
