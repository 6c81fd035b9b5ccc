------------------------------- MODULE Deposits -------------------------------
(***************************************************************************)
(* DepositService: deposit intents, the provider's deposit events and the  *)
(* operators who review them.                                              *)
(*                                                                         *)
(* Nothing here locks a row before it reads it.  A command is a database   *)
(* transaction that reads an event, then an intent, then looks for a       *)
(* credited event of the same payment, each in a statement of its own that *)
(* sees what is committed by then, and in the end writes whole rows back.  *)
(* The writes are one step: they read nothing more, and row locks and      *)
(* unique indexes order them as their commits are ordered.                 *)
(*                                                                         *)
(* A callback comes under an idempotency key, of its own or the one that   *)
(* the webhook route gives its event.  The route's callbacks all differ:   *)
(* nonce and time are part of the request.  So a record of the route's key *)
(* refuses every further callback that comes under it, and a callback that *)
(* waits for the key has not begun.  What is refused for its key or its    *)
(* nonce, or is a replay of one request, changes nothing and is no step.   *)
(***************************************************************************)
EXTENDS Integers, FiniteSets

CONSTANTS
  Intents,     \* deposit intents
  Events,      \* provider event ids
  Payments,    \* external transaction ids
  PaymentOf,   \* the payment each event reports
  Named,       \* the intent each event names, by id or destination, if any
  NoIntent, NoPayment,
  Fits,        \* intents whose provider, currency and amount fit the event
  Sessions,    \* database connections
  Webhook,     \* events whose callbacks also come through the webhook route
  Expiring,    \* intents that may expire
  MayBlock,    \* whether a player may be barred from deposits
  MayFail      \* whether transactions may be cut off before COMMIT

ASSUME DepositsAssumption ==
  /\ PaymentOf \in [Events -> Payments]
  /\ NoIntent \notin Intents /\ NoPayment \notin Payments
  /\ Named \in [Events -> Intents \cup {NoIntent}]
  /\ Fits \in [Events -> SUBSET Intents]
  /\ Webhook \subseteq Events
  /\ Expiring \subseteq Intents
  /\ MayBlock \in BOOLEAN /\ MayFail \in BOOLEAN

VARIABLES
  intent,    \* deposit_intents: status and the payment credited, if any
  expired,   \* intents whose expires_at has passed
  event,     \* provider_deposit_events
  keyed,     \* events whose route key has a record in idempotency_records
  credits,   \* deposit_confirmed_credit rows in the ledger, per payment and intent
  session    \* the transactions in flight

tables == <<intent, event, keyed, credits>>
vars == <<intent, expired, event, keyed, credits, session>>

Absent == "absent"

IntentRows ==
  [status: {Absent, "awaiting_external_payment", "detected", "credited", "review_required"},
   credited: Payments \cup {NoPayment}]

EventRows ==
  [status: {Absent, "received", "awaiting_confirmation", "credited", "duplicate",
            "review_required", "reviewed_no_credit", "rejected"},
   intent: Intents \cup {NoIntent}, confirmed: BOOLEAN]

\* No reason against crediting.
NoReason == "none"

\* overridableReviewReasonCodes
Overridable == {"mismatch", "expired", "not_creditable"}

Operations == {"ingest", "approve", "link"}

NoSession == [at |-> "idle"]

\* A transaction that has read its event, one that has read the intent too,
\* and one that knows what it will write; routed says under which key it runs.
Matches ==
  [at: {"matching"}, op: Operations, event: Events, fresh: BOOLEAN, routed: BOOLEAN,
   row: EventRows]

Checks ==
  [at: {"checking"}, op: Operations, event: Events, fresh: BOOLEAN, routed: BOOLEAN,
   row: EventRows, intent: Intents, read: IntentRows]

Writes ==
  [at: {"writing"}, event: Events, fresh: BOOLEAN, routed: BOOLEAN, row: EventRows,
   intent: Intents \cup {NoIntent}, write: IntentRows, posts: BOOLEAN]

SessionStates == {NoSession} \cup Matches \cup Checks \cup Writes

TypeOK ==
  /\ intent \in [Intents -> IntentRows]
  /\ expired \subseteq Intents
  /\ event \in [Events -> EventRows]
  /\ keyed \subseteq Events
  /\ credits \in [Payments -> [Intents -> Nat]]
  /\ session \in [Sessions -> SessionStates]

NoIntentRow == [status |-> Absent, credited |-> NoPayment]

Init ==
  /\ intent = [i \in Intents |-> NoIntentRow]
  /\ expired = {}
  /\ event = [e \in Events |-> [status |-> Absent, intent |-> NoIntent, confirmed |-> FALSE]]
  /\ keyed = {}
  /\ credits = [p \in Payments |-> [i \in Intents |-> 0]]
  /\ session = [s \in Sessions |-> NoSession]

Become(s, r) == session' = [session EXCEPT ![s] = r]

\* Everything a transaction does before it commits leaves the tables alone.
Privately(s, r) == Become(s, r) /\ UNCHANGED <<tables, expired>>

Abort(s) == Privately(s, NoSession)

-----------------------------------------------------------------------------
CreateIntent(i) ==
  /\ intent[i].status = Absent
  /\ intent' = [intent EXCEPT ![i].status = "awaiting_external_payment"]
  /\ UNCHANGED <<expired, event, keyed, credits, session>>

\* Time passes the intent's expires_at.
Expire(i) ==
  /\ i \in Expiring
  /\ intent[i].status # Absent
  /\ expired' = expired \cup {i}
  /\ UNCHANGED <<tables, session>>

CreditedEvents_AnyStatus(p) ==
  {e \in Events : PaymentOf[e] = p /\ event[e].status # Absent}

\* getCreditedEventByExternalTransactionId
CreditedEvents(p) == {e \in Events : PaymentOf[e] = p /\ event[e].status = "credited"}

\* What a transaction will write: the event, and an intent or none.
WriteEvent(s, r, row) ==
  Privately(s, [at |-> "writing", event |-> r.event, fresh |-> r.fresh, routed |-> r.routed,
                row |-> row, intent |-> NoIntent, write |-> NoIntentRow, posts |-> FALSE])

WriteBoth(s, r, row, write, posts) ==
  Privately(s, [at |-> "writing", event |-> r.event, fresh |-> r.fresh, routed |-> r.routed,
                row |-> row, intent |-> r.intent, write |-> write, posts |-> posts])

-----------------------------------------------------------------------------
(* Provider callbacks *)

\* Ids and destinations are made with their intent: nobody names an intent
\* that is not there.
Known(e) == Named[e] # NoIntent => intent[Named[e]].status # Absent

\* The route's key of event e has no record, and no transaction that may yet
\* write one.
KeyFree(e) ==
  /\ e \notin keyed
  /\ \A s \in Sessions :
       session[s] # NoSession /\ session[s].routed => session[s].event # e

\* A callback about e, under the route's key or one of its own, may begin.
Begins(s, e, routed) ==
  /\ session[s] = NoSession
  /\ routed => e \in Webhook /\ KeyFree(e)

\* An unconfirmed callback about an event on record changes nothing, but its
\* key is complete.
AnswerAgain(e) ==
  /\ e \in Webhook
  /\ KeyFree(e)
  /\ event[e].status # Absent
  /\ keyed' = keyed \cup {e}
  /\ UNCHANGED <<intent, expired, event, credits, session>>

\* An event seen for the first time, of a payment that was credited already;
\* it is a plain duplicate when it names the intent by its id.
IngestDuplicate(s, e, confirmed, routed) ==
  /\ Begins(s, e, routed)
  /\ event[e].status = Absent
  /\ Known(e)
  /\ \E d \in CreditedEvents(PaymentOf[e]), st \in {"duplicate", "review_required"} :
       /\ st = "duplicate" => Named[e] = event[d].intent
       /\ WriteEvent(s, [event |-> e, fresh |-> TRUE, routed |-> routed],
            [status |-> st, intent |-> event[d].intent, confirmed |-> confirmed])

\* An event seen for the first time otherwise.
IngestNew(s, e, confirmed, routed) ==
  /\ Begins(s, e, routed)
  /\ event[e].status = Absent
  /\ Known(e)
  /\ CreditedEvents(PaymentOf[e]) = {}
  /\ Privately(s, [at |-> "matching", op |-> "ingest", event |-> e, fresh |-> TRUE, routed |-> routed,
       row |-> [status |-> "received", intent |-> Named[e], confirmed |-> confirmed]])

Redriven_ReceivedOnly == {"received"}

\* Statuses from which a later confirmed callback drives the event on.
Redriven == {"received", "awaiting_confirmation"}

IngestAgain(s, e, routed) ==
  /\ Begins(s, e, routed)
  /\ event[e].status \in Redriven
  /\ Privately(s, [at |-> "matching", op |-> "ingest", event |-> e, fresh |-> FALSE, routed |-> routed,
       row |-> [event[e] EXCEPT !.confirmed = TRUE]])

\* An event without an intent waits or is reviewed.
Unmatched(s) ==
  LET r == session[s] IN
  /\ r.at = "matching" /\ r.op = "ingest"
  /\ r.row.intent = NoIntent
  /\ WriteEvent(s, r,
       [r.row EXCEPT !.status = IF r.row.confirmed
                                THEN "review_required" ELSE "awaiting_confirmation"])

\* The intent of the event is read; a link reads the one the operator names.
ReadIntent(s) ==
  LET r == session[s] IN
  /\ r.at = "matching"
  /\ \E i \in Intents :
       /\ r.op # "link" => i = r.row.intent
       /\ intent[i].status # Absent
       /\ Privately(s, [at |-> "checking", op |-> r.op, event |-> r.event, fresh |-> r.fresh,
            routed |-> r.routed, row |-> r.row, intent |-> i, read |-> intent[i]])

\* handleUnconfirmedEvent
Detect(s) ==
  LET r == session[s] IN
  /\ r.at = "checking" /\ r.op = "ingest"
  /\ ~r.row.confirmed
  /\ LET row == [r.row EXCEPT !.status = "awaiting_confirmation"] IN
     IF r.read.status = "awaiting_external_payment"
     THEN WriteBoth(s, r, row, [r.read EXCEPT !.status = "detected"], FALSE)
     ELSE WriteEvent(s, r, row)

-----------------------------------------------------------------------------
(* Crediting *)

\* validateCreditableIntent: the first reason that applies.
Reason(r, allowReview) ==
  IF r.intent \notin Fits[r.event] THEN "mismatch"
  ELSE IF r.intent \in expired THEN "expired"
  ELSE IF r.read.status = "credited" THEN "already_credited"
  ELSE IF r.read.status = "review_required" /\ ~allowReview THEN "not_creditable"
  ELSE IF CreditedEvents(PaymentOf[r.event]) # {} THEN "duplicate"
  ELSE NoReason

\* markEventForReview and markIntentForReview
Review(s, r) ==
  WriteBoth(s, r, [r.row EXCEPT !.status = "review_required", !.intent = r.intent],
            [r.read EXCEPT !.status = "review_required"], FALSE)

\* creditIntentForEvent: a barred player's deposit goes to review.
Credit(s, r) ==
  \/ WriteBoth(s, r, [r.row EXCEPT !.status = "credited", !.intent = r.intent],
               [status |-> "credited", credited |-> PaymentOf[r.event]], TRUE)
  \/ MayBlock /\ Review(s, r)

\* handleConfirmedEvent
Confirm(s) ==
  LET r == session[s] IN
  /\ r.at = "checking" /\ r.op = "ingest"
  /\ r.row.confirmed
  /\ IF Reason(r, FALSE) = NoReason THEN Credit(s, r) ELSE Review(s, r)

-----------------------------------------------------------------------------
(* Operators *)

\* What a command of an operator is about; it has a key of its own.
OperatorOn(e) == [event |-> e, fresh |-> FALSE, routed |-> FALSE]

Final == {"reviewed_no_credit", "rejected"}

\* markReviewedNoCredit and rejectProviderEvent
Refuse(s, e) ==
  /\ session[s] = NoSession
  /\ event[e].status \notin {Absent, "credited"} \cup Final
  /\ \E st \in Final : WriteEvent(s, OperatorOn(e), [event[e] EXCEPT !.status = st])

\* approveProviderEventCredit and retryProviderEventCredit; the event of a
\* payment on record is returned as it is.
BeginApprove(s, e) ==
  /\ session[s] = NoSession
  /\ event[e].status \notin {Absent, "credited"} \cup Final
  /\ event[e].confirmed
  /\ Privately(s, [at |-> "matching", op |-> "approve", event |-> e, fresh |-> FALSE,
                   routed |-> FALSE, row |-> event[e]])

BeginLink(s, e) ==
  /\ session[s] = NoSession
  /\ event[e].status \notin {Absent, "credited"} \cup Final
  /\ Privately(s, [at |-> "matching", op |-> "link", event |-> e, fresh |-> FALSE,
                   routed |-> FALSE, row |-> event[e]])

\* The operator overrides what may be overridden.
Approve(s) ==
  LET r == session[s] IN
  /\ r.at = "checking" /\ r.op = "approve"
  /\ Reason(r, TRUE) \in Overridable \cup {NoReason}
  /\ Credit(s, r)

\* linkProviderEventToIntent: approval is still required.
Link(s) ==
  LET r == session[s]
      row == [r.row EXCEPT !.status = "review_required", !.intent = r.intent]
  IN
  /\ r.at = "checking" /\ r.op = "link"
  /\ Reason(r, TRUE) \in Overridable \cup {NoReason}
  /\ IF r.read.status = "credited"
     THEN WriteEvent(s, r, row)
     ELSE WriteBoth(s, r, row, [r.read EXCEPT !.status = "review_required"], FALSE)

-----------------------------------------------------------------------------
(* The end of a transaction *)

\* The command of an operator throws: an event without an intent, a link to an
\* intent that is not on record, or a reason that nobody may override.
Throw(s) ==
  LET r == session[s] IN
  /\ \/ r.at = "matching" /\ r.op = "approve" /\ r.row.intent = NoIntent
     \/ r.at = "matching" /\ r.op = "link"
     \/ /\ r.at = "checking" /\ r.op \in {"approve", "link"}
        /\ Reason(r, TRUE) \notin Overridable \cup {NoReason}
  /\ Abort(s)

\* Intents the ledger has a credit for payment p for.
PaidInto(p) == {i \in Intents : credits[p][i] > 0}

Unposted_NoIndex(p) == TRUE

\* The ledger's unique index on the key of a deposit credit.
Unposted(p) == PaidInto(p) = {}

\* The unique indexes: the event is new, its payment has one credited event
\* and one credit in the ledger.
Admitted(r) ==
  /\ r.fresh => event[r.event].status = Absent
  /\ r.row.status = "credited" => CreditedEvents(PaymentOf[r.event]) \subseteq {r.event}
  /\ r.posts => Unposted(PaymentOf[r.event])

Commit(s) ==
  LET r == session[s] IN
  /\ r.at = "writing"
  /\ Admitted(r)
  /\ event' = [event EXCEPT ![r.event] = r.row]
  /\ intent' = IF r.intent = NoIntent THEN intent ELSE [intent EXCEPT ![r.intent] = r.write]
  /\ credits' = IF r.posts THEN [credits EXCEPT ![PaymentOf[r.event]][r.intent] = @ + 1]
                           ELSE credits
  /\ keyed' = IF r.routed THEN keyed \cup {r.event} ELSE keyed
  /\ Become(s, NoSession)
  /\ UNCHANGED expired

Violates_KeepsEvent(s) ==
  LET r == session[s] IN
  /\ r.at = "writing"
  /\ ~Admitted(r)
  /\ event' = [event EXCEPT ![r.event] = r.row]
  /\ Become(s, NoSession)
  /\ UNCHANGED <<intent, expired, keyed, credits>>

\* A unique index refuses a write: everything is rolled back.
Violates(s) == session[s].at = "writing" /\ ~Admitted(session[s]) /\ Abort(s)

\* A statement fails, an override is missing, the process dies.
Fail(s) == MayFail /\ session[s] # NoSession /\ Abort(s)

Continue(s) ==
  \/ Unmatched(s) \/ ReadIntent(s) \/ Detect(s) \/ Confirm(s) \/ Approve(s) \/ Link(s)
  \/ Throw(s) \/ Commit(s) \/ Violates(s)

Next ==
  \/ \E i \in Intents : CreateIntent(i) \/ Expire(i)
  \/ \E e \in Events : AnswerAgain(e)
  \/ \E s \in Sessions :
       \/ \E e \in Events :
            \/ \E routed \in BOOLEAN :
                 \/ \E c \in BOOLEAN :
                      IngestDuplicate(s, e, c, routed) \/ IngestNew(s, e, c, routed)
                 \/ IngestAgain(s, e, routed)
            \/ Refuse(s, e) \/ BeginApprove(s, e) \/ BeginLink(s, e)
       \/ Continue(s)
       \/ Fail(s)

Spec == Init /\ [][Next]_vars

\* A transaction that has begun goes on.
LiveSpec == Spec /\ \A s \in Sessions : WF_vars(Continue(s))

\* A confirmed callback about event e that comes under a key of its own.
Redeliver(e) ==
  \E s \in Sessions :
    \/ IngestDuplicate(s, e, TRUE, FALSE) \/ IngestNew(s, e, TRUE, FALSE)
    \/ IngestAgain(s, e, FALSE)

-----------------------------------------------------------------------------
(* Properties *)

\* A payment credits a player at most once, whatever events report it and
\* whoever retries, approves or links them at the same time: "identical signed
\* callbacks do not double credit", "different provider event ids sharing an
\* external transaction credit at most once".
PaymentCreditedOnce ==
  \A p \in Payments : \A i \in PaidInto(p) : credits[p][i] = 1 /\ PaidInto(p) = {i}

\* What the tables call credited is in the ledger, for the same payment and the
\* same intent: otherwise "deposit state escaped Accounting Core ownership".
CreditedIsPosted ==
  /\ \A e \in Events : event[e].status = "credited" => event[e].intent \in PaidInto(PaymentOf[e])
  /\ \A i \in Intents : intent[i].status = "credited"
       => intent[i].credited \in Payments /\ i \in PaidInto(intent[i].credited)

\* An event is put away as a duplicate only when its payment did credit.
DuplicateHasCredit ==
  \A e \in Events : event[e].status = "duplicate" => PaidInto(PaymentOf[e]) # {}

\* An event that keeps being confirmed under new keys ends credited or with an
\* operator, also when it was first seen unconfirmed: "If an event was recorded
\* but interrupted before crediting, a later confirmed callback with a new
\* request idempotency key can re-drive the existing event safely."  No part of
\* the code sends new keys: that they come is the condition here.
Decided == {"credited", "duplicate", "review_required"} \cup Final

ConfirmedIsDecided ==
  \A e \in Events : SF_vars(Redeliver(e)) => (Known(e) ~> event[e].status \in Decided)

(* What documents say and the code does not keep *)

\* phase-4-deposit-rails.md: "already-credited intents are not overridable":
\* an intent takes one payment.
IntentCreditedOnce ==
  \A i \in Intents : Cardinality({p \in Payments : i \in PaidInto(p)}) <= 1
=============================================================================
