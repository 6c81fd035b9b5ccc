---------------------------- MODULE DepositProofs ----------------------------
(***************************************************************************)
(* What TLAPS proves of Deposits for all sets of intents, events, payments *)
(* and connections: a payment credits once, and what the tables call       *)
(* credited or duplicate is in the ledger.                                 *)
(***************************************************************************)
EXTENDS DepositReconciliation, TLAPS

-----------------------------------------------------------------------------
(* The inductive invariant *)

\* What a transaction will write: it posts exactly when it calls its event
\* credited, and then the intent too, for the payment of that event; it calls
\* an event a duplicate only of a payment in the ledger.
WriteOK(x) ==
  /\ x.posts <=> x.row.status = "credited"
  /\ x.posts => /\ x.intent \in Intents
                /\ x.row.intent = x.intent
                /\ x.write.credited = PaymentOf[x.event]
  /\ x.intent # NoIntent /\ x.write.status = "credited" => x.posts
  /\ x.row.status = "duplicate" => PaidInto(PaymentOf[x.event]) # {}

\* Nobody goes on with an event that was credited when it was read.
SessionOK(x) ==
  /\ x.at \in {"matching", "checking"} => x.row.status # "credited"
  /\ x.at = "writing" => WriteOK(x)

DInv ==
  /\ TypeOK
  /\ \A s \in Sessions : SessionOK(session[s])
  /\ PaymentCreditedOnce
  /\ CreditedIsPosted
  /\ DuplicateHasCredit

-----------------------------------------------------------------------------
(* What a transaction does before it commits *)

\* A step that only moves a session keeps the invariant if the session's new
\* state is in order.
LEMMA PrivateStep ==
  ASSUME DInv, NEW s \in Sessions, NEW x \in SessionStates, SessionOK(x), Privately(s, x)
  PROVE  DInv'
<1>1. UNCHANGED <<intent, expired, event, keyed, credits>>
  BY DEF Privately, tables
<1>2. session' = [session EXCEPT ![s] = x]
  BY DEF Privately, Become
<1>3. TypeOK'
  BY <1>1, <1>2 DEF DInv, TypeOK
<1>4. ASSUME NEW t \in Sessions PROVE SessionOK(session[t])'
  <2>1. SessionOK(session'[t])
    BY <1>2 DEF DInv, TypeOK
  <2> QED BY <2>1, <1>1 DEF SessionOK, WriteOK, PaidInto
<1>5. (PaymentCreditedOnce /\ CreditedIsPosted /\ DuplicateHasCredit)'
  BY <1>1 DEF DInv, PaymentCreditedOnce, CreditedIsPosted, DuplicateHasCredit, PaidInto
<1> QED BY <1>3, <1>4, <1>5 DEF DInv

LEMMA AbortStep ==
  ASSUME DInv, NEW s \in Sessions, Abort(s)
  PROVE  DInv'
<1>1. NoSession \in SessionStates /\ SessionOK(NoSession)
  BY DEF NoSession, SessionStates, SessionOK
<1> QED BY <1>1, PrivateStep DEF Abort

\* A transaction that decides to write only an event, which it does not call
\* credited.
LEMMA WriteEventStep ==
  ASSUME DInv, NEW s \in Sessions, NEW r,
         r.event \in Events, r.fresh \in BOOLEAN, r.routed \in BOOLEAN,
         NEW row \in EventRows, row.status # "credited",
         row.status = "duplicate" => PaidInto(PaymentOf[r.event]) # {},
         WriteEvent(s, r, row)
  PROVE  DInv'
<1> DEFINE x == [at |-> "writing", event |-> r.event, fresh |-> r.fresh, routed |-> r.routed,
                 row |-> row, intent |-> NoIntent, write |-> NoIntentRow, posts |-> FALSE]
<1>1. x \in SessionStates
  BY DEF Writes, SessionStates, NoIntentRow, IntentRows, Absent
<1>2. SessionOK(x)
  BY DEF SessionOK, WriteOK
<1>3. Privately(s, x)
  BY DEF WriteEvent
<1> HIDE DEF x
<1> QED BY <1>1, <1>2, <1>3, PrivateStep

\* A transaction that decides to write an event and an intent.
LEMMA WriteBothStep ==
  ASSUME DInv, NEW s \in Sessions, NEW r,
         r.event \in Events, r.fresh \in BOOLEAN, r.routed \in BOOLEAN, r.intent \in Intents,
         NEW row \in EventRows, NEW write \in IntentRows, NEW posts \in BOOLEAN,
         posts <=> row.status = "credited",
         posts <=> write.status = "credited",
         posts => row.intent = r.intent /\ write.credited = PaymentOf[r.event],
         row.status # "duplicate",
         WriteBoth(s, r, row, write, posts)
  PROVE  DInv'
<1> DEFINE x == [at |-> "writing", event |-> r.event, fresh |-> r.fresh, routed |-> r.routed,
                 row |-> row, intent |-> r.intent, write |-> write, posts |-> posts]
<1>1. x \in SessionStates
  BY DEF Writes, SessionStates
<1>2. SessionOK(x)
  BY DEF SessionOK, WriteOK
<1>3. Privately(s, x)
  BY DEF WriteBoth
<1> HIDE DEF x
<1> QED BY <1>1, <1>2, <1>3, PrivateStep

LEMMA KindsOfSession ==
  ASSUME NEW x \in SessionStates
  PROVE  /\ x.at = "matching" => x \in Matches
         /\ x.at = "checking" => x \in Checks
         /\ x.at = "writing" => x \in Writes
<1>1. NoSession.at = "idle"
  BY DEF NoSession
<1>2. \A y \in Matches : y.at = "matching"
  BY DEF Matches
<1>3. \A y \in Checks : y.at = "checking"
  BY DEF Checks
<1>4. \A y \in Writes : y.at = "writing"
  BY DEF Writes
<1> QED BY <1>1, <1>2, <1>3, <1>4 DEF SessionStates

\* The fields of a transaction that has read its event, and its intent.
LEMMA MatchingFields ==
  ASSUME DInv, NEW s \in Sessions, session[s].at = "matching"
  PROVE  /\ session[s].op \in Operations /\ session[s].event \in Events
         /\ session[s].fresh \in BOOLEAN /\ session[s].routed \in BOOLEAN
         /\ session[s].row \in EventRows
         /\ session[s].row.status # "credited"
<1>1. session[s] \in SessionStates /\ SessionOK(session[s])
  BY DEF DInv, TypeOK
<1>2. session[s] \in Matches
  BY <1>1, KindsOfSession
<1> QED BY <1>1, <1>2 DEF Matches, SessionOK

LEMMA CheckingFields ==
  ASSUME DInv, NEW s \in Sessions, session[s].at = "checking"
  PROVE  /\ session[s].op \in Operations /\ session[s].event \in Events
         /\ session[s].fresh \in BOOLEAN /\ session[s].routed \in BOOLEAN
         /\ session[s].row \in EventRows
         /\ session[s].row.status # "credited"
         /\ session[s].intent \in Intents /\ session[s].read \in IntentRows
<1>1. session[s] \in SessionStates /\ SessionOK(session[s])
  BY DEF DInv, TypeOK
<1>2. session[s] \in Checks
  BY <1>1, KindsOfSession
<1> QED BY <1>1, <1>2 DEF Checks, SessionOK

LEMMA WritingFields ==
  ASSUME DInv, NEW s \in Sessions, session[s].at = "writing"
  PROVE  /\ session[s].event \in Events /\ session[s].row \in EventRows
         /\ session[s].intent \in Intents \cup {NoIntent}
         /\ session[s].write \in IntentRows /\ session[s].posts \in BOOLEAN
         /\ WriteOK(session[s])
<1>1. session[s] \in SessionStates /\ SessionOK(session[s])
  BY DEF DInv, TypeOK
<1>2. session[s] \in Writes
  BY <1>1, KindsOfSession
<1> QED BY <1>1, <1>2 DEF Writes, SessionOK

\* A transaction that begins to match an event.
LEMMA MatchingStep ==
  ASSUME DInv, NEW s \in Sessions, NEW op \in Operations, NEW e \in Events,
         NEW fresh \in BOOLEAN, NEW routed \in BOOLEAN,
         NEW row \in EventRows, row.status # "credited",
         Privately(s, [at |-> "matching", op |-> op, event |-> e, fresh |-> fresh,
                       routed |-> routed, row |-> row])
  PROVE  DInv'
<1> DEFINE x == [at |-> "matching", op |-> op, event |-> e, fresh |-> fresh,
                 routed |-> routed, row |-> row]
<1>1. x \in SessionStates
  BY DEF Matches, SessionStates
<1>2. SessionOK(x)
  BY DEF SessionOK
<1> HIDE DEF x
<1> QED BY <1>1, <1>2, PrivateStep DEF x

-----------------------------------------------------------------------------
(* One lemma for each action *)

\* What an intent or an expiry changes is no credit.
LEMMA IntentStep ==
  ASSUME DInv, NEW i \in Intents, CreateIntent(i) \/ Expire(i)
  PROVE  DInv'
<1>1. UNCHANGED <<event, keyed, credits, session>>
  BY DEF CreateIntent, Expire, tables
<1>2. \A j \in Intents : intent'[j].status = "credited" => intent'[j] = intent[j]
  BY DEF CreateIntent, Expire, tables, DInv, TypeOK, IntentRows
<1>3. TypeOK'
  <2>1. expired' \subseteq Intents
    BY DEF CreateIntent, Expire, DInv, TypeOK
  <2>2. intent' \in [Intents -> IntentRows]
    BY DEF CreateIntent, Expire, tables, DInv, TypeOK, IntentRows
  <2> QED BY <1>1, <2>1, <2>2 DEF DInv, TypeOK
<1>4. ASSUME NEW s \in Sessions PROVE SessionOK(session[s])'
  BY <1>1 DEF DInv, SessionOK, WriteOK, PaidInto
<1>5. (PaymentCreditedOnce /\ DuplicateHasCredit)'
  BY <1>1 DEF DInv, PaymentCreditedOnce, DuplicateHasCredit, PaidInto
<1>6. CreditedIsPosted'
  BY <1>1, <1>2 DEF DInv, CreditedIsPosted, PaidInto
<1> QED BY <1>3, <1>4, <1>5, <1>6 DEF DInv

\* A callback that only completes its key.
LEMMA KeyStep ==
  ASSUME DInv, NEW e \in Events, AnswerAgain(e)
  PROVE  DInv'
<1>1. UNCHANGED <<intent, expired, event, credits, session>> /\ keyed' \subseteq Events
  BY DEF AnswerAgain, DInv, TypeOK
<1>2. TypeOK'
  BY <1>1 DEF DInv, TypeOK
<1> QED BY <1>1, <1>2 DEF DInv, SessionOK, WriteOK, PaidInto, PaymentCreditedOnce,
                          CreditedIsPosted, DuplicateHasCredit

\* The payment of an event that is put away was credited before.
LEMMA IngestDuplicateStep ==
  ASSUME DInv, NEW s \in Sessions, NEW e \in Events, NEW c \in BOOLEAN,
         NEW routed \in BOOLEAN, IngestDuplicate(s, e, c, routed)
  PROVE  DInv'
<1>1. PICK d \in CreditedEvents(PaymentOf[e]), st \in {"duplicate", "review_required"} :
        WriteEvent(s, [event |-> e, fresh |-> TRUE, routed |-> routed],
          [status |-> st, intent |-> event[d].intent, confirmed |-> c])
  BY DEF IngestDuplicate
<1>2. d \in Events /\ PaymentOf[d] = PaymentOf[e] /\ event[d].status = "credited"
  BY DEF CreditedEvents
<1>3. PaidInto(PaymentOf[e]) # {}
  BY <1>2 DEF DInv, CreditedIsPosted
<1>4. event[d].intent \in Intents \cup {NoIntent}
  BY <1>2 DEF DInv, TypeOK, EventRows
<1> DEFINE r == [event |-> e, fresh |-> TRUE, routed |-> routed]
           row == [status |-> st, intent |-> event[d].intent, confirmed |-> c]
<1>5. row \in EventRows /\ row.status # "credited"
  BY <1>4 DEF EventRows
<1>6. r.event = e /\ r.fresh = TRUE /\ r.routed = routed /\ WriteEvent(s, r, row)
  BY <1>1
<1> HIDE DEF row, r
<1> QED BY <1>3, <1>5, <1>6, WriteEventStep

LEMMA IngestNewStep ==
  ASSUME DInv, NEW s \in Sessions, NEW e \in Events, NEW c \in BOOLEAN,
         NEW routed \in BOOLEAN, IngestNew(s, e, c, routed)
  PROVE  DInv'
<1> DEFINE row == [status |-> "received", intent |-> Named[e], confirmed |-> c]
<1>1. row \in EventRows /\ row.status # "credited"
  BY DepositsAssumption DEF EventRows
<1>2. Privately(s, [at |-> "matching", op |-> "ingest", event |-> e, fresh |-> TRUE,
                    routed |-> routed, row |-> row])
  BY DEF IngestNew
<1>3. "ingest" \in Operations
  BY DEF Operations
<1> HIDE DEF row
<1> QED BY <1>1, <1>2, <1>3, MatchingStep

\* An event that is on record and not credited is taken up again.
LEMMA TakeUpStep ==
  ASSUME DInv, NEW s \in Sessions, NEW e \in Events, NEW routed \in BOOLEAN,
         IngestAgain(s, e, routed) \/ BeginApprove(s, e) \/ BeginLink(s, e)
  PROVE  DInv'
<1>1. event[e] \in EventRows
  BY DEF DInv, TypeOK
<1>2. event[e].status # "credited"
  BY DEF IngestAgain, BeginApprove, BeginLink, Redriven
<1> DEFINE again == [event[e] EXCEPT !.confirmed = TRUE]
<1>3. again \in EventRows /\ again.status # "credited"
  BY <1>1, <1>2 DEF EventRows
<1>4. CASE IngestAgain(s, e, routed)
  <2>1. Privately(s, [at |-> "matching", op |-> "ingest", event |-> e,
                      fresh |-> FALSE, routed |-> routed, row |-> again])
    BY <1>4 DEF IngestAgain
  <2> HIDE DEF again
  <2> QED BY <2>1, <1>3, MatchingStep DEF Operations
<1>5. CASE BeginApprove(s, e)
  BY <1>1, <1>2, <1>5, MatchingStep DEF BeginApprove, Operations
<1>6. CASE BeginLink(s, e)
  BY <1>1, <1>2, <1>6, MatchingStep DEF BeginLink, Operations
<1> QED BY <1>4, <1>5, <1>6

LEMMA RefuseStep ==
  ASSUME DInv, NEW s \in Sessions, NEW e \in Events, Refuse(s, e)
  PROVE  DInv'
<1>1. PICK st \in Final : WriteEvent(s, OperatorOn(e), [event[e] EXCEPT !.status = st])
  BY DEF Refuse
<1> DEFINE row == [event[e] EXCEPT !.status = st]
<1>2. event[e] \in EventRows
  BY DEF DInv, TypeOK
<1>3. row \in EventRows /\ row.status = st
  BY <1>2 DEF EventRows, Final
<1>4. st # "credited" /\ st # "duplicate"
  BY DEF Final
<1> HIDE DEF row
<1>5. OperatorOn(e).event = e /\ OperatorOn(e).fresh = FALSE /\ OperatorOn(e).routed = FALSE
  BY DEF OperatorOn
<1> QED BY <1>1, <1>3, <1>4, <1>5, WriteEventStep DEF row

LEMMA UnmatchedStep ==
  ASSUME DInv, NEW s \in Sessions, Unmatched(s)
  PROVE  DInv'
<1> DEFINE r == session[s]
           row == [r.row EXCEPT !.status = IF r.row.confirmed
                                THEN "review_required" ELSE "awaiting_confirmation"]
<1>1. r.event \in Events /\ r.fresh \in BOOLEAN /\ r.routed \in BOOLEAN /\ r.row \in EventRows
  BY MatchingFields DEF Unmatched
<1>2. row \in EventRows /\ row.status \in {"review_required", "awaiting_confirmation"}
  BY <1>1 DEF EventRows
<1>3. WriteEvent(s, r, row)
  BY DEF Unmatched
<1> HIDE DEF row, r
<1> QED BY <1>1, <1>2, <1>3, WriteEventStep

LEMMA ReadIntentStep ==
  ASSUME DInv, NEW s \in Sessions, ReadIntent(s)
  PROVE  DInv'
<1> DEFINE r == session[s]
<1>1. PICK i \in Intents :
        Privately(s, [at |-> "checking", op |-> r.op, event |-> r.event, fresh |-> r.fresh,
                      routed |-> r.routed, row |-> r.row, intent |-> i, read |-> intent[i]])
  BY DEF ReadIntent
<1> DEFINE x == [at |-> "checking", op |-> r.op, event |-> r.event, fresh |-> r.fresh,
                 routed |-> r.routed, row |-> r.row, intent |-> i, read |-> intent[i]]
<1>2. /\ r.op \in Operations /\ r.event \in Events
      /\ r.fresh \in BOOLEAN /\ r.routed \in BOOLEAN
      /\ r.row \in EventRows /\ r.row.status # "credited"
  BY MatchingFields DEF ReadIntent
<1>3. intent[i] \in IntentRows
  BY DEF DInv, TypeOK
<1>4. x \in SessionStates
  BY <1>2, <1>3 DEF Checks, SessionStates
<1>5. SessionOK(x)
  BY <1>2 DEF SessionOK
<1> HIDE DEF x, r
<1> QED BY <1>1, <1>4, <1>5, PrivateStep DEF x

LEMMA DetectStep ==
  ASSUME DInv, NEW s \in Sessions, Detect(s)
  PROVE  DInv'
<1> DEFINE r == session[s]
           row == [r.row EXCEPT !.status = "awaiting_confirmation"]
           write == [r.read EXCEPT !.status = "detected"]
<1>1. /\ r.event \in Events /\ r.fresh \in BOOLEAN /\ r.routed \in BOOLEAN
      /\ r.row \in EventRows /\ r.intent \in Intents /\ r.read \in IntentRows
  BY CheckingFields DEF Detect
<1>2. row \in EventRows /\ row.status = "awaiting_confirmation"
  BY <1>1 DEF EventRows
<1>3. write \in IntentRows /\ write.status = "detected"
  BY <1>1 DEF IntentRows
<1>4. WriteBoth(s, r, row, write, FALSE) \/ WriteEvent(s, r, row)
  BY DEF Detect
<1> HIDE DEF row, write, r
<1>5. CASE WriteBoth(s, r, row, write, FALSE)
  BY <1>1, <1>2, <1>3, <1>5, WriteBothStep
<1>6. CASE WriteEvent(s, r, row)
  BY <1>1, <1>2, <1>6, WriteEventStep
<1> QED BY <1>4, <1>5, <1>6

LEMMA ReviewStep ==
  ASSUME DInv, NEW s \in Sessions, session[s].at = "checking", Review(s, session[s])
  PROVE  DInv'
<1> DEFINE r == session[s]
           row == [r.row EXCEPT !.status = "review_required", !.intent = r.intent]
           write == [r.read EXCEPT !.status = "review_required"]
<1>1. /\ r.event \in Events /\ r.fresh \in BOOLEAN /\ r.routed \in BOOLEAN
      /\ r.row \in EventRows /\ r.intent \in Intents /\ r.read \in IntentRows
  BY CheckingFields
<1>2. row \in EventRows /\ row.status = "review_required"
  BY <1>1 DEF EventRows
<1>3. write \in IntentRows /\ write.status = "review_required"
  BY <1>1 DEF IntentRows
<1>4. WriteBoth(s, r, row, write, FALSE)
  BY DEF Review
<1> HIDE DEF row, write, r
<1> QED BY <1>1, <1>2, <1>3, <1>4, WriteBothStep

LEMMA CreditStep ==
  ASSUME DInv, NEW s \in Sessions, session[s].at = "checking", Credit(s, session[s])
  PROVE  DInv'
<1> DEFINE r == session[s]
           row == [r.row EXCEPT !.status = "credited", !.intent = r.intent]
           write == [status |-> "credited", credited |-> PaymentOf[r.event]]
<1>1. /\ r.event \in Events /\ r.fresh \in BOOLEAN /\ r.routed \in BOOLEAN
      /\ r.row \in EventRows /\ r.intent \in Intents
  BY CheckingFields
<1>2. row \in EventRows /\ row.status = "credited" /\ row.intent = r.intent
  BY <1>1 DEF EventRows
<1>3. write \in IntentRows /\ write.status = "credited" /\ write.credited = PaymentOf[r.event]
  BY <1>1, DepositsAssumption DEF IntentRows
<1>4. CASE WriteBoth(s, r, row, write, TRUE)
  <2> HIDE DEF row, write, r
  <2> QED BY <1>1, <1>2, <1>3, <1>4, WriteBothStep
<1>5. CASE Review(s, r)
  BY <1>5, ReviewStep
<1> QED BY <1>4, <1>5 DEF Credit

LEMMA LinkStep ==
  ASSUME DInv, NEW s \in Sessions, Link(s)
  PROVE  DInv'
<1> DEFINE r == session[s]
           row == [r.row EXCEPT !.status = "review_required", !.intent = r.intent]
           write == [r.read EXCEPT !.status = "review_required"]
<1>1. /\ r.event \in Events /\ r.fresh \in BOOLEAN /\ r.routed \in BOOLEAN
      /\ r.row \in EventRows /\ r.intent \in Intents /\ r.read \in IntentRows
  BY CheckingFields DEF Link
<1>2. row \in EventRows /\ row.status = "review_required"
  BY <1>1 DEF EventRows
<1>3. write \in IntentRows /\ write.status = "review_required"
  BY <1>1 DEF IntentRows
<1>4. WriteBoth(s, r, row, write, FALSE) \/ WriteEvent(s, r, row)
  BY DEF Link
<1> HIDE DEF row, write, r
<1>5. CASE WriteBoth(s, r, row, write, FALSE)
  BY <1>1, <1>2, <1>3, <1>5, WriteBothStep
<1>6. CASE WriteEvent(s, r, row)
  BY <1>1, <1>2, <1>6, WriteEventStep
<1> QED BY <1>4, <1>5, <1>6

\* A commit adds at most its own payment's credit, which the index admits only
\* while the payment has none.
LEMMA CommitStep ==
  ASSUME DInv, NEW s \in Sessions, Commit(s)
  PROVE  DInv'
<1> DEFINE r == session[s]
           p == PaymentOf[r.event]
<1>1. /\ r.event \in Events /\ r.row \in EventRows
      /\ r.intent \in Intents \cup {NoIntent}
      /\ r.write \in IntentRows /\ r.posts \in BOOLEAN
      /\ WriteOK(r)
  BY WritingFields DEF Commit
<1>2. /\ event' = [event EXCEPT ![r.event] = r.row]
      /\ intent' = IF r.intent = NoIntent THEN intent ELSE [intent EXCEPT ![r.intent] = r.write]
      /\ credits' = IF r.posts THEN [credits EXCEPT ![p][r.intent] = @ + 1] ELSE credits
      /\ session' = [session EXCEPT ![s] = NoSession]
      /\ expired' = expired
      /\ keyed' \subseteq keyed \cup {r.event}
      /\ r.posts => PaidInto(p) = {}
  BY DEF Commit, Admitted, Unposted, Become
<1>3. p \in Payments /\ (r.posts => r.intent \in Intents)
  BY <1>1, DepositsAssumption DEF WriteOK
<1>4. credits' \in [Payments -> [Intents -> Nat]]
  BY <1>1, <1>2, <1>3, DepositsAssumption DEF WriteOK, DInv, TypeOK
<1>5. TypeOK'
  <2>1. event' \in [Events -> EventRows]
    BY <1>1, <1>2 DEF DInv, TypeOK
  <2>2. intent' \in [Intents -> IntentRows]
    BY <1>1, <1>2 DEF DInv, TypeOK
  <2>3. session' \in [Sessions -> SessionStates]
    BY <1>2 DEF DInv, TypeOK, SessionStates
  <2>4. keyed' \subseteq Events
    BY <1>1, <1>2 DEF DInv, TypeOK
  <2> QED BY <1>2, <1>4, <2>1, <2>2, <2>3, <2>4 DEF DInv, TypeOK
<1>6. \A q \in Payments, i \in Intents :
        credits'[q][i] = IF r.posts /\ q = p /\ i = r.intent
                         THEN credits[q][i] + 1 ELSE credits[q][i]
  BY <1>2, <1>3 DEF DInv, TypeOK
<1>7. \A q \in Payments, i \in Intents : credits[q][i] \in Nat
  BY DEF DInv, TypeOK
<1>8. \A q \in Payments : PaidInto(q) \subseteq PaidInto(q)'
  BY <1>6, <1>7 DEF PaidInto
<1>9. r.posts => r.intent \in Intents /\ credits'[p][r.intent] > 0
  BY <1>3, <1>6, <1>7
<1>10. ASSUME NEW t \in Sessions PROVE SessionOK(session[t])'
  <2>1. CASE t = s
    BY <2>1, <1>2 DEF DInv, TypeOK, SessionOK, NoSession
  <2>2. CASE t # s
    <3>1. session'[t] = session[t] /\ SessionOK(session[t])
      BY <1>2, <2>2 DEF DInv, TypeOK
    <3>2. session[t].at = "writing" => PaymentOf[session[t].event] \in Payments
      BY WritingFields, DepositsAssumption
    <3> QED BY <3>1, <3>2, <1>8 DEF SessionOK, WriteOK
  <2> QED BY <2>1, <2>2
<1>11. PaymentCreditedOnce'
  <2> SUFFICES ASSUME NEW q \in Payments, NEW i \in PaidInto(q)'
               PROVE  credits'[q][i] = 1 /\ PaidInto(q)' = {i}
    BY DEF PaymentCreditedOnce
  <2>1. i \in Intents
    BY DEF PaidInto
  <2>2. CASE r.posts /\ q = p
    <3>1. \A j \in Intents : credits[q][j] = 0
      BY <1>2, <1>7, <2>2 DEF PaidInto
    <3>2. \A j \in Intents : credits'[q][j] = IF j = r.intent THEN 1 ELSE 0
      BY <1>6, <2>2, <3>1
    <3>3. PaidInto(q)' = {r.intent}
      BY <1>3, <2>2, <3>2 DEF PaidInto
    <3> QED BY <2>1, <3>2, <3>3
  <2>3. CASE ~(r.posts /\ q = p)
    <3>1. \A j \in Intents : credits'[q][j] = credits[q][j]
      BY <1>6, <2>3
    <3>2. PaidInto(q)' = PaidInto(q)
      BY <3>1 DEF PaidInto
    <3> QED BY <2>1, <3>1, <3>2 DEF DInv, PaymentCreditedOnce
  <2> QED BY <2>2, <2>3
<1>12. CreditedIsPosted'
  <2>1. ASSUME NEW e \in Events, event'[e].status = "credited"
        PROVE  event'[e].intent \in PaidInto(PaymentOf[e])'
    <3>1. CASE e = r.event
      <4>1. event'[e] = r.row
        BY <3>1, <1>1, <1>2 DEF DInv, TypeOK
      <4>2. r.posts /\ event'[e].intent = r.intent /\ p = PaymentOf[e]
        BY <4>1, <3>1, <2>1, <1>1 DEF WriteOK
      <4> QED BY <4>2, <1>9 DEF PaidInto
    <3>2. CASE e # r.event
      <4>1. event'[e] = event[e]
        BY <3>2, <1>2 DEF DInv, TypeOK
      <4> QED BY <4>1, <2>1, <1>8, DepositsAssumption DEF DInv, CreditedIsPosted
    <3> QED BY <3>1, <3>2
  <2>2. ASSUME NEW i \in Intents, intent'[i].status = "credited"
        PROVE  intent'[i].credited \in Payments /\ credits'[intent'[i].credited][i] > 0
    <3>1. CASE i = r.intent
      <4>1. r.intent # NoIntent
        BY <3>1, DepositsAssumption
      <4>2. intent'[i] = r.write
        BY <3>1, <4>1, <1>2 DEF DInv, TypeOK
      <4>3. r.posts /\ r.write.credited = p
        BY <4>1, <4>2, <2>2, <1>1 DEF WriteOK
      <4> QED BY <4>2, <4>3, <3>1, <1>3, <1>6, <1>7
    <3>2. CASE i # r.intent
      <4>1. intent'[i] = intent[i]
        BY <3>2, <1>2 DEF DInv, TypeOK
      <4>2. intent[i].credited \in Payments /\ credits[intent[i].credited][i] > 0
        BY <4>1, <2>2 DEF DInv, CreditedIsPosted, PaidInto
      <4> QED BY <4>1, <4>2, <1>6, <1>7
    <3> QED BY <3>1, <3>2
  <2> QED BY <2>1, <2>2 DEF CreditedIsPosted, PaidInto
<1>13. DuplicateHasCredit'
  <2> SUFFICES ASSUME NEW e \in Events, event'[e].status = "duplicate"
               PROVE  PaidInto(PaymentOf[e])' # {}
    BY DEF DuplicateHasCredit
  <2>1. CASE e = r.event
    <3>1. event'[e] = r.row
      BY <2>1, <1>1, <1>2 DEF DInv, TypeOK
    <3> QED BY <3>1, <2>1, <1>1, <1>8, DepositsAssumption DEF WriteOK
  <2>2. CASE e # r.event
    <3>1. event'[e] = event[e]
      BY <2>2, <1>2 DEF DInv, TypeOK
    <3> QED BY <3>1, <1>8, DepositsAssumption DEF DInv, DuplicateHasCredit
  <2> QED BY <2>1, <2>2
<1> HIDE DEF r, p
<1> QED BY <1>5, <1>10, <1>11, <1>12, <1>13 DEF DInv

-----------------------------------------------------------------------------
(* The theorems *)

LEMMA InitDInv == Init => DInv
<1> SUFFICES ASSUME Init PROVE DInv
  OBVIOUS
<1>1. TypeOK
  BY DEF Init, TypeOK, IntentRows, NoIntentRow, EventRows, SessionStates, Absent
<1>2. \A p \in Payments : PaidInto(p) = {}
  BY DEF Init, PaidInto
<1>3. PaymentCreditedOnce
  BY <1>2 DEF PaymentCreditedOnce
<1>4. CreditedIsPosted /\ DuplicateHasCredit
  BY DEF Init, CreditedIsPosted, DuplicateHasCredit, NoIntentRow, Absent
<1>5. \A s \in Sessions : SessionOK(session[s])
  BY DEF Init, SessionOK, NoSession
<1> QED BY <1>1, <1>3, <1>4, <1>5 DEF DInv

LEMMA NextDInv == DInv /\ [Next]_vars => DInv'
<1> SUFFICES ASSUME DInv, [Next]_vars PROVE DInv'
  OBVIOUS
<1>1. CASE UNCHANGED vars
  BY <1>1 DEF vars, DInv, TypeOK, SessionOK, WriteOK, PaidInto, PaymentCreditedOnce,
              CreditedIsPosted, DuplicateHasCredit
<1>2. CASE \E i \in Intents : CreateIntent(i) \/ Expire(i)
  BY <1>2, IntentStep
<1>3. ASSUME NEW s \in Sessions, NEW e \in Events, NEW c \in BOOLEAN, NEW routed \in BOOLEAN,
             IngestDuplicate(s, e, c, routed) \/ IngestNew(s, e, c, routed)
      PROVE  DInv'
  BY <1>3, IngestDuplicateStep, IngestNewStep
<1>4. ASSUME NEW s \in Sessions, NEW e \in Events, NEW routed \in BOOLEAN,
             IngestAgain(s, e, routed)
      PROVE  DInv'
  BY <1>4, TakeUpStep
<1>5. ASSUME NEW s \in Sessions, NEW e \in Events,
             Refuse(s, e) \/ BeginApprove(s, e) \/ BeginLink(s, e)
      PROVE  DInv'
  BY <1>5, TakeUpStep, RefuseStep
<1>6. CASE \E e \in Events : AnswerAgain(e)
  BY <1>6, KeyStep
<1>7. ASSUME NEW s \in Sessions, Confirm(s) \/ Approve(s)
      PROVE  DInv'
  BY <1>7, CreditStep, ReviewStep DEF Confirm, Approve
<1>8. ASSUME NEW s \in Sessions, Throw(s) \/ Violates(s) \/ Fail(s)
      PROVE  DInv'
  BY <1>8, AbortStep DEF Throw, Violates, Fail
<1>9. ASSUME NEW s \in Sessions, Continue(s)
      PROVE  DInv'
  BY <1>7, <1>8, <1>9, UnmatchedStep, ReadIntentStep, DetectStep, LinkStep, CommitStep
     DEF Continue
<1> QED BY <1>1, <1>2, <1>3, <1>4, <1>8, <1>9, <1>5, <1>6 DEF Next

\* The invariant holds of every behaviour of the deposit rails.
THEOREM DepositInvariant == Spec => []DInv
BY InitDInv, NextDInv, PTL DEF Spec

\* Tables and transactions in flight keep their types.
THEOREM DepositTypes == Spec => []TypeOK
<1>1. DInv => TypeOK
  BY DEF DInv
<1> QED BY <1>1, DepositInvariant, PTL

\* However many events report a payment, and whoever ingests, links, approves
\* or refuses them at the same time, the payment credits one intent once.
THEOREM PaymentsCreditOnce == Spec => []PaymentCreditedOnce
<1>1. DInv => PaymentCreditedOnce
  BY DEF DInv
<1> QED BY <1>1, DepositInvariant, PTL

\* No stale row written back ever calls something credited that the ledger
\* has no credit for.
THEOREM CreditedIsInLedger == Spec => []CreditedIsPosted
<1>1. DInv => CreditedIsPosted
  BY DEF DInv
<1> QED BY <1>1, DepositInvariant, PTL

\* A confirmed payment was credited or is on the reconciliation report: no event
\* is put away as a duplicate of a payment that is not in the ledger.
THEOREM NoConfirmedPaymentIsLost == Spec => []ConfirmedIsCreditedOrReported
<1>1. DInv => ConfirmedIsCreditedOrReported
  <2> SUFFICES ASSUME DInv PROVE ConfirmedIsCreditedOrReported
    OBVIOUS
  <2>1. ASSUME NEW e \in Events, event[e].confirmed, PaidInto(PaymentOf[e]) = {}
        PROVE  EventOnReport(e)
    <3>1. event[e].status \notin {"credited", "duplicate"}
      BY <2>1 DEF DInv, CreditedIsPosted, DuplicateHasCredit
    <3>2. CASE event[e].status = "review_required"
      BY <3>2, <2>1 DEF EventOnReport, ConfirmedReview
    <3>3. CASE event[e].status # "review_required"
      BY <3>1, <3>3, <2>1 DEF EventOnReport, ConfirmedUncredited
    <3> QED BY <3>2, <3>3
  <2>2. ASSUME NEW i \in Intents, IntentOnReport(i)
        PROVE  intent[i].status # "credited"
    BY <2>2 DEF IntentOnReport, ExpiredIntent, IntentMissingLedger, DInv,
                CreditedIsPosted, PaidInto, TypeOK
  <2> QED BY <2>1, <2>2 DEF ConfirmedIsCreditedOrReported
<1> QED BY <1>1, DepositInvariant, PTL
=============================================================================
