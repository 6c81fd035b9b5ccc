--------------------------- MODULE WithdrawalProofs ---------------------------
(***************************************************************************)
(* Proofs about Withdrawals and its report, for any requests, amounts,     *)
(* connections, callbacks and nonces.                                      *)
(*                                                                         *)
(* Four invariants, each kept for its own reasons.  LedgerInv: the row of  *)
(* a request and its postings agree, by what is checked under the lock of  *)
(* the row.  NonceInv: which nonces are used, and by whom.  SaidInv: what  *)
(* a request or a transaction takes for the provider's word, the provider  *)
(* has said of that request, unless an applied callback named the request  *)
(* with the payout of another (crossed).  FundsInv: what is reserved was   *)
(* there and is resolved at most once; with it every step is one of        *)
(* WithdrawalFunds, or changes no balance.                                 *)
(***************************************************************************)
EXTENDS WithdrawalReconciliation, SumTheorems, TLAPS

-----------------------------------------------------------------------------
(* Rows and postings *)

\* A reservation is resolved at most once.
OneResolution(p) ==
  \A t, u \in ResolutionTypes : p[t] <= 1 /\ (p[t] > 0 /\ p[u] > 0 => t = u)

\* What a row says of its postings is so.
RowOK(row, p) ==
  /\ row.release # None => p[row.release] > 0
  /\ row.finalized => p["withdrawal_finalized"] > 0
  /\ row.status \in {"rejected", "cancelled", "provider_failure_released"} => row.release # None
  /\ row.status = "completed" => row.finalized
  /\ row.status = Absent => p["withdrawal_reserve"] = 0
  /\ row.status \notin {"failed", "submitted"}

LedgerInv ==
  /\ request \in [Withdrawals -> Requests]
  /\ posted \in [Withdrawals -> [RowTypes -> Nat]]
  /\ \A w \in Withdrawals : OneResolution(posted[w]) /\ RowOK(request[w], posted[w])

\* A step writes the row of one request, and its postings.
LEMMA RowMoves ==
  ASSUME LedgerInv, NEW w \in Withdrawals, NEW row \in Requests, NEW p \in [RowTypes -> Nat],
         request' = [request EXCEPT ![w] = row], posted' = [posted EXCEPT ![w] = p],
         OneResolution(p), RowOK(row, p)
  PROVE  LedgerInv'
<1>1. ASSUME NEW v \in Withdrawals
      PROVE  OneResolution(posted'[v]) /\ RowOK(request'[v], posted'[v])
  <2>1. CASE v = w
    BY <2>1 DEF LedgerInv
  <2>2. CASE v # w
    BY <2>2 DEF LedgerInv
  <2> QED BY <2>1, <2>2
<1> QED BY <1>1 DEF LedgerInv

LEMMA RowTypesOf ==
  ASSUME LedgerInv, NEW w \in Withdrawals
  PROVE  /\ request[w] \in Requests /\ posted[w] \in [RowTypes -> Nat]
         /\ OneResolution(posted[w]) /\ RowOK(request[w], posted[w])
         /\ posted = [posted EXCEPT ![w] = posted[w]]
         /\ request = [request EXCEPT ![w] = request[w]]
  BY DEF LedgerInv

\* Statuses that say nothing of the ledger.
Plain ==
  Statuses \ {"rejected", "cancelled", "provider_failure_released", "completed",
              "failed", "submitted"}

LEMMA SetStatusKeeps ==
  ASSUME LedgerInv, NEW w \in Withdrawals, NEW st \in Plain, SetStatus(w, st), posted' = posted
  PROVE  LedgerInv'
<1> DEFINE row == [request[w] EXCEPT !.status = st]
<1>1. /\ row \in Requests /\ row.release = request[w].release
      /\ row.finalized = request[w].finalized /\ row.status = st
  BY RowTypesOf DEF Requests, Plain
<1>2. request' = [request EXCEPT ![w] = row]
  BY DEF SetStatus
<1> HIDE DEF row
<1>3. RowOK(row, posted[w])
  BY <1>1, RowTypesOf DEF RowOK, Plain, Statuses, ProviderHeld, Absent
<1> QED BY <1>1, <1>2, <1>3, RowTypesOf, RowMoves

\* Posting a resolution of what is not resolved.
LEMMA Resolution ==
  ASSUME LedgerInv, NEW w \in Withdrawals, NEW t \in ResolutionTypes, Unresolved(w)
  PROVE  LET p == [posted[w] EXCEPT ![t] = @ + 1]
         IN  /\ p \in [RowTypes -> Nat] /\ OneResolution(p) /\ p[t] > 0
             /\ \A u \in RowTypes : u # t => p[u] = posted[w][u]
             /\ Post(w, t) => posted' = [posted EXCEPT ![w] = p]
<1> DEFINE p == [posted[w] EXCEPT ![t] = @ + 1]
<1>1. posted[w] \in [RowTypes -> Nat] /\ ResolutionTypes \subseteq RowTypes
  BY RowTypesOf DEF RowTypes
<1>2. p \in [RowTypes -> Nat] /\ p[t] = posted[w][t] + 1
  BY <1>1
<1>3. \A u \in RowTypes : u # t => p[u] = posted[w][u]
  BY <1>1
<1>4. Post(w, t) => posted' = [posted EXCEPT ![w] = p]
  BY DEF Post
<1>5. \A u \in ResolutionTypes : posted[w][u] = 0
  BY DEF Unresolved
<1> HIDE DEF p
<1>6. OneResolution(p)
  BY <1>1, <1>2, <1>3, <1>5 DEF OneResolution
<1> QED BY <1>2, <1>3, <1>4, <1>5, <1>6 DEF p

LEMMA ReleaseKeeps ==
  ASSUME LedgerInv, NEW w \in Withdrawals, NEW type \in ReleaseTypes,
         NEW st \in {"rejected", "cancelled", "provider_failure_released"}, Release(w, type, st)
  PROVE  LedgerInv'
<1>1. CASE request[w].release # None /\ SetStatus(w, st) /\ posted' = posted
  <2> DEFINE row == [request[w] EXCEPT !.status = st]
  <2>1. /\ row \in Requests /\ row.release = request[w].release
        /\ row.finalized = request[w].finalized /\ row.status = st
    BY RowTypesOf DEF Requests, Statuses, ProviderHeld
  <2>2. request' = [request EXCEPT ![w] = row]
    BY <1>1 DEF SetStatus
  <2> HIDE DEF row
  <2>3. RowOK(row, posted[w])
    BY <1>1, <2>1, RowTypesOf DEF RowOK, Absent
  <2> QED BY <1>1, <2>1, <2>2, <2>3, RowTypesOf, RowMoves
<1>2. ASSUME NEW t \in ReleaseTypes, NEW p \in [RowTypes -> Nat], p[t] > 0, OneResolution(p),
             p["withdrawal_finalized"] = posted[w]["withdrawal_finalized"],
             request' = [request EXCEPT ![w].status = st, ![w].release = t],
             posted' = [posted EXCEPT ![w] = p]
      PROVE  LedgerInv'
  <2> DEFINE row == [request[w] EXCEPT !.status = st, !.release = t]
  <2>1. /\ row \in Requests /\ row.release = t
        /\ row.finalized = request[w].finalized /\ row.status = st
    BY RowTypesOf DEF Requests, Statuses, ProviderHeld
  <2>2. request' = [request EXCEPT ![w] = row]
    BY <1>2 DEF LedgerInv
  <2> HIDE DEF row
  <2>3. t # None
    BY DEF ReleaseTypes, None
  <2>4. RowOK(row, p)
    BY <1>2, <2>1, <2>3, RowTypesOf DEF RowOK, Absent
  <2> QED BY <1>2, <2>1, <2>2, <2>4, RowMoves
<1>3. CASE \E t \in ExistingReleases(w, type) :
             /\ request' = [request EXCEPT ![w].status = st, ![w].release = t]
             /\ posted' = posted
  <2>1. PICK t \in ReleaseTypes :
          /\ posted[w][t] > 0
          /\ request' = [request EXCEPT ![w].status = st, ![w].release = t]
    BY <1>3 DEF ExistingReleases
  <2> QED BY <1>2, <1>3, <2>1, RowTypesOf
<1>4. CASE /\ Unresolved(w) /\ Post(w, type)
           /\ request' = [request EXCEPT ![w].status = st, ![w].release = type]
  <2>1. type \in ResolutionTypes /\ type # "withdrawal_finalized"
        /\ "withdrawal_finalized" \in RowTypes
    BY DEF ResolutionTypes, ReleaseTypes, RowTypes
  <2> QED BY <1>2, <1>4, <2>1, Resolution
<1> QED BY <1>1, <1>3, <1>4 DEF Release

LEMMA StatusForPlain ==
  ASSUME NEW p \in ProviderStatuses
  PROVE  StatusFor(p) \in Plain
  BY WithdrawalsAssumption DEF StatusFor, Plain, Statuses, ProviderHeld

LEMMA CreateKeeps ==
  ASSUME LedgerInv, NEW w \in Withdrawals, Create(w)
  PROVE  LedgerInv'
<1>1. PICK st \in {"review_required", "reserved"} : SetStatus(w, st)
  BY DEF Create
<1> DEFINE row == [request[w] EXCEPT !.status = st]
           p == [posted[w] EXCEPT !["withdrawal_reserve"] = @ + 1]
<1>2. /\ row \in Requests /\ row.release = request[w].release
      /\ row.finalized = request[w].finalized /\ row.status = st
  BY RowTypesOf DEF Requests, Statuses
<1>3. request' = [request EXCEPT ![w] = row] /\ posted' = [posted EXCEPT ![w] = p]
  BY <1>1 DEF SetStatus, Create, Post
<1>4. /\ p \in [RowTypes -> Nat]
      /\ \A t \in ResolutionTypes \cup ReleaseTypes : p[t] = posted[w][t]
  BY RowTypesOf DEF RowTypes, ResolutionTypes, ReleaseTypes
<1> HIDE DEF row, p
<1>5. OneResolution(p)
  BY <1>4, RowTypesOf DEF OneResolution
<1>6. RowOK(row, p)
  BY <1>2, <1>4, RowTypesOf DEF RowOK, Absent, Requests, ResolutionTypes
<1> QED BY <1>2, <1>3, <1>4, <1>5, <1>6, RowMoves

LEMMA FinalizeKeeps ==
  ASSUME LedgerInv, NEW w \in Withdrawals, Finalize(w)
  PROVE  LedgerInv'
<1> DEFINE row == [request[w] EXCEPT !.status = "completed", !.finalized = TRUE]
<1>1. /\ row \in Requests /\ row.release = request[w].release
      /\ row.finalized /\ row.status = "completed"
  BY RowTypesOf DEF Requests, Statuses, ProviderHeld
<1>2. request' = [request EXCEPT ![w] = row]
  BY DEF Finalize, LedgerInv
<1> HIDE DEF row
<1>3. CASE posted[w]["withdrawal_finalized"] > 0 /\ posted' = posted
  <2>1. RowOK(row, posted[w])
    BY <1>1, <1>3, RowTypesOf DEF RowOK, Absent
  <2> QED BY <1>1, <1>2, <1>3, <2>1, RowTypesOf, RowMoves
<1>4. CASE Unresolved(w) /\ Post(w, "withdrawal_finalized")
  <2> DEFINE p == [posted[w] EXCEPT !["withdrawal_finalized"] = @ + 1]
  <2>1. "withdrawal_finalized" \in ResolutionTypes
    BY DEF ResolutionTypes
  <2>2. /\ p \in [RowTypes -> Nat] /\ OneResolution(p) /\ p["withdrawal_finalized"] > 0
        /\ \A u \in RowTypes : u # "withdrawal_finalized" => p[u] = posted[w][u]
        /\ posted' = [posted EXCEPT ![w] = p]
    BY <1>4, <2>1, Resolution
  <2> HIDE DEF p
  <2>3. \A t \in ReleaseTypes : p[t] = posted[w][t]
    BY <2>2 DEF ReleaseTypes, RowTypes, ResolutionTypes
  <2>4. RowOK(row, p)
    BY <1>1, <2>2, <2>3, RowTypesOf DEF RowOK, Absent, Requests
  <2> QED BY <1>1, <1>2, <2>2, <2>4, RowMoves
<1> QED BY <1>3, <1>4 DEF Finalize

LEMMA ResolveInLedgerKeeps ==
  ASSUME LedgerInv, NEW w \in Withdrawals, ResolveInLedger(w)
  PROVE  LedgerInv'
<1>1. PICK t \in {"withdrawal_reversal", "withdrawal_complete"} : Unresolved(w) /\ Post(w, t)
  BY DEF ResolveInLedger
<1> DEFINE p == [posted[w] EXCEPT ![t] = @ + 1]
<1>2. t \in ResolutionTypes /\ t \notin {"withdrawal_reserve", "withdrawal_finalized"}
  BY DEF ResolutionTypes, ReleaseTypes
<1>3. /\ p \in [RowTypes -> Nat] /\ OneResolution(p) /\ p[t] > 0
      /\ \A u \in RowTypes : u # t => p[u] = posted[w][u]
      /\ posted' = [posted EXCEPT ![w] = p]
  BY <1>1, <1>2, Resolution
<1> HIDE DEF p
<1>4. RowOK(request[w], p)
  BY <1>2, <1>3, RowTypesOf DEF RowOK, Requests, RowTypes, ResolutionTypes
<1>5. request' = request
  BY DEF ResolveInLedger
<1> QED BY <1>3, <1>4, <1>5, RowTypesOf, RowMoves

LEMMA CommandKeepsRows ==
  ASSUME LedgerInv, NEW w \in Withdrawals, Command(w), submission \in [Withdrawals -> ProviderStatuses \cup {None}]
  PROVE  LedgerInv'
<1>1. CASE Approve(w) \/ BlockSubmission(w)
  <2>1. {"submission_pending", "review_required"} \subseteq Plain
    BY DEF Plain, Statuses
  <2> QED BY <1>1, <2>1, SetStatusKeeps DEF Approve, BlockSubmission
<1>2. CASE Mark(w)
  <2>1. PICK st \in {"provider_failed_terminal", "provider_rejected_terminal",
                     "provider_unknown_reviewed"} : SetStatus(w, st) /\ posted' = posted
    BY <1>2 DEF Mark
  <2>2. st \in Plain
    BY DEF Plain, Statuses, ProviderHeld
  <2> QED BY <2>1, <2>2, SetStatusKeeps
<1>3. CASE ResumeSubmission(w) \/ Sync(w)
  <2>1. PICK p \in ProviderStatuses : SetStatus(w, StatusFor(p)) /\ posted' = posted
    BY <1>3 DEF ResumeSubmission, Sync
  <2> QED BY <2>1, StatusForPlain, SetStatusKeeps
<1>4. CASE Reject(w) \/ Cancel(w) \/ ReleaseProviderFailure(w)
  BY <1>4, ReleaseKeeps DEF Reject, Cancel, ReleaseProviderFailure, ReleaseTypes
<1> QED BY <1>1, <1>2, <1>3, <1>4, CreateKeeps, FinalizeKeeps, ResolveInLedgerKeeps DEF Command

-----------------------------------------------------------------------------
(* Types, transactions and nonces *)

\* An event is recorded once, a transaction that is to record one has a nonce
\* of its own that is still free, and a replay one that is not.
NonceOK(r) ==
  /\ r.op = "received" => events[r.callback.nonce] = 0
  /\ r.op = "replayed" => events[r.nonce] = 1

NonceInv ==
  /\ \A n \in Nonces : events[n] <= 1
  /\ \A n \in rejections : events[n] = 1
  /\ \A s \in Sessions : NonceOK(session[s])
  /\ \A s, t \in Sessions :
       s # t /\ session[s].op = "received" /\ session[t].op = "received"
         => session[s].callback.nonce # session[t].callback.nonce

RestOK ==
  /\ submission \in [Withdrawals -> ProviderStatuses \cup {None}]
  /\ events \in [Nonces -> Nat]
  /\ rejections \subseteq Nonces
  /\ crossed \subseteq Withdrawals
  /\ payouts \subseteq [request: Withdrawals, key: {1}]
  /\ reported \in [Withdrawals -> SUBSET ProviderStatuses]
  /\ session \in [Sessions -> SessionStates]

WInv == LedgerInv /\ RestOK /\ NonceInv

SubmittingStates == [op: {"submitting"}, request: Withdrawals]
SubmittedStates == [op: {"submitted"}, request: Withdrawals, status: ProviderStatuses]
ReceivedStates == [op: {"received"}, callback: Callbacks, found: Withdrawals \cup {None}]
ReplayedStates == [op: {"replayed"}, nonce: Nonces]

\* The operation tells which kind of transaction it is, and no other is known.
LEMMA KindByOp ==
  ASSUME NEW r \in SessionStates
  PROVE  /\ r.op \in {"idle", "submitting", "submitted", "received", "replayed"}
         /\ r.op = "submitting" => r \in SubmittingStates
         /\ r.op = "submitted" => r \in SubmittedStates
         /\ r.op = "received" => r \in ReceivedStates
         /\ r.op = "replayed" => r \in ReplayedStates
<1>1. CASE r = NoSession
  BY <1>1 DEF NoSession
<1>2. CASE r \in SubmittingStates
  BY <1>2 DEF SubmittingStates
<1>3. CASE r \in SubmittedStates
  BY <1>3 DEF SubmittedStates
<1>4. CASE r \in ReceivedStates
  BY <1>4 DEF ReceivedStates
<1>5. CASE r \in ReplayedStates
  BY <1>5 DEF ReplayedStates
<1> QED BY <1>1, <1>2, <1>3, <1>4, <1>5
        DEF SessionStates, SubmittingStates, SubmittedStates, ReceivedStates, ReplayedStates

LEMMA IdleOK == NoSession \in SessionStates /\ NoSession.op = "idle"
  BY DEF SessionStates, NoSession

\* One transaction moves and no event is recorded.
LEMMA SessionMoves ==
  ASSUME WInv, NEW s \in Sessions, NEW r \in SessionStates,
         session' = [session EXCEPT ![s] = r], events' = events,
         \A n \in rejections' : n \in Nonces /\ events[n] = 1,
         NonceOK(r),
         r.op = "received" =>
           \A t \in Sessions :
             session[t].op = "received" => session[t].callback.nonce # r.callback.nonce
  PROVE  NonceInv' /\ session' \in [Sessions -> SessionStates]
<1>1. session \in [Sessions -> SessionStates]
  BY DEF WInv, RestOK
<1>2. \A t \in Sessions : session'[t] = IF t = s THEN r ELSE session[t]
  BY <1>1
<1>3. \A t \in Sessions : NonceOK(session'[t])
  BY <1>2 DEF WInv, NonceInv
<1>4. \A t \in Sessions : NonceOK(session[t])'
  BY <1>3 DEF NonceOK
<1> QED BY <1>1, <1>2, <1>4 DEF WInv, NonceInv

\* A transaction records the event of its nonce and ends.
LEMMA RecordMoves ==
  ASSUME WInv, NEW s \in Sessions, session[s].op = "received",
         session' = [session EXCEPT ![s] = NoSession], rejections' = rejections,
         RecordEvent(session[s].callback.nonce)
  PROVE  NonceInv' /\ session' \in [Sessions -> SessionStates] /\ events' \in [Nonces -> Nat]
<1> DEFINE n == session[s].callback.nonce
<1>1. /\ session \in [Sessions -> SessionStates] /\ events \in [Nonces -> Nat]
      /\ rejections \subseteq Nonces
  BY DEF WInv, RestOK
<1>2. n \in Nonces
  BY <1>1, KindByOp DEF ReceivedStates, Callbacks
<1>3. events[n] = 0
  BY DEF WInv, NonceInv, NonceOK
<1>4. events' = [events EXCEPT ![n] = 1]
  BY <1>1, <1>2, <1>3 DEF RecordEvent
<1>5. \A t \in Sessions : t # s /\ session[t].op = "received" => session[t].callback.nonce # n
  BY DEF WInv, NonceInv
<1>6. \A t \in Sessions : session'[t] = IF t = s THEN NoSession ELSE session[t]
  BY <1>1
<1> HIDE DEF n
<1>7. ASSUME NEW t \in Sessions
      PROVE  NonceOK(session[t])'
  <2>1. CASE t = s
    BY <1>6, <2>1, IdleOK DEF NonceOK
  <2>2. CASE t # s
    <3>1. session[t] \in SessionStates /\ NonceOK(session[t]) /\ session'[t] = session[t]
      BY <1>1, <1>6, <2>2 DEF WInv, NonceInv
    <3>2. CASE session[t].op = "received"
      <4>1. session[t].callback.nonce \in Nonces
        BY <3>1, <3>2, KindByOp DEF ReceivedStates, Callbacks
      <4> QED BY <1>1, <1>2, <1>4, <1>5, <2>2, <3>1, <3>2, <4>1 DEF NonceOK
    <3>3. CASE session[t].op = "replayed"
      <4>1. session[t].nonce \in Nonces
        BY <3>1, <3>3, KindByOp DEF ReplayedStates
      <4> QED BY <1>1, <1>2, <1>4, <3>1, <3>3, <4>1 DEF NonceOK
    <3> QED BY <3>1, <3>2, <3>3 DEF NonceOK
  <2> QED BY <2>1, <2>2
<1>8. \A m \in Nonces : events'[m] = IF m = n THEN 1 ELSE events[m]
  BY <1>1, <1>2, <1>4
<1>9. \A m \in Nonces : events'[m] <= 1
  BY <1>8 DEF WInv, NonceInv
<1>10. \A m \in rejections' : events'[m] = 1
  BY <1>1, <1>8 DEF WInv, NonceInv
<1>11. \A t, u \in Sessions :
         t # u /\ session'[t].op = "received" /\ session'[u].op = "received"
           => session'[t].callback.nonce # session'[u].callback.nonce
  BY <1>6, IdleOK DEF WInv, NonceInv
<1>12. session' \in [Sessions -> SessionStates] /\ events' \in [Nonces -> Nat]
  BY <1>1, <1>4, IdleOK
<1> QED BY <1>7, <1>9, <1>10, <1>11, <1>12 DEF NonceInv

\* A command on a request: nothing of the nonces or transactions changes.
LEMMA CommandKeeps ==
  ASSUME WInv, NEW w \in Withdrawals, Command(w)
  PROVE  WInv'
<1>1. LedgerInv'
  BY CommandKeepsRows DEF WInv, RestOK
<1>2. UNCHANGED <<events, rejections, crossed, payouts, session>>
  BY DEF Command, Create, Approve, Reject, Cancel, Finalize, ReleaseProviderFailure, Mark,
         ResolveInLedger, ResumeSubmission, BlockSubmission, Sync, provider
<1>3. NonceInv'
  BY <1>2 DEF WInv, NonceInv, NonceOK
<1>4. /\ submission' \in [Withdrawals -> ProviderStatuses \cup {None}]
      /\ reported' \in [Withdrawals -> SUBSET ProviderStatuses]
  <2>1. CASE Sync(w)
    BY <2>1 DEF Sync, Report, WInv, RestOK
  <2>2. CASE ~Sync(w)
    <3>1. submission' = submission /\ reported' = reported
      BY <2>2 DEF Command, Create, Approve, Reject, Cancel, Finalize, ReleaseProviderFailure,
                  Mark, ResolveInLedger, ResumeSubmission, BlockSubmission, provider
    <3> QED BY <3>1 DEF WInv, RestOK
  <2> QED BY <2>1, <2>2
<1> QED BY <1>1, <1>2, <1>3, <1>4 DEF WInv, RestOK

LEMMA BeginSubmitKeeps ==
  ASSUME WInv, NEW s \in Sessions, NEW w \in Withdrawals, BeginSubmit(s, w)
  PROVE  WInv'
<1> DEFINE r == [op |-> "submitting", request |-> w]
<1>1. r \in SessionStates /\ r.op = "submitting"
  BY DEF SessionStates
<1>2. session' = [session EXCEPT ![s] = r] /\ UNCHANGED <<tables, provider>>
  BY DEF BeginSubmit
<1> HIDE DEF r
<1>3. NonceInv' /\ session' \in [Sessions -> SessionStates]
  BY <1>1, <1>2, SessionMoves DEF WInv, RestOK, NonceInv, NonceOK, tables
<1> QED BY <1>2, <1>3 DEF WInv, LedgerInv, RestOK, tables, provider

LEMMA ProviderAcceptsKeeps ==
  ASSUME WInv, NEW s \in Sessions, ProviderAccepts(s)
  PROVE  WInv'
<1> DEFINE w == session[s].request
<1>1. session[s] \in SessionStates /\ session[s].op = "submitting"
  BY DEF WInv, RestOK, ProviderAccepts
<1>2. w \in Withdrawals
  BY <1>1, KindByOp DEF SubmittingStates
<1>3. PICK p \in ProviderStatuses :
        /\ Report(w, p)
        /\ session' = [session EXCEPT ![s] = [op |-> "submitted", request |-> w, status |-> p]]
  BY DEF ProviderAccepts
<1> DEFINE r == [op |-> "submitted", request |-> w, status |-> p]
<1>4. r \in SessionStates /\ r.op = "submitted"
  BY <1>2 DEF SessionStates
<1>5. /\ UNCHANGED tables
      /\ payouts' = payouts \cup {[request |-> w, key |-> 1]}
  BY DEF ProviderAccepts, PayoutKey
<1> HIDE DEF w
<1>6. payouts' \subseteq [request: Withdrawals, key: {1}]
  BY <1>2, <1>5 DEF WInv, RestOK
<1>7. reported' \in [Withdrawals -> SUBSET ProviderStatuses]
  BY <1>2, <1>3 DEF WInv, RestOK, Report
<1> HIDE DEF r
<1>8. NonceInv' /\ session' \in [Sessions -> SessionStates]
  <2>1. session' = [session EXCEPT ![s] = r]
    BY <1>3 DEF r
  <2> QED BY <1>4, <1>5, <2>1, SessionMoves DEF WInv, RestOK, NonceInv, NonceOK, tables
<1> QED BY <1>5, <1>6, <1>7, <1>8 DEF WInv, LedgerInv, RestOK, tables

LEMMA CommitSubmitKeeps ==
  ASSUME WInv, NEW s \in Sessions, CommitSubmit(s)
  PROVE  WInv'
<1> DEFINE w == session[s].request
           p == session[s].status
<1>1. session[s] \in SessionStates /\ session[s].op = "submitted"
  BY DEF WInv, RestOK, CommitSubmit
<1>2. w \in Withdrawals /\ p \in ProviderStatuses
  BY <1>1, KindByOp DEF SubmittedStates
<1>3. /\ submission' = [submission EXCEPT ![w] = p] /\ SetStatus(w, StatusFor(p))
      /\ session' = [session EXCEPT ![s] = NoSession]
      /\ UNCHANGED <<posted, events, rejections, crossed, provider>>
  BY DEF CommitSubmit
<1> HIDE DEF w, p
<1>4. LedgerInv'
  BY <1>2, <1>3, StatusForPlain, SetStatusKeeps DEF WInv
<1>5. NonceInv' /\ session' \in [Sessions -> SessionStates]
  BY <1>3, IdleOK, SessionMoves DEF WInv, RestOK, NonceInv, NonceOK
<1>6. submission' \in [Withdrawals -> ProviderStatuses \cup {None}]
  BY <1>2, <1>3 DEF WInv, RestOK
<1> QED BY <1>3, <1>4, <1>5, <1>6 DEF WInv, RestOK, provider

LEMMA RejectReplayKeeps ==
  ASSUME WInv, NEW s \in Sessions, RejectReplay(s)
  PROVE  WInv'
<1>1. session[s] \in SessionStates /\ session[s].op = "replayed"
  BY DEF WInv, RestOK, RejectReplay
<1>2. session[s].nonce \in Nonces /\ events[session[s].nonce] = 1
  BY <1>1, KindByOp DEF ReplayedStates, WInv, NonceInv, NonceOK
<1>3. /\ rejections' = rejections \cup {session[s].nonce}
      /\ session' = [session EXCEPT ![s] = NoSession]
      /\ UNCHANGED <<request, submission, posted, events, crossed, provider>>
  BY DEF RejectReplay
<1>4. \A n \in rejections' : n \in Nonces /\ events[n] = 1
  BY <1>2, <1>3 DEF WInv, RestOK, NonceInv
<1>5. NonceInv' /\ session' \in [Sessions -> SessionStates]
  BY <1>3, <1>4, IdleOK, SessionMoves DEF NonceOK
<1> QED BY <1>3, <1>4, <1>5 DEF WInv, LedgerInv, RestOK, provider

LEMMA ReceiveKeeps ==
  ASSUME WInv, NEW s \in Sessions, NEW cb \in Sendable, Receive(s, cb)
  PROVE  WInv'
<1>1. cb \in Callbacks /\ cb.nonce \in Nonces
  BY DEF Sendable, Callbacks
<1>2. UNCHANGED <<tables, payouts>>
  BY DEF Receive
<1>3. PICK r \in SessionStates :
        /\ session' = [session EXCEPT ![s] = r] /\ NonceOK(r)
        /\ r.op = "received" => r.callback = cb
  <2>1. CASE NewNonce(cb.nonce)
    <3>1. PICK f \in Withdrawals \cup {None} :
            session' = [session EXCEPT ![s] = [op |-> "received", callback |-> cb, found |-> f]]
      BY <1>1, <2>1 DEF Receive, Callbacks
    <3> DEFINE r == [op |-> "received", callback |-> cb, found |-> f]
    <3>2. r \in SessionStates /\ r.op = "received" /\ r.callback = cb
      BY <1>1 DEF SessionStates
    <3> QED BY <2>1, <3>1, <3>2 DEF NonceOK, NewNonce
  <2>2. CASE ~NewNonce(cb.nonce)
    <3> DEFINE r == [op |-> "replayed", nonce |-> cb.nonce]
    <3>1. r \in SessionStates /\ r.op = "replayed" /\ r.nonce = cb.nonce
      BY <1>1 DEF SessionStates
    <3>2. events[cb.nonce] = 1
      BY <1>1, <2>2 DEF NewNonce, WInv, RestOK, NonceInv
    <3> QED BY <2>2, <3>1, <3>2 DEF NonceOK, Receive
  <2> QED BY <2>1, <2>2
<1>4. \A t \in Sessions : session[t].op = "received" => session[t].callback.nonce # cb.nonce
  BY DEF Receive
<1>5. NonceInv' /\ session' \in [Sessions -> SessionStates]
  BY <1>2, <1>3, <1>4, SessionMoves DEF WInv, RestOK, NonceInv, tables
<1>6. reported' \in [Withdrawals -> SUBSET ProviderStatuses]
  <2>1. CASE reported' = reported
    BY <2>1 DEF WInv, RestOK
  <2>2. CASE cb.external # None /\ Report(cb.external, cb.status)
    BY <1>1, <2>2 DEF Report, WInv, RestOK, Callbacks
  <2> QED BY <2>1, <2>2 DEF Receive
<1> QED BY <1>2, <1>5, <1>6 DEF WInv, LedgerInv, RestOK, tables

LEMMA TargetOf ==
  ASSUME WInv, NEW s \in Sessions, session[s].op = "received"
  PROVE  /\ session[s].callback \in Callbacks
         /\ session[s].callback.status \in ProviderStatuses
         /\ Target(session[s]) \in Withdrawals \cup {None}
         /\ \A w \in Withdrawals : Matched(session[s], w) \in Withdrawals \cup {None}
<1>1. session[s] \in ReceivedStates
  BY KindByOp DEF WInv, RestOK
<1>2. session[s].callback \in Callbacks /\ session[s].found \in Withdrawals \cup {None}
  BY <1>1 DEF ReceivedStates
<1> QED BY <1>2 DEF Target, Matched, Callbacks

LEMMA ApplyUnmatchedKeeps ==
  ASSUME WInv, NEW s \in Sessions, ApplyUnmatched(s)
  PROVE  WInv'
<1>1. NonceInv' /\ session' \in [Sessions -> SessionStates] /\ events' \in [Nonces -> Nat]
  BY RecordMoves DEF ApplyUnmatched
<1> QED BY <1>1 DEF ApplyUnmatched, WInv, LedgerInv, RestOK, provider

LEMMA ApplyCallbackKeeps ==
  ASSUME WInv, NEW s \in Sessions, ApplyCallback(s)
  PROVE  WInv'
<1> DEFINE w == Target(session[s])
<1>1. session[s].op = "received" /\ w # None
  BY DEF ApplyCallback
<1>2. w \in Withdrawals /\ session[s].callback.status \in ProviderStatuses
  BY <1>1, TargetOf
<1>3. NonceInv' /\ session' \in [Sessions -> SessionStates] /\ events' \in [Nonces -> Nat]
  BY RecordMoves DEF ApplyCallback
<1>4. UNCHANGED <<posted, rejections, provider>>
  BY DEF ApplyCallback
<1>5. /\ LedgerInv'
      /\ submission' \in [Withdrawals -> ProviderStatuses \cup {None}]
      /\ crossed' \subseteq Withdrawals
  <2>1. CASE request' = request /\ submission' = submission /\ crossed' = crossed
    BY <1>4, <2>1 DEF WInv, LedgerInv, RestOK
  <2>2. CASE SetStatus(w, "review_required") /\ submission' = submission /\ crossed' = crossed
    <3>1. "review_required" \in Plain
      BY DEF Plain, Statuses
    <3> QED BY <1>2, <1>4, <2>2, <3>1, SetStatusKeeps DEF WInv, RestOK
  <2>3. CASE /\ SetStatus(w, StatusFor(session[s].callback.status))
             /\ submission' = [submission EXCEPT ![Matched(session[s], w)] =
                                 session[s].callback.status]
             /\ crossed' \in {crossed, crossed \cup {w}}
    BY <1>2, <1>4, <2>3, StatusForPlain, SetStatusKeeps DEF WInv, RestOK
  <2> QED BY <2>1, <2>2, <2>3 DEF ApplyCallback
<1> QED BY <1>3, <1>4, <1>5 DEF WInv, RestOK, provider

LEMMA AbortKeeps ==
  ASSUME WInv, NEW s \in Sessions, Abort(s)
  PROVE  WInv'
<1>1. NonceInv' /\ session' \in [Sessions -> SessionStates]
  BY IdleOK, SessionMoves DEF Abort, WInv, RestOK, NonceInv, NonceOK, tables
<1> QED BY <1>1 DEF Abort, WInv, LedgerInv, RestOK, tables, provider

\* Rows and postings agree, nonces are used once, and every variable keeps its
\* type, in every state: the invariant the other theorems rest on.
THEOREM WInvHolds == Spec => []WInv
<1>1. Init => WInv
  <2> SUFFICES ASSUME Init PROVE WInv
    OBVIOUS
  <2>1. LedgerInv
    <3>1. \A t \in ResolutionTypes : t \in RowTypes
      BY DEF RowTypes
    <3> QED BY <3>1 DEF Init, LedgerInv, Requests, RowTypes, OneResolution, RowOK, Absent
  <2>2. RestOK
    BY IdleOK DEF Init, RestOK
  <2>3. NonceInv
    BY IdleOK DEF Init, NonceInv, NonceOK
  <2> QED BY <2>1, <2>2, <2>3 DEF WInv
<1>2. WInv /\ [Next]_vars => WInv'
  <2> SUFFICES ASSUME WInv, [Next]_vars PROVE WInv'
    OBVIOUS
  <2>1. CASE UNCHANGED vars
    BY <2>1 DEF vars, WInv, LedgerInv, RestOK, NonceInv, NonceOK
  <2>2. CASE \E w \in Withdrawals : Command(w)
    BY <2>2, CommandKeeps
  <2>3. ASSUME NEW s \in Sessions,
               \/ \E w \in Withdrawals : BeginSubmit(s, w)
               \/ \E cb \in Sendable : Receive(s, cb)
               \/ Continue(s)
               \/ Crash(s)
        PROVE  WInv'
    BY <2>3, BeginSubmitKeeps, ReceiveKeeps, ProviderAcceptsKeeps, CommitSubmitKeeps,
       RejectReplayKeeps, ApplyUnmatchedKeeps, ApplyCallbackKeeps, AbortKeeps
       DEF Continue, BreakDeadlock, Crash
  <2> QED BY <2>1, <2>2, <2>3 DEF Next
<1> QED BY <1>1, <1>2, PTL DEF Spec

\* Every variable keeps its type (Withdrawals.TypeOK).
THEOREM WithdrawalsTyped == Spec => []TypeOK
<1>1. WInv => TypeOK
  BY DEF WInv, LedgerInv, RestOK, TypeOK
<1> QED BY <1>1, WInvHolds, PTL

\* A submission repeated after a crash is one payout, and a callback sent again
\* is one event (providerIdempotencyKey, the unique nonce of a receipt).
THEOREM RepeatsNeverCountTwice == Spec => []RepeatsCountOnce
<1>1. ASSUME WInv, NEW p \in payouts, NEW q \in payouts, p.request = q.request
      PROVE  p = q
  BY <1>1 DEF WInv, RestOK
<1>2. WInv => CallbackAppliesOnce
  BY DEF WInv, RestOK, NonceInv, CallbackAppliesOnce
<1>3. WInv => RepeatsCountOnce
  BY <1>1, <1>2 DEF RepeatsCountOnce, OnePayoutPerRequest
<1> QED BY <1>3, WInvHolds, PTL

\* No callback takes a request out of a status that ends it
\* (isTerminalForProviderCallback, read under the lock of the request).
THEOREM OutcomesRespected == Spec => CallbacksRespectOutcome
<1> DEFINE A == \A w \in Withdrawals :
                  events' # events /\ request[w].status \in CallbackTerminal
                    => request'[w] = request[w]
<1>1. ASSUME WInv, [Next]_vars
      PROVE  A
  <2>1. CASE events' = events
    BY <2>1
  <2>2. ASSUME NEW s \in Sessions, ApplyCallback(s)
        PROVE  A
    <3>1. CASE request' = request
      BY <3>1
    <3>2. CASE request' # request
      <4> DEFINE t == Target(session[s])
      <4>1. PICK st : SetStatus(t, st) /\ request[t].status \notin CallbackTerminal
        BY <2>2, <3>2 DEF ApplyCallback, NeedsReview
      <4> HIDE DEF t
      <4>2. ASSUME NEW w \in Withdrawals, request[w].status \in CallbackTerminal
            PROVE  request'[w] = request[w]
        BY <4>1, <4>2 DEF SetStatus, WInv, LedgerInv
      <4> QED BY <4>2
    <3> QED BY <3>1, <3>2
  <2>3. ASSUME NEW s \in Sessions, ApplyUnmatched(s)
        PROVE  A
    BY <2>3 DEF ApplyUnmatched
  <2>4. CASE UNCHANGED vars
    BY <2>1, <2>4 DEF vars
  <2>5. ASSUME NEW w \in Withdrawals, Command(w)
        PROVE  events' = events
    BY <2>5 DEF Command, Create, Approve, Reject, Cancel, Finalize, ReleaseProviderFailure, Mark,
                ResolveInLedger, ResumeSubmission, BlockSubmission, Sync
  <2>6. ASSUME NEW s \in Sessions,
               \/ \E w \in Withdrawals : BeginSubmit(s, w)
               \/ \E cb \in Sendable : Receive(s, cb)
               \/ ProviderAccepts(s) \/ CommitSubmit(s) \/ RejectReplay(s)
               \/ Abort(s)
        PROVE  events' = events
    BY <2>6 DEF BeginSubmit, Receive, ProviderAccepts, CommitSubmit, RejectReplay, Abort, tables
  <2> HIDE DEF A
  <2> QED BY <1>1, <2>1, <2>2, <2>3, <2>4, <2>5, <2>6 DEF Next, Continue, BreakDeadlock, Crash
<1> QED BY <1>1, WInvHolds, PTL DEF Spec, CallbacksRespectOutcome

\* No money is held unseen: a request whose reservation is neither returned nor
\* paid is on the report, or is one of those HeldMoneyIsReported names.
THEOREM HeldMoneyStaysReported == Spec => []HeldMoneyIsReported
<1>1. ASSUME WInv, NEW w \in Withdrawals, HeldAmount(w) = "reserved"
      PROVE  \/ OnReport(w)
             \/ request[w].status \in {"reserved", "provider_unknown_reviewed"}
             \/ request[w].status \in Submittable /\ submission[w] # None
  <2>1. /\ request[w] \in Requests /\ posted[w] \in [RowTypes -> Nat]
        /\ OneResolution(posted[w]) /\ RowOK(request[w], posted[w])
    BY <1>1, RowTypesOf DEF WInv
  <2>2. posted[w]["withdrawal_reserve"] # 0 /\ ~(Returned(w) > 0) /\ ~(Paid(w) > 0)
    BY <1>1 DEF HeldAmount
  <2>3. /\ posted[w]["withdrawal_reserve"] \in Nat /\ posted[w]["withdrawal_reversal"] \in Nat
        /\ posted[w]["withdrawal_provider_failure_release"] \in Nat
        /\ posted[w]["withdrawal_finalized"] \in Nat /\ posted[w]["withdrawal_complete"] \in Nat
    BY <2>1 DEF RowTypes, ResolutionTypes, ReleaseTypes
  <2>4. /\ posted[w]["withdrawal_reserve"] > 0
        /\ posted[w]["withdrawal_finalized"] = 0
        /\ \A t \in ReleaseTypes : posted[w][t] = 0
    BY <2>2, <2>3 DEF Returned, Paid, ReleaseTypes
  <2>5. request[w].release = None /\ ~request[w].finalized
    BY <2>1, <2>4 DEF RowOK, Requests
  <2>6. /\ request[w].status \in Statuses
        /\ request[w].status \notin {"rejected", "cancelled", "provider_failure_released",
                                     "completed", "failed", "submitted"}
    BY <2>1, <2>4, <2>5 DEF RowOK, Requests
  <2> QED BY <2>4, <2>5, <2>6
          DEF OnReport, Statuses, ProviderHeld, NotReserved, ApprovedAwaitingSubmission,
              SubmittingStuck, SubmittedMissingProviderReference,
              ProviderPendingNotRecentlySynced, ProviderConfirmedNotFinalized,
              ProviderFailureRequiresReview, TerminalProviderFailureHoldingReservation,
              StuckReview, Reserved, Submittable
<1>2. WInv => HeldMoneyIsReported
  BY <1>1 DEF HeldMoneyIsReported
<1> QED BY <1>2, WInvHolds, PTL

-----------------------------------------------------------------------------
(* What the provider has said *)

\* What a word, a status and the postings of a request need of the set of the
\* decisive words the provider said of it.
SaidWord(p, words) == p \in Decisive => p \in words

SaidStatus(st, words) ==
  /\ st = "provider_confirmed" => "confirmed" \in words
  /\ st = "provider_failed" => "failed" \in words
  /\ st = "provider_rejected" => "rejected" \in words

SaidPostings(p, words) ==
  /\ p["withdrawal_finalized"] > 0 => "confirmed" \in words
  /\ p["withdrawal_provider_failure_release"] > 0 => words \cap {"failed", "rejected"} # {}

Said(w, p) == SaidWord(p, reported[w])

\* The words a request has its status from: any, once a callback about another's
\* payout was applied to it.
Words(w) == reported[w] \cup IF w \in crossed THEN Decisive ELSE {}

SaidRow(w) ==
  /\ Said(w, submission[w])
  /\ SaidStatus(request[w].status, Words(w))
  /\ SaidPostings(posted[w], Words(w))

\* The submission found for a callback is that of the payout it names.
SaidSession(r) ==
  /\ r.op = "submitted" => Said(r.request, r.status)
  /\ r.op = "received" =>
       /\ r.callback.external # None => Said(r.callback.external, r.callback.status)
       /\ r.found \in {None, r.callback.external}

SaidInv ==
  /\ \A w \in Withdrawals : SaidRow(w)
  /\ \A s \in Sessions : SaidSession(session[s])

\* The provider takes nothing back.
Grown ==
  /\ \A w \in Withdrawals : reported[w] \subseteq reported'[w]
  /\ crossed \subseteq crossed'

LEMMA ReportGrows ==
  ASSUME WInv, NEW w \in Withdrawals, NEW p, Report(w, p), UNCHANGED crossed
  PROVE  Grown /\ (p \in Decisive => p \in reported'[w])
  BY DEF Report, Grown, WInv, RestOK

LEMMA SaidStays ==
  ASSUME WInv, Grown
  PROVE  \A r \in SessionStates : SaidSession(r) => SaidSession(r)'
<1> SUFFICES ASSUME NEW r \in SessionStates, SaidSession(r)
             PROVE  SaidSession(r)'
  OBVIOUS
<1>1. CASE r.op = "submitted"
  <2>1. r.request \in Withdrawals
    BY <1>1, KindByOp DEF SubmittedStates
  <2> QED BY <1>1, <2>1 DEF SaidSession, Said, SaidWord, Grown
<1>2. CASE r.op = "received"
  <2>1. r.callback.external \in Withdrawals \cup {None}
    BY <1>2, KindByOp DEF ReceivedStates, Callbacks
  <2> QED BY <1>2, <2>1 DEF SaidSession, Said, SaidWord, Grown
<1> QED BY <1>1, <1>2 DEF SaidSession

\* A step writes at most one row, a submission the provider said, and moves at
\* most one transaction.
LEMMA SaidMoves ==
  ASSUME WInv, SaidInv, Grown, NEW w \in Withdrawals, SaidRow(w)',
         \A v \in Withdrawals : v # w =>
           /\ request'[v].status = request[v].status /\ posted'[v] = posted[v]
           /\ submission'[v] = submission[v] \/ SaidWord(submission'[v], reported'[v]),
         \A s \in Sessions : session'[s] = session[s] \/ SaidSession(session[s])'
  PROVE  SaidInv'
<1>1. ASSUME NEW v \in Withdrawals
      PROVE  SaidRow(v)'
  <2>1. CASE v = w
    BY <2>1
  <2>2. CASE v # w
    BY <2>2 DEF SaidInv, SaidRow, Said, SaidWord, SaidStatus, SaidPostings, Words, Grown
  <2> QED BY <2>1, <2>2
<1>2. ASSUME NEW s \in Sessions
      PROVE  SaidSession(session[s])'
  <2>1. CASE session'[s] = session[s]
    <3>1. PICK r \in SessionStates : r = session[s] /\ SaidSession(r)
      BY DEF SaidInv, WInv, RestOK
    <3>2. SaidSession(r)'
      BY <3>1, SaidStays
    <3>3. session'[s] = r
      BY <2>1, <3>1
    <3> QED BY <3>2, <3>3 DEF SaidSession, Said, SaidWord
  <2> QED BY <2>1
<1> QED BY <1>1, <1>2 DEF SaidInv

Decided == {"provider_confirmed", "provider_failed", "provider_rejected"}

LEMMA StatusForSaid ==
  ASSUME NEW p \in ProviderStatuses, NEW words, SaidWord(p, words)
  PROVE  SaidStatus(StatusFor(p), words)
  BY WithdrawalsAssumption DEF StatusFor, SaidStatus, SaidWord, Decisive

\* The row of w gets a status that says nothing of the provider, and a posting
\* the provider's words allow.
LEMMA RowSaid ==
  ASSUME WInv, SaidInv, NEW w \in Withdrawals,
         UNCHANGED <<submission, reported, crossed, session>>,
         \A v \in Withdrawals : v # w =>
           request'[v].status = request[v].status /\ posted'[v] = posted[v],
         request'[w].status \notin Decided \/ request'[w].status = request[w].status,
         SaidPostings(posted'[w], Words(w))
  PROVE  SaidInv'
<1>1. Grown
  BY DEF Grown
<1>2. SaidRow(w)'
  BY DEF SaidInv, SaidRow, Said, SaidWord, SaidStatus, Words, Decided
<1> QED BY <1>1, <1>2, SaidMoves

\* A posting of another type than the two the provider's words are needed for.
LEMMA OtherPostingSaid ==
  ASSUME WInv, SaidInv, NEW w \in Withdrawals,
         NEW t \in RowTypes \ {"withdrawal_finalized", "withdrawal_provider_failure_release"},
         Post(w, t)
  PROVE  /\ SaidPostings(posted'[w], Words(w))
         /\ \A v \in Withdrawals : v # w => posted'[v] = posted[v]
<1>1. posted' = [posted EXCEPT ![w] = [posted[w] EXCEPT ![t] = @ + 1]]
  BY DEF Post
<1>2. /\ posted \in [Withdrawals -> [RowTypes -> Nat]]
      /\ {"withdrawal_finalized", "withdrawal_provider_failure_release"} \subseteq RowTypes
      /\ SaidPostings(posted[w], Words(w))
  BY DEF WInv, LedgerInv, SaidInv, SaidRow, RowTypes, ResolutionTypes, ReleaseTypes
<1> QED BY <1>1, <1>2 DEF SaidPostings

LEMMA ReturnSaid ==
  ASSUME WInv, SaidInv, NEW w \in Withdrawals, NEW type \in ReleaseTypes,
         NEW st \in {"rejected", "cancelled", "provider_failure_released"}, Release(w, type, st),
         type = "withdrawal_provider_failure_release" =>
           Words(w) \cap {"failed", "rejected"} # {},
         UNCHANGED <<submission, reported, crossed, session>>
  PROVE  SaidInv'
<1>1. st \notin Decided
  BY DEF Decided
<1>2. request \in [Withdrawals -> Requests] /\ posted \in [Withdrawals -> [RowTypes -> Nat]]
  BY DEF WInv, LedgerInv
<1>3. \E t : \/ SetStatus(w, st)
             \/ request' = [request EXCEPT ![w].status = st, ![w].release = t]
  BY DEF Release
<1>4. /\ request'[w].status = st
      /\ \A v \in Withdrawals : v # w => request'[v].status = request[v].status
  BY <1>2, <1>3 DEF SetStatus, Requests
<1>5. CASE posted' = posted
  BY <1>1, <1>4, <1>5, RowSaid DEF SaidInv, SaidRow
<1>6. CASE Post(w, type) /\ type = "withdrawal_reversal"
  <2>1. type \in RowTypes \ {"withdrawal_finalized", "withdrawal_provider_failure_release"}
    BY <1>6 DEF RowTypes, ResolutionTypes, ReleaseTypes
  <2> QED BY <1>1, <1>4, <1>6, <2>1, OtherPostingSaid, RowSaid
<1>7. CASE Post(w, type) /\ type = "withdrawal_provider_failure_release"
  <2>1. posted' = [posted EXCEPT ![w] = [posted[w] EXCEPT ![type] = @ + 1]]
    BY <1>7 DEF Post
  <2>2. /\ posted'[w]["withdrawal_finalized"] = posted[w]["withdrawal_finalized"]
        /\ \A v \in Withdrawals : v # w => posted'[v] = posted[v]
    BY <1>2, <1>7, <2>1 DEF RowTypes, ResolutionTypes
  <2>3. SaidPostings(posted'[w], Words(w))
    BY <1>7, <2>2 DEF SaidPostings, SaidInv, SaidRow
  <2> QED BY <1>1, <1>4, <2>2, <2>3, RowSaid
<1> QED BY <1>5, <1>6, <1>7 DEF Release, ReleaseTypes

LEMMA CommandSaid ==
  ASSUME WInv, SaidInv, NEW w \in Withdrawals, Command(w)
  PROVE  SaidInv'
<1>1. /\ request \in [Withdrawals -> Requests] /\ posted \in [Withdrawals -> [RowTypes -> Nat]]
      /\ submission \in [Withdrawals -> ProviderStatuses \cup {None}]
      /\ SaidRow(w)
  BY DEF WInv, LedgerInv, RestOK, SaidInv
<1>2. \A st : SetStatus(w, st) =>
        /\ request'[w].status = st
        /\ \A v \in Withdrawals : v # w => request'[v].status = request[v].status
  BY <1>1 DEF SetStatus, Requests
<1>3. CASE Create(w)
  <2>1. PICK st \in {"review_required", "reserved"} : SetStatus(w, st)
    BY <1>3 DEF Create
  <2>2. Post(w, "withdrawal_reserve") /\ UNCHANGED <<submission, reported, crossed, session>>
    BY <1>3 DEF Create, provider
  <2>3. "withdrawal_reserve" \in
          RowTypes \ {"withdrawal_finalized", "withdrawal_provider_failure_release"}
    BY DEF RowTypes
  <2>4. st \notin Decided
    BY DEF Decided
  <2> QED BY <1>2, <2>1, <2>2, <2>3, <2>4, OtherPostingSaid, RowSaid
<1>4. CASE Approve(w) \/ BlockSubmission(w) \/ Mark(w)
  <2>1. PICK st \in {"submission_pending", "review_required", "provider_failed_terminal",
                     "provider_rejected_terminal", "provider_unknown_reviewed"} :
          SetStatus(w, st) /\ UNCHANGED <<submission, posted, reported, crossed, session>>
    BY <1>4 DEF Approve, BlockSubmission, Mark, provider
  <2>2. st \notin Decided
    BY DEF Decided
  <2> QED BY <1>1, <1>2, <2>1, <2>2, RowSaid DEF SaidRow
<1>5. CASE Reject(w) \/ Cancel(w)
  BY <1>5, ReturnSaid DEF Reject, Cancel, ReleaseTypes, provider
<1>6. CASE ReleaseProviderFailure(w)
  <2>1. Words(w) \cap {"failed", "rejected"} # {}
    BY <1>1, <1>6 DEF ReleaseProviderFailure, Releasable, SaidRow, SaidStatus
  <2> QED BY <1>6, <2>1, ReturnSaid DEF ReleaseProviderFailure, ReleaseTypes, provider
<1>7. CASE Finalize(w)
  <2>1. "confirmed" \in Words(w)
    BY <1>1, <1>7 DEF Finalize, Finalizable, SaidRow, SaidStatus
  <2>2. /\ request'[w].status = "completed"
        /\ \A v \in Withdrawals : v # w => request'[v].status = request[v].status
    BY <1>1, <1>7 DEF Finalize, Requests
  <2>3. /\ posted'[w]["withdrawal_provider_failure_release"] =
             posted[w]["withdrawal_provider_failure_release"]
        /\ \A v \in Withdrawals : v # w => posted'[v] = posted[v]
    <3>1. CASE posted' = posted
      BY <3>1
    <3>2. CASE Post(w, "withdrawal_finalized")
      <4>1. posted' = [posted EXCEPT ![w] = [posted[w] EXCEPT !["withdrawal_finalized"] = @ + 1]]
        BY <3>2 DEF Post
      <4> QED BY <1>1, <4>1 DEF RowTypes, ResolutionTypes, ReleaseTypes
    <3> QED BY <1>7, <3>1, <3>2 DEF Finalize
  <2>4. SaidPostings(posted'[w], Words(w))
    BY <1>1, <2>1, <2>3 DEF SaidRow, SaidPostings
  <2>5. UNCHANGED <<submission, reported, crossed, session>> /\ "completed" \notin Decided
    BY <1>7 DEF Finalize, provider, Decided
  <2> QED BY <2>2, <2>3, <2>4, <2>5, RowSaid
<1>8. CASE ResolveInLedger(w)
  <2>1. PICK t \in {"withdrawal_reversal", "withdrawal_complete"} : Post(w, t)
    BY <1>8 DEF ResolveInLedger
  <2>2. t \in RowTypes \ {"withdrawal_finalized", "withdrawal_provider_failure_release"}
    BY DEF RowTypes, ResolutionTypes, ReleaseTypes
  <2>3. UNCHANGED <<request, submission, reported, crossed, session>>
    BY <1>8 DEF ResolveInLedger, provider
  <2> QED BY <2>1, <2>2, <2>3, OtherPostingSaid, RowSaid
<1>9. CASE ResumeSubmission(w)
  <2>1. submission[w] \in ProviderStatuses /\ SaidWord(submission[w], reported[w])
    BY <1>1, <1>9 DEF ResumeSubmission, SaidRow, Said
  <2>2. SaidStatus(StatusFor(submission[w]), reported[w])
    BY <2>1, StatusForSaid
  <2>3. SetStatus(w, StatusFor(submission[w])) /\ UNCHANGED <<submission, posted, reported, crossed, session>>
    BY <1>9 DEF ResumeSubmission, provider
  <2>4. SaidRow(w)' /\ Grown
    BY <1>1, <1>2, <2>2, <2>3 DEF SaidRow, SaidStatus, SaidPostings, Said, Words, Grown
  <2> QED BY <1>2, <2>3, <2>4, SaidMoves
<1>10. CASE Sync(w)
  <2>1. PICK p \in ProviderStatuses :
          /\ Report(w, p) /\ submission' = [submission EXCEPT ![w] = p]
          /\ SetStatus(w, StatusFor(p))
    BY <1>10 DEF Sync
  <2>2. UNCHANGED <<posted, crossed, session>>
    BY <1>10 DEF Sync
  <2>3. Grown /\ SaidWord(p, reported'[w])
    BY <2>1, <2>2, ReportGrows DEF SaidWord
  <2>4. SaidStatus(StatusFor(p), reported'[w])
    BY <2>3, StatusForSaid
  <2>5. submission'[w] = p /\ \A v \in Withdrawals : v # w => submission'[v] = submission[v]
    BY <1>1, <2>1
  <2>6. SaidRow(w)'
    BY <1>1, <1>2, <2>1, <2>2, <2>3, <2>4, <2>5 DEF SaidRow, SaidStatus, SaidPostings, Said, Words, Grown
  <2> QED BY <1>2, <2>1, <2>2, <2>3, <2>5, <2>6, SaidMoves
<1> QED BY <1>3, <1>4, <1>5, <1>6, <1>7, <1>8, <1>9, <1>10 DEF Command

\* A transaction moves and no row is written.
LEMMA OnlySessionSaid ==
  ASSUME WInv, SaidInv, Grown, UNCHANGED <<request, submission, posted>>,
         \A s \in Sessions : session'[s] = session[s] \/ SaidSession(session[s])'
  PROVE  SaidInv'
<1>1. ASSUME NEW w \in Withdrawals
      PROVE  SaidRow(w)'
  BY DEF SaidInv, SaidRow, Said, SaidWord, SaidStatus, SaidPostings, Words, Grown
<1>2. CASE Withdrawals # {}
  BY <1>1, <1>2, SaidMoves
<1>3. CASE Withdrawals = {}
  <2>1. ASSUME NEW s \in Sessions
        PROVE  SaidSession(session[s])'
    <3>1. CASE session'[s] = session[s]
      <4>1. PICK r \in SessionStates : r = session[s] /\ SaidSession(r)
        BY DEF SaidInv, WInv, RestOK
      <4>2. SaidSession(r)'
        BY <4>1, SaidStays
      <4>3. session'[s] = r
        BY <3>1, <4>1
      <4> QED BY <4>2, <4>3 DEF SaidSession, Said, SaidWord
    <3> QED BY <2>1, <3>1
  <2> QED BY <1>3, <2>1 DEF SaidInv
<1> QED BY <1>2, <1>3

LEMMA EndedSaid ==
  ASSUME WInv, NEW s \in Sessions, session' = [session EXCEPT ![s] = NoSession]
  PROVE  \A t \in Sessions : session'[t] = session[t] \/ SaidSession(session[t])'
<1>1. \A t \in Sessions : session'[t] = IF t = s THEN NoSession ELSE session[t]
  BY DEF WInv, RestOK
<1> QED BY <1>1, IdleOK DEF SaidSession

LEMMA BeginSubmitSaid ==
  ASSUME WInv, SaidInv, NEW s \in Sessions, NEW w \in Withdrawals, BeginSubmit(s, w)
  PROVE  SaidInv'
<1>1. /\ session' = [session EXCEPT ![s] = [op |-> "submitting", request |-> w]]
      /\ UNCHANGED <<tables, provider>>
  BY DEF BeginSubmit
<1>2. \A t \in Sessions : t # s => session'[t] = session[t]
  BY <1>1 DEF WInv, RestOK
<1>3. session'[s] = [op |-> "submitting", request |-> w]
  BY <1>1 DEF WInv, RestOK
<1>4. SaidSession(session[s])'
  BY <1>3 DEF SaidSession
<1>5. Grown
  BY <1>1 DEF Grown, provider, tables
<1> QED BY <1>1, <1>2, <1>4, <1>5, OnlySessionSaid DEF tables

LEMMA ProviderAcceptsSaid ==
  ASSUME WInv, SaidInv, NEW s \in Sessions, ProviderAccepts(s)
  PROVE  SaidInv'
<1> DEFINE w == session[s].request
<1>1. session[s] \in SessionStates /\ session[s].op = "submitting"
  BY DEF WInv, RestOK, ProviderAccepts
<1>2. w \in Withdrawals
  BY <1>1, KindByOp DEF SubmittingStates
<1>3. PICK p \in ProviderStatuses :
        /\ Report(w, p)
        /\ session' = [session EXCEPT ![s] = [op |-> "submitted", request |-> w, status |-> p]]
  BY DEF ProviderAccepts
<1>4. UNCHANGED tables
  BY DEF ProviderAccepts
<1>5. PICK v \in Withdrawals :
        /\ Report(v, p)
        /\ session' = [session EXCEPT ![s] = [op |-> "submitted", request |-> v, status |-> p]]
  BY <1>2, <1>3
<1>6. Grown /\ SaidWord(p, reported'[v])
  BY <1>4, <1>5, ReportGrows DEF SaidWord, tables
<1>7. \A t \in Sessions : t # s => session'[t] = session[t]
  BY <1>5 DEF WInv, RestOK
<1>8. session'[s] = [op |-> "submitted", request |-> v, status |-> p]
  BY <1>5 DEF WInv, RestOK
<1>9. SaidSession(session[s])'
  BY <1>6, <1>8 DEF SaidSession, Said
<1> QED BY <1>4, <1>6, <1>7, <1>9, OnlySessionSaid DEF tables

LEMMA CommitSubmitSaid ==
  ASSUME WInv, SaidInv, NEW s \in Sessions, CommitSubmit(s)
  PROVE  SaidInv'
<1>1. session[s] \in SessionStates /\ session[s].op = "submitted"
  BY DEF WInv, RestOK, CommitSubmit
<1>2. PICK w \in Withdrawals, p \in ProviderStatuses :
        w = session[s].request /\ p = session[s].status /\ SaidWord(p, reported[w])
  BY <1>1, KindByOp DEF SubmittedStates, SaidInv, SaidSession, Said
<1>3. /\ submission' = [submission EXCEPT ![w] = p] /\ SetStatus(w, StatusFor(p))
      /\ session' = [session EXCEPT ![s] = NoSession]
      /\ UNCHANGED <<posted, reported, crossed>>
  BY <1>2 DEF CommitSubmit, provider
<1>4. SaidStatus(StatusFor(p), reported[w])
  BY <1>2, StatusForSaid
<1>5. /\ submission'[w] = p /\ request'[w].status = StatusFor(p)
      /\ \A v \in Withdrawals : v # w =>
           /\ request'[v].status = request[v].status
           /\ submission'[v] = submission[v] /\ posted'[v] = posted[v]
  BY <1>2, <1>3 DEF SetStatus, WInv, LedgerInv, RestOK, Requests
<1>6. SaidRow(w)' /\ Grown
  BY <1>2, <1>3, <1>4, <1>5 DEF SaidInv, SaidRow, SaidStatus, SaidPostings, Said, Words, Grown
<1> QED BY <1>2, <1>3, <1>5, <1>6, EndedSaid, SaidMoves

LEMMA ReceiveSaid ==
  ASSUME WInv, SaidInv, NEW s \in Sessions, NEW cb \in Sendable, Receive(s, cb)
  PROVE  SaidInv'
<1>1. cb \in Callbacks /\ cb.external \in Withdrawals \cup {None}
  BY DEF Sendable, Callbacks
<1>2. UNCHANGED <<tables, payouts>>
  BY DEF Receive
<1>3. Grown /\ (cb.external # None /\ NewNonce(cb.nonce) => SaidWord(cb.status, reported'[cb.external]))
  <2>1. CASE reported' = reported /\ (cb.external = None \/ ~NewNonce(cb.nonce))
    BY <1>2, <2>1 DEF Grown, tables
  <2>2. CASE cb.external # None /\ Report(cb.external, cb.status)
    <3>1. PICK v \in Withdrawals : v = cb.external
      BY <1>1, <2>2
    <3> QED BY <1>2, <2>2, <3>1, ReportGrows DEF SaidWord, tables
  <2> QED BY <2>1, <2>2 DEF Receive
<1>4. SaidSession(session[s])'
  <2>1. CASE NewNonce(cb.nonce)
    <3>1. PICK f \in {None, cb.external} :
            session' = [session EXCEPT ![s] = [op |-> "received", callback |-> cb, found |-> f]]
      BY <2>1 DEF Receive
    <3>2. session'[s] = [op |-> "received", callback |-> cb, found |-> f]
      BY <3>1 DEF WInv, RestOK
    <3> QED BY <1>1, <1>3, <2>1, <3>2 DEF SaidSession, Said
  <2>2. CASE ~NewNonce(cb.nonce)
    <3>1. session'[s] = [op |-> "replayed", nonce |-> cb.nonce]
      BY <2>2 DEF Receive, WInv, RestOK
    <3> QED BY <3>1 DEF SaidSession
  <2> QED BY <2>1, <2>2
<1>5. \A t \in Sessions : t # s => session'[t] = session[t]
  <2>1. PICK r : session' = [session EXCEPT ![s] = r]
    BY DEF Receive
  <2> QED BY <2>1 DEF WInv, RestOK
<1> QED BY <1>2, <1>3, <1>4, <1>5, OnlySessionSaid DEF tables

LEMMA ApplyCallbackSaid ==
  ASSUME WInv, SaidInv, NEW s \in Sessions, ApplyCallback(s)
  PROVE  SaidInv'
<1>1. session[s].op = "received" /\ Target(session[s]) # None /\ SaidSession(session[s])
  BY DEF ApplyCallback, SaidInv
<1>2. PICK w \in Withdrawals, m \in Withdrawals \cup {None}, c \in Callbacks :
        w = Target(session[s]) /\ m = Matched(session[s], w) /\ c = session[s].callback
  BY <1>1, TargetOf
<1>3. /\ session' = [session EXCEPT ![s] = NoSession]
      /\ UNCHANGED <<posted, reported>>
  BY DEF ApplyCallback, provider
<1>5. CASE UNCHANGED <<request, submission, crossed>>
  BY <1>3, <1>5, EndedSaid, OnlySessionSaid DEF Grown
<1>6. CASE SetStatus(w, "review_required") /\ UNCHANGED <<submission, crossed>>
  <2>1. /\ request'[w].status = "review_required"
        /\ \A v \in Withdrawals : v # w => request'[v].status = request[v].status
    BY <1>2, <1>6 DEF SetStatus, WInv, LedgerInv, Requests
  <2>2. SaidRow(w)' /\ Grown
    BY <1>2, <1>3, <1>6, <2>1 DEF SaidInv, SaidRow, Said, SaidStatus, SaidPostings, Words, Grown
  <2> QED BY <1>2, <1>3, <1>6, <2>1, <2>2, EndedSaid, SaidMoves
<1>7. CASE /\ ~NeedsReview(session[s], w)
           /\ submission' = [submission EXCEPT ![m] = c.status]
           /\ SetStatus(w, StatusFor(c.status))
           /\ crossed' = IF m = w THEN crossed ELSE crossed \cup {w}
  <2>1. m \in Withdrawals /\ m # None /\ m = c.external
    BY <1>2, <1>7 DEF NeedsReview
  <2>2. SaidWord(c.status, reported[m]) /\ c.status \in ProviderStatuses
    BY <1>1, <1>2, <2>1 DEF SaidSession, Said, Callbacks
  <2>3. SaidStatus(StatusFor(c.status), reported[m])
    BY <2>2, StatusForSaid
  <2>4. /\ request'[w].status = StatusFor(c.status) /\ submission'[m] = c.status
        /\ \A v \in Withdrawals : v # w =>
             request'[v].status = request[v].status /\ posted'[v] = posted[v]
        /\ \A v \in Withdrawals : v # m => submission'[v] = submission[v]
    BY <1>2, <1>3, <1>7, <2>1 DEF SetStatus, WInv, LedgerInv, RestOK, Requests
  <2>5. SaidStatus(StatusFor(c.status), Words(w)')
    BY <1>3, <1>7, <2>3 DEF SaidStatus, Words, Decisive
  <2>6. \A v \in Withdrawals : SaidWord(submission'[v], reported'[v])
    BY <1>3, <2>1, <2>2, <2>4 DEF SaidInv, SaidRow, Said
  <2>7. SaidPostings(posted[w], Words(w)) /\ Words(w) \subseteq Words(w)'
    BY <1>2, <1>3, <1>7 DEF SaidInv, SaidRow, Words
  <2>8. SaidPostings(posted'[w], Words(w)')
    BY <1>3, <2>7 DEF SaidPostings
  <2>9. SaidRow(w)' /\ Grown
    BY <1>2, <1>3, <1>7, <2>4, <2>5, <2>6, <2>8 DEF SaidRow, Said, Grown
  <2> QED BY <1>2, <1>3, <2>4, <2>6, <2>9, EndedSaid, SaidMoves
<1> QED BY <1>2, <1>5, <1>6, <1>7 DEF ApplyCallback

\* Aborts, replays and unmatched callbacks.
LEMMA EndSaid ==
  ASSUME WInv, SaidInv, NEW s \in Sessions, Abort(s) \/ RejectReplay(s) \/ ApplyUnmatched(s)
  PROVE  SaidInv'
<1>1. /\ session' = [session EXCEPT ![s] = NoSession]
      /\ UNCHANGED <<request, submission, posted, crossed, reported>>
  BY DEF Abort, RejectReplay, ApplyUnmatched, tables, provider
<1>2. Grown
  BY <1>1 DEF Grown
<1> QED BY <1>1, <1>2, EndedSaid, OnlySessionSaid

LEMMA SaidHolds == Spec => []SaidInv
<1>1. Init => SaidInv
  <2> SUFFICES ASSUME Init PROVE SaidInv
    OBVIOUS
  <2>1. /\ "withdrawal_finalized" \in RowTypes
        /\ "withdrawal_provider_failure_release" \in RowTypes
    BY DEF RowTypes, ResolutionTypes, ReleaseTypes
  <2>2. \A w \in Withdrawals : SaidRow(w)
    BY <2>1 DEF Init, SaidRow, Said, SaidWord, SaidStatus, SaidPostings, Words, Absent, None, Decisive
  <2>3. \A s \in Sessions : SaidSession(session[s])
    BY IdleOK DEF Init, SaidSession
  <2> QED BY <2>2, <2>3 DEF SaidInv
<1>2. WInv /\ SaidInv /\ [Next]_vars => SaidInv'
  <2> SUFFICES ASSUME WInv, SaidInv, [Next]_vars PROVE SaidInv'
    OBVIOUS
  <2>1. CASE UNCHANGED vars
    BY <2>1 DEF vars, SaidInv, SaidRow, SaidSession, Said, Words
  <2>2. CASE \E w \in Withdrawals : Command(w)
    BY <2>2, CommandSaid
  <2>3. ASSUME NEW s \in Sessions,
               \/ \E w \in Withdrawals : BeginSubmit(s, w)
               \/ \E cb \in Sendable : Receive(s, cb)
               \/ Continue(s)
               \/ Crash(s)
        PROVE  SaidInv'
    BY <2>3, BeginSubmitSaid, ReceiveSaid, ProviderAcceptsSaid, CommitSubmitSaid,
       ApplyCallbackSaid, EndSaid DEF Continue, BreakDeadlock, Crash
  <2> QED BY <2>1, <2>2, <2>3 DEF Next
<1> QED BY <1>1, <1>2, WInvHolds, PTL DEF Spec

\* Whatever callbacks the provider sends: the status of every request and its
\* postings agree, and money leaves the ledger only for a payout the provider
\* confirmed, unless the word about another's payout was applied to the request.
THEOREM RecordsAlwaysAgree == Spec => []RecordsAgree
<1>1. ASSUME WInv, NEW w \in Withdrawals
      PROVE  /\ request[w].status \in {"rejected", "cancelled", "provider_failure_released"}
                  => Returned(w) = 1 /\ Paid(w) = 0
             /\ request[w].status = "completed" => Paid(w) = 1 /\ Returned(w) = 0
  <2>1. /\ request[w] \in Requests /\ posted[w] \in [RowTypes -> Nat]
        /\ OneResolution(posted[w]) /\ RowOK(request[w], posted[w])
    BY <1>1, RowTypesOf DEF WInv
  <2>2. \A t \in ResolutionTypes : posted[w][t] \in {0, 1}
    BY <2>1 DEF OneResolution, RowTypes
  <2>3. ASSUME NEW t \in ResolutionTypes, posted[w][t] > 0
        PROVE  posted[w][t] = 1 /\ \A u \in ResolutionTypes : u # t => posted[w][u] = 0
    BY <2>1, <2>2, <2>3 DEF OneResolution
  <2>4. CASE request[w].status \in {"rejected", "cancelled", "provider_failure_released"}
    <3>1. request[w].release \in ReleaseTypes /\ posted[w][request[w].release] > 0
      BY <2>1, <2>4 DEF RowOK, Requests
    <3> QED BY <2>3, <2>4, <3>1 DEF ResolutionTypes, ReleaseTypes, Returned, Paid
  <2>5. CASE request[w].status = "completed"
    <3>1. posted[w]["withdrawal_finalized"] > 0
      BY <2>1, <2>5 DEF RowOK
    <3> QED BY <2>3, <2>5, <3>1 DEF ResolutionTypes, ReleaseTypes, Returned, Paid
  <2> QED BY <2>4, <2>5
<1>2. WInv => OutcomeInLedger
  BY <1>1 DEF OutcomeInLedger
<1>3. SaidInv => \A w \in Withdrawals \ crossed : FollowsProvider(w)
  BY DEF SaidInv, SaidRow, SaidPostings, Words, FollowsProvider
<1>4. WInv /\ SaidInv => RecordsAgree
  BY <1>2, <1>3 DEF RecordsAgree
<1> QED BY <1>4, WInvHolds, SaidHolds, PTL

-----------------------------------------------------------------------------
(* The player's money *)

Known(w) == request[w].status # Absent

\* A request in the table has its reservation, one, and only what is reserved
\* is resolved.
ReserveOK(w) ==
  /\ posted[w]["withdrawal_reserve"] <= 1
  /\ Known(w) => posted[w]["withdrawal_reserve"] = 1
  /\ \A t \in ResolutionTypes : posted[w][t] > 0 => posted[w]["withdrawal_reserve"] = 1

\* What a transaction has found is in the table, and stays there.
FoundOK(r) ==
  /\ r.op \in {"submitting", "submitted"} => Known(r.request)
  /\ r.op = "received" =>
       /\ r.callback.request # None => Known(r.callback.request)
       /\ r.found # None => Known(r.found)

FoundInv ==
  /\ \A w \in Withdrawals : submission[w] # None => Known(w)
  /\ \A s \in Sessions : FoundOK(session[s])

ReserveInv == FoundInv /\ \A w \in Withdrawals : ReserveOK(w)

NoneCreated == \A w \in Withdrawals : Known(w)' => Known(w)
RowsStay == \A w \in Withdrawals : Known(w) => Known(w)'

\* The postings a step may make: a resolution of what is reserved.
Resolved(w, t) ==
  /\ posted[w]["withdrawal_reserve"] = 1
  /\ Unresolved(w)
  /\ Post(w, t)

\* What a step does to rows and postings, as far as money goes.
MoneyStep ==
  \/ NoneCreated /\ UNCHANGED posted
  \/ NoneCreated /\ \E w \in Withdrawals : \E t \in ResolutionTypes : Resolved(w, t)
  \/ \E w \in Withdrawals : Create(w)

LEMMA RowStays ==
  ASSUME LedgerInv, NEW w \in Withdrawals, Known(w), NEW row, row.status # Absent,
         request' = [request EXCEPT ![w] = row]
  PROVE  RowsStay /\ NoneCreated
BY DEF LedgerInv, RowsStay, NoneCreated, Known

LEMMA StatusStays ==
  ASSUME LedgerInv, NEW w \in Withdrawals, Known(w), NEW st, st # Absent, SetStatus(w, st)
  PROVE  RowsStay /\ NoneCreated
<1> DEFINE row == [request[w] EXCEPT !.status = st]
<1>1. request' = [request EXCEPT ![w] = row] /\ row.status = st
  BY RowTypesOf DEF SetStatus, Requests
<1> HIDE DEF row
<1> QED
  BY <1>1, RowStays

LEMMA SameRows == ASSUME UNCHANGED request PROVE RowsStay /\ NoneCreated
BY DEF RowsStay, NoneCreated, Known

LEMMA ReleaseStep ==
  ASSUME LedgerInv, NEW w \in Withdrawals, Known(w), ReserveOK(w), NEW type \in ReleaseTypes,
         NEW st, st # Absent, Release(w, type, st)
  PROVE  RowsStay /\ MoneyStep
<1>1. CASE SetStatus(w, st) /\ UNCHANGED posted
  BY <1>1, StatusStays DEF MoneyStep
<1>2. ASSUME NEW t, request' = [request EXCEPT ![w].status = st, ![w].release = t]
      PROVE  RowsStay /\ NoneCreated
  <2> DEFINE row == [request[w] EXCEPT !.status = st, !.release = t]
  <2>1. request' = [request EXCEPT ![w] = row] /\ row.status = st
    BY <1>2, RowTypesOf DEF LedgerInv, Requests
  <2> HIDE DEF row
  <2> QED
    BY <2>1, RowStays
<1>3. CASE /\ Unresolved(w) /\ Post(w, type)
           /\ request' = [request EXCEPT ![w].status = st, ![w].release = type]
  <2>1. Resolved(w, type) /\ type \in ResolutionTypes
    BY <1>3 DEF Resolved, ReserveOK, ResolutionTypes
  <2> QED
    BY <1>2, <1>3, <2>1 DEF MoneyStep
<1> QED
  BY <1>1, <1>2, <1>3 DEF Release, MoneyStep

LEMMA PlainIsThere == \A st \in Plain : st # Absent
BY DEF Plain, Statuses, ProviderHeld, Absent

LEMMA CommandStep ==
  ASSUME WInv, ReserveInv, NEW w \in Withdrawals, Command(w)
  PROVE  RowsStay /\ MoneyStep
<1>0. LedgerInv /\ ReserveOK(w) /\ (submission[w] # None => Known(w))
      /\ submission \in [Withdrawals -> ProviderStatuses \cup {None}]
  BY DEF WInv, ReserveInv, FoundInv, RestOK
<1>1. CASE Create(w)
  <2>1. PICK st \in Statuses : SetStatus(w, st)
    BY <1>1 DEF Create, Statuses
  <2>2. st # Absent
    BY DEF Statuses, ProviderHeld, Absent
  <2>3. RowsStay
    BY <1>0, <2>1, <2>2 DEF LedgerInv, SetStatus, Requests, RowsStay, Known
  <2> QED
    BY <1>1, <2>3 DEF MoneyStep
<1>2. CASE Approve(w) \/ BlockSubmission(w)
  <2>1. {"submission_pending", "review_required"} \subseteq Plain
    BY DEF Plain, Statuses
  <2>2. Known(w) /\ UNCHANGED posted
    BY <1>2 DEF Approve, BlockSubmission, Locked, Known
  <2>3. \E st \in Plain : SetStatus(w, st)
    BY <1>2, <2>1 DEF Approve, BlockSubmission
  <2> QED
    BY <1>0, <2>2, <2>3, PlainIsThere, StatusStays DEF MoneyStep
<1>3. CASE Mark(w)
  <2>1. PICK st \in {"provider_failed_terminal", "provider_rejected_terminal",
                     "provider_unknown_reviewed"} : SetStatus(w, st) /\ UNCHANGED posted
    BY <1>3 DEF Mark
  <2>2. st \in Plain /\ Known(w)
    BY <1>3 DEF Plain, Statuses, ProviderHeld, Mark, Locked, Known
  <2> QED
    BY <1>0, <2>1, <2>2, PlainIsThere, StatusStays DEF MoneyStep
<1>4. CASE ResumeSubmission(w) \/ Sync(w)
  <2>1. PICK p \in ProviderStatuses : SetStatus(w, StatusFor(p)) /\ UNCHANGED posted
    BY <1>0, <1>4 DEF ResumeSubmission, Sync
  <2>2. Known(w) /\ StatusFor(p) \in Plain
    BY <1>4, StatusForPlain DEF ResumeSubmission, Sync, Locked, Known
  <2> QED
    BY <1>0, <2>1, <2>2, PlainIsThere, StatusStays DEF MoneyStep
<1>5. CASE Reject(w) \/ Cancel(w) \/ ReleaseProviderFailure(w)
  <2>1. /\ Known(w)
        /\ \E type \in ReleaseTypes :
             \E st \in {"rejected", "cancelled", "provider_failure_released"} :
               Release(w, type, st)
    BY <1>5 DEF Reject, Cancel, ReleaseProviderFailure, ReleaseTypes, Locked, Known
  <2>2. \A st \in {"rejected", "cancelled", "provider_failure_released"} : st # Absent
    BY DEF Absent
  <2> QED
    BY <1>0, <2>1, <2>2, ReleaseStep
<1>6. CASE Finalize(w)
  <2> DEFINE row == [request[w] EXCEPT !.status = "completed", !.finalized = TRUE]
  <2>1. request' = [request EXCEPT ![w] = row] /\ row.status # Absent /\ Known(w)
    BY <1>0, <1>6, RowTypesOf DEF Finalize, LedgerInv, Requests, Absent, Locked, Known
  <2> HIDE DEF row
  <2>2. RowsStay /\ NoneCreated
    BY <1>0, <2>1, RowStays
  <2>3. \/ UNCHANGED posted
        \/ Resolved(w, "withdrawal_finalized") /\ "withdrawal_finalized" \in ResolutionTypes
    BY <1>0, <1>6, <2>1 DEF Finalize, Resolved, ReserveOK, ResolutionTypes
  <2> QED
    BY <2>2, <2>3 DEF MoneyStep
<1>7. CASE ResolveInLedger(w)
  <2>1. PICK t \in {"withdrawal_reversal", "withdrawal_complete"} : Unresolved(w) /\ Post(w, t)
    BY <1>7 DEF ResolveInLedger
  <2>2. t \in ResolutionTypes
    BY DEF ResolutionTypes, ReleaseTypes
  <2>3. posted[w]["withdrawal_reserve"] \in Nat
    BY <1>0, RowTypesOf DEF RowTypes
  <2>4. Resolved(w, t)
    BY <1>0, <1>7, <2>1, <2>3 DEF Resolved, ReserveOK, ResolveInLedger
  <2>5. UNCHANGED request
    BY <1>7 DEF ResolveInLedger
  <2> QED
    BY <2>2, <2>4, <2>5, SameRows DEF MoneyStep
<1> QED
  BY <1>1, <1>2, <1>3, <1>4, <1>5, <1>6, <1>7 DEF Command

LEMMA SessionStep ==
  ASSUME WInv, ReserveInv, NEW s \in Sessions,
         \/ \E w \in Withdrawals : BeginSubmit(s, w)
         \/ \E cb \in Sendable : Receive(s, cb)
         \/ Continue(s)
         \/ Abort(s)
  PROVE  RowsStay /\ MoneyStep
<1>0. LedgerInv /\ FoundInv
  BY DEF WInv, ReserveInv
<1>1. UNCHANGED posted
  BY DEF BeginSubmit, Receive, Continue, ProviderAccepts, CommitSubmit, RejectReplay,
         ApplyUnmatched, ApplyCallback, BreakDeadlock, Abort, tables
<1>2. CASE UNCHANGED request
  BY <1>1, <1>2, SameRows DEF MoneyStep
<1>3. CASE CommitSubmit(s)
  <2>1. session[s] \in SubmittedStates /\ Known(session[s].request)
    BY <1>0, <1>3, KindByOp DEF CommitSubmit, WInv, RestOK, FoundInv, FoundOK
  <2>2. session[s].request \in Withdrawals /\ session[s].status \in ProviderStatuses
    BY <2>1 DEF SubmittedStates
  <2>3. StatusFor(session[s].status) # Absent
    BY <2>2, StatusForPlain, PlainIsThere
  <2> QED
    BY <1>0, <1>1, <1>3, <2>1, <2>2, <2>3, StatusStays DEF CommitSubmit, MoneyStep
<1>4. CASE ApplyCallback(s) /\ request' # request
  <2> DEFINE w == Target(session[s])
  <2>1. session[s].op = "received" /\ w # None
    BY <1>4 DEF ApplyCallback
  <2>2. w \in Withdrawals /\ session[s].callback.status \in ProviderStatuses
    BY <2>1, TargetOf
  <2>3. Known(w)
    BY <1>0, <2>1 DEF FoundInv, FoundOK, Target
  <2>4. \E st \in Plain : SetStatus(w, st)
    <3>1. "review_required" \in Plain
      BY DEF Plain, Statuses
    <3> QED
      BY <1>4, <2>2, <3>1, StatusForPlain DEF ApplyCallback
  <2> HIDE DEF w
  <2> QED
    BY <1>0, <1>1, <2>2, <2>3, <2>4, PlainIsThere, StatusStays DEF MoneyStep
<1>5. CASE ~CommitSubmit(s) /\ ~ApplyCallback(s)
  <2>1. UNCHANGED request
    BY <1>5 DEF BeginSubmit, Receive, Continue, ProviderAccepts, RejectReplay, ApplyUnmatched,
                BreakDeadlock, Abort, tables
  <2> QED
    BY <1>2, <2>1
<1> QED
  BY <1>2, <1>3, <1>4, <1>5

LEMMA StepsOfNext ==
  ASSUME [Next]_vars
  PROVE  \/ UNCHANGED vars
         \/ \E w \in Withdrawals : Command(w)
         \/ \E s \in Sessions :
              \/ \E w \in Withdrawals : BeginSubmit(s, w)
              \/ \E cb \in Sendable : Receive(s, cb)
              \/ Continue(s)
              \/ Abort(s)
BY DEF Next, Crash

LEMMA EveryStep ==
  ASSUME WInv, ReserveInv, [Next]_vars
  PROVE  RowsStay /\ MoneyStep
<1>1. CASE UNCHANGED vars
  BY <1>1, SameRows DEF vars, MoneyStep
<1> QED
  BY <1>1, StepsOfNext, CommandStep, SessionStep

\* A step writes the submission of a request that is in the table.
LEMMA SubmissionStep ==
  ASSUME WInv, ReserveInv, [Next]_vars, NEW w \in Withdrawals, submission'[w] # None
  PROVE  Known(w)
<1>0. /\ FoundInv /\ submission \in [Withdrawals -> ProviderStatuses \cup {None}]
      /\ (submission[w] # None => Known(w))
  BY DEF WInv, ReserveInv, FoundInv, RestOK
<1>1. CASE UNCHANGED submission
  BY <1>0, <1>1
<1>2. ASSUME NEW v \in Withdrawals, NEW p, submission' = [submission EXCEPT ![v] = p], Known(v)
      PROVE  Known(w)
  BY <1>0, <1>2
<1>3. ASSUME NEW v \in Withdrawals, Sync(v)
      PROVE  Known(w)
  BY <1>2, <1>3 DEF Sync, Locked, Known
<1>4. ASSUME NEW v \in Withdrawals, Command(v), ~Sync(v)
      PROVE  UNCHANGED submission
  BY <1>4 DEF Command, Create, Approve, Reject, Cancel, Finalize, ReleaseProviderFailure,
              Mark, ResolveInLedger, ResumeSubmission, BlockSubmission
<1>5. ASSUME NEW s \in Sessions, CommitSubmit(s)
      PROVE  Known(w)
  <2>1. session[s].request \in Withdrawals /\ Known(session[s].request)
    BY <1>0, <1>5, KindByOp DEF CommitSubmit, WInv, RestOK, SubmittedStates, FoundInv, FoundOK
  <2> QED
    BY <1>2, <1>5, <2>1 DEF CommitSubmit
<1>6. ASSUME NEW s \in Sessions, ApplyCallback(s)
      PROVE  Known(w)
  <2> DEFINE x == Target(session[s])
             m == Matched(session[s], x)
  <2>1. session[s].op = "received" /\ x # None
    BY <1>6 DEF ApplyCallback
  <2>2. CASE submission' = [submission EXCEPT ![m] = session[s].callback.status] /\ m # None
    <3>1. x \in Withdrawals
      BY <2>1, TargetOf
    <3>2. m \in Withdrawals
      BY <2>1, <2>2, <3>1, TargetOf
    <3>3. Known(m)
      BY <1>0, <2>1, <2>2, <3>1 DEF FoundInv, FoundOK, Matched
    <3> HIDE DEF m
    <3> QED
      BY <1>2, <2>2, <3>2, <3>3
  <2> HIDE DEF x, m
  <2> QED
    BY <1>1, <1>6, <2>2 DEF ApplyCallback, NeedsReview, x, m
<1>7. ASSUME NEW s \in Sessions,
             \/ \E v \in Withdrawals : BeginSubmit(s, v)
             \/ \E cb \in Sendable : Receive(s, cb)
             \/ ProviderAccepts(s) \/ RejectReplay(s) \/ ApplyUnmatched(s) \/ Abort(s)
      PROVE  UNCHANGED submission
  BY <1>7 DEF BeginSubmit, Receive, ProviderAccepts, RejectReplay, ApplyUnmatched, Abort, tables
<1> QED
  BY <1>1, <1>3, <1>4, <1>5, <1>6, <1>7, StepsOfNext DEF Continue, BreakDeadlock, vars

\* What a transaction has found stays in the table.
LEMMA FoundStays ==
  ASSUME RowsStay, NEW r \in SessionStates, FoundOK(r)
  PROVE  FoundOK(r)'
<1>1. r.op \in {"submitting", "submitted"} => r.request \in Withdrawals
  BY KindByOp DEF SubmittingStates, SubmittedStates
<1>2. r.op = "received" =>
        r.callback.request \in Withdrawals \cup {None} /\ r.found \in Withdrawals \cup {None}
  BY KindByOp DEF ReceivedStates, Callbacks
<1> QED
  BY <1>1, <1>2 DEF RowsStay, FoundOK

\* One transaction moves on, with what it has found.
LEMMA FoundMoves ==
  ASSUME WInv, ReserveInv, RowsStay, NEW s \in Sessions, NEW r, FoundOK(r)',
         session' = [session EXCEPT ![s] = r]
  PROVE  \A t \in Sessions : FoundOK(session[t])'
<1>1. \A t \in Sessions : session[t] \in SessionStates /\ FoundOK(session[t])
  BY DEF WInv, RestOK, ReserveInv, FoundInv
<1>2. ASSUME NEW t \in Sessions
      PROVE  FoundOK(session[t])'
  <2>1. CASE t = s
    <3>1. session'[t] = r
      BY <2>1 DEF WInv, RestOK
    <3> QED
      BY <3>1 DEF FoundOK
  <2>2. CASE t # s
    <3>1. session'[t] = session[t]
      BY <2>2 DEF WInv, RestOK
    <3>2. ASSUME NEW q, q = session[t]
          PROVE  FoundOK(q)'
      BY <1>1, <3>2, FoundStays
    <3> QED
      BY <3>1, <3>2 DEF FoundOK
  <2> QED
    BY <2>1, <2>2
<1> QED
  BY <1>2

LEMMA SessionFinds ==
  ASSUME WInv, ReserveInv, RowsStay, [Next]_vars
  PROVE  \A t \in Sessions : FoundOK(session[t])'
<1>0. FoundInv /\ session \in [Sessions -> SessionStates]
  BY DEF WInv, ReserveInv, RestOK
<1>1. CASE UNCHANGED session
  <2>1. ASSUME NEW t \in Sessions
        PROVE  FoundOK(session[t])'
    <3>1. ASSUME NEW q, q = session[t]
          PROVE  FoundOK(q)'
      BY <1>0, <3>1, FoundStays DEF FoundInv
    <3> QED
      BY <1>1, <3>1 DEF FoundOK
  <2> QED
    BY <2>1
<1>2. ASSUME NEW s \in Sessions, session' = [session EXCEPT ![s] = NoSession]
      PROVE  \A t \in Sessions : FoundOK(session[t])'
  <2>1. FoundOK(NoSession)'
    BY IdleOK DEF FoundOK
  <2> QED
    BY <1>2, <2>1, FoundMoves
<1>3. ASSUME NEW s \in Sessions, NEW w \in Withdrawals, BeginSubmit(s, w)
      PROVE  \A t \in Sessions : FoundOK(session[t])'
  <2> DEFINE r == [op |-> "submitting", request |-> w]
  <2>1. session' = [session EXCEPT ![s] = r] /\ Known(w)
    BY <1>3 DEF BeginSubmit, Locked, Known
  <2>2. FoundOK(r)'
    BY <2>1 DEF FoundOK, RowsStay
  <2> HIDE DEF r
  <2> QED
    BY <2>1, <2>2, FoundMoves
<1>4. ASSUME NEW s \in Sessions, ProviderAccepts(s)
      PROVE  \A t \in Sessions : FoundOK(session[t])'
  <2>1. PICK w \in Withdrawals : w = session[s].request /\ Known(w)
    BY <1>0, <1>4, KindByOp DEF ProviderAccepts, SubmittingStates, FoundInv, FoundOK
  <2>2. PICK p \in ProviderStatuses :
          session' = [session EXCEPT ![s] = [op |-> "submitted", request |-> w, status |-> p]]
    BY <1>4, <2>1 DEF ProviderAccepts
  <2> DEFINE r == [op |-> "submitted", request |-> w, status |-> p]
  <2>3. FoundOK(r)'
    BY <2>1 DEF FoundOK, RowsStay
  <2> HIDE DEF r
  <2>4. session' = [session EXCEPT ![s] = r]
    BY <2>2 DEF r
  <2> QED
    BY <2>3, <2>4, FoundMoves
<1>5. ASSUME NEW s \in Sessions, NEW cb \in Sendable, Receive(s, cb)
      PROVE  \A t \in Sessions : FoundOK(session[t])'
  <2>0. cb \in Callbacks /\ Existing(cb.request)
    BY DEF Sendable
  <2>1. CASE NewNonce(cb.nonce)
    <3>0. PICK f : f = IF cb.external # None /\ submission[cb.external] # None
                       THEN cb.external ELSE None
      OBVIOUS
    <3> DEFINE r == [op |-> "received", callback |-> cb, found |-> f]
    <3>1. session' = [session EXCEPT ![s] = r]
      BY <1>5, <2>1, <3>0 DEF Receive
    <3>2. f # None => f \in Withdrawals /\ Known(f)
      BY <1>0, <2>0, <3>0 DEF Callbacks, FoundInv
    <3>3. cb.request # None => cb.request \in Withdrawals /\ Known(cb.request)
      BY <2>0 DEF Existing, Known, Callbacks
    <3>4. FoundOK(r)'
      BY <3>2, <3>3 DEF FoundOK, RowsStay
    <3> HIDE DEF r
    <3> QED
      BY <3>1, <3>4, FoundMoves
  <2>2. CASE ~NewNonce(cb.nonce)
    <3> DEFINE r == [op |-> "replayed", nonce |-> cb.nonce]
    <3>1. session' = [session EXCEPT ![s] = r] /\ FoundOK(r)'
      BY <1>5, <2>2 DEF Receive, FoundOK
    <3> HIDE DEF r
    <3> QED
      BY <3>1, FoundMoves
  <2> QED
    BY <2>1, <2>2
<1>6. ASSUME NEW s \in Sessions,
             \/ CommitSubmit(s) \/ RejectReplay(s) \/ ApplyUnmatched(s)
             \/ ApplyCallback(s) \/ Abort(s)
      PROVE  session' = [session EXCEPT ![s] = NoSession]
  BY <1>6 DEF CommitSubmit, RejectReplay, ApplyUnmatched, ApplyCallback, Abort
<1>7. ASSUME NEW w \in Withdrawals, Command(w)
      PROVE  UNCHANGED session
  BY <1>7 DEF Command, Create, Approve, Reject, Cancel, Finalize, ReleaseProviderFailure,
              Mark, ResolveInLedger, ResumeSubmission, BlockSubmission, Sync
<1> HIDE DEF FoundOK
<1> QED
  BY <1>1, <1>2, <1>3, <1>4, <1>5, <1>6, <1>7, StepsOfNext DEF Continue, BreakDeadlock, vars

LEMMA FoundKept ==
  ASSUME WInv, ReserveInv, [Next]_vars
  PROVE  FoundInv'
<1>1. RowsStay
  BY EveryStep
<1>2. \A w \in Withdrawals : submission'[w] # None => Known(w)'
  BY <1>1, SubmissionStep DEF RowsStay
<1>3. \A t \in Sessions : FoundOK(session[t])'
  BY <1>1, SessionFinds
<1> QED
  BY <1>2, <1>3 DEF FoundInv

LEMMA PostsOne ==
  ASSUME WInv, NEW w \in Withdrawals, NEW t \in RowTypes, Post(w, t)
  PROVE  /\ \A v \in Withdrawals : v # w => posted'[v] = posted[v]
         /\ \A u \in RowTypes : posted'[w][u] = posted[w][u] + (IF u = t THEN 1 ELSE 0)
         /\ \A v \in Withdrawals, u \in RowTypes : posted[v][u] \in Nat /\ posted'[v][u] \in Nat
<1>1. posted \in [Withdrawals -> [RowTypes -> Nat]]
  BY DEF WInv, LedgerInv
<1>2. posted' = [posted EXCEPT ![w][t] = @ + 1]
  BY DEF Post
<1>3. posted' \in [Withdrawals -> [RowTypes -> Nat]]
  BY <1>1, <1>2
<1>4. posted'[w] = [posted[w] EXCEPT ![t] = @ + 1]
  BY <1>1, <1>2
<1>5. \A v \in Withdrawals : v # w => posted'[v] = posted[v]
  BY <1>1, <1>2
<1> QED
  BY <1>1, <1>3, <1>4, <1>5

LEMMA RowNames ==
  /\ "withdrawal_reserve" \in RowTypes /\ "withdrawal_reserve" \notin ResolutionTypes
  /\ "withdrawal_reversal" \in ReleaseTypes /\ "withdrawal_provider_failure_release" \in ReleaseTypes
  /\ "withdrawal_finalized" \in ResolutionTypes \ ReleaseTypes
  /\ "withdrawal_complete" \in ResolutionTypes \ ReleaseTypes
  /\ ReleaseTypes \subseteq ResolutionTypes /\ ResolutionTypes \subseteq RowTypes
  /\ ReleaseTypes = {"withdrawal_reversal", "withdrawal_provider_failure_release"}
  /\ ResolutionTypes \ ReleaseTypes = {"withdrawal_finalized", "withdrawal_complete"}
BY DEF ReleaseTypes, ResolutionTypes, RowTypes

\* What a creation finds: nothing of the request is in the ledger.
LEMMA CreateFinds ==
  ASSUME WInv, ReserveInv, NEW w \in Withdrawals, Create(w)
  PROVE  /\ ~Known(w) /\ posted[w]["withdrawal_reserve"] = 0
         /\ \A t \in ResolutionTypes : posted[w][t] = 0
         /\ Amount[w] <= Available /\ Post(w, "withdrawal_reserve")
         /\ \A v \in Withdrawals : v # w => request'[v] = request[v]
<1>1. request[w].status = Absent /\ Amount[w] <= Available /\ Post(w, "withdrawal_reserve")
  BY DEF Create, Funded
<1>2. posted[w]["withdrawal_reserve"] = 0
  BY <1>1, RowTypesOf DEF WInv, RowOK
<1>3. \A t \in ResolutionTypes : posted[w][t] = 0
  BY <1>2, RowTypesOf, RowNames DEF WInv, ReserveInv, ReserveOK
<1>4. \A v \in Withdrawals : v # w => request'[v] = request[v]
  BY DEF Create, SetStatus, WInv, LedgerInv
<1> QED
  BY <1>1, <1>2, <1>3, <1>4 DEF Known

LEMMA ReserveKept ==
  ASSUME WInv, ReserveInv, [Next]_vars
  PROVE  ReserveInv'
<1>1. FoundInv' /\ MoneyStep
  BY FoundKept, EveryStep
<1>2. \A v \in Withdrawals : ReserveOK(v)
  BY DEF ReserveInv
<1>3. CASE NoneCreated /\ UNCHANGED posted
  <2>1. \A v \in Withdrawals : ReserveOK(v)'
    BY <1>2, <1>3 DEF NoneCreated, ReserveOK
  <2> QED
    BY <1>1, <2>1 DEF ReserveInv
<1>4. ASSUME NoneCreated, NEW w \in Withdrawals, NEW t \in ResolutionTypes, Resolved(w, t)
      PROVE  ReserveInv'
  <2>1. /\ \A v \in Withdrawals : v # w => posted'[v] = posted[v]
        /\ \A u \in RowTypes : posted'[w][u] = posted[w][u] + (IF u = t THEN 1 ELSE 0)
    BY <1>4, PostsOne, RowNames DEF Resolved
  <2>2. posted'[w]["withdrawal_reserve"] = 1
    BY <1>4, <2>1, RowNames DEF Resolved
  <2>3. \A v \in Withdrawals : ReserveOK(v)'
    BY <1>2, <1>4, <2>1, <2>2 DEF NoneCreated, ReserveOK
  <2> QED
    BY <1>1, <2>3 DEF ReserveInv
<1>5. ASSUME NEW w \in Withdrawals, Create(w)
      PROVE  ReserveInv'
  <2>1. /\ posted[w]["withdrawal_reserve"] = 0 /\ Post(w, "withdrawal_reserve")
        /\ \A v \in Withdrawals : v # w => request'[v] = request[v]
    BY <1>5, CreateFinds
  <2>2. /\ \A v \in Withdrawals : v # w => posted'[v] = posted[v]
        /\ posted'[w]["withdrawal_reserve"] = 1
    BY <2>1, PostsOne, RowNames
  <2>3. ASSUME NEW v \in Withdrawals
        PROVE  ReserveOK(v)'
    BY <1>2, <2>1, <2>2 DEF ReserveOK, Known
  <2> QED
    BY <1>1, <2>3 DEF ReserveInv
<1> QED
  BY <1>1, <1>3, <1>4, <1>5 DEF MoneyStep

\* Available, posting by posting.
LEMMA AvailableMoves ==
  ASSUME WInv, NEW w \in Withdrawals, NEW t \in RowTypes, Post(w, t)
  PROVE  /\ Available \in Int
         /\ Available' = Available - (IF t = "withdrawal_reserve" THEN Amount[w]
                                      ELSE IF t \in ReleaseTypes THEN -Amount[w] ELSE 0)
<1> DEFINE f == [v \in Withdrawals |-> Amount[v] * (posted[v]["withdrawal_reserve"] - Returned(v))]
           g == [v \in Withdrawals |-> Amount[v] * (posted[v]["withdrawal_reserve"] - Returned(v))']
<1>1. /\ \A v \in Withdrawals : v # w => posted'[v] = posted[v]
      /\ \A u \in RowTypes : posted'[w][u] = posted[w][u] + (IF u = t THEN 1 ELSE 0)
      /\ \A v \in Withdrawals, u \in RowTypes : posted[v][u] \in Nat /\ posted'[v][u] \in Nat
  BY PostsOne
<1>2. \A v \in Withdrawals : Amount[v] \in Nat
  BY WithdrawalsAssumption
<1>3. \A v \in Withdrawals : Returned(v) \in Nat /\ Returned(v)' \in Nat
  BY <1>1, RowNames DEF Returned
<1>4. \A v \in Withdrawals : f[v] \in Int /\ g[v] \in Int
  <2>1. \A a, b \in Int : a * b \in Int
    OBVIOUS
  <2> HIDE DEF Returned
  <2> QED
    BY <1>1, <1>2, <1>3, <2>1, RowNames
<1>5. \A v \in Withdrawals \ {w} : g[v] = f[v]
  BY <1>1 DEF Returned
<1>6. g[w] = f[w] + (IF t = "withdrawal_reserve" THEN Amount[w]
                     ELSE IF t \in ReleaseTypes THEN -Amount[w] ELSE 0)
  <2> DEFINE a == Amount[w]
             b == posted[w]["withdrawal_reserve"] - Returned(w)
             d == IF t = "withdrawal_reserve" THEN 1 ELSE IF t \in ReleaseTypes THEN -1 ELSE 0
  <2>1. g[w] = a * (b + d)
    <3>1. (posted[w]["withdrawal_reserve"] - Returned(w))' = b + d
      BY <1>1, RowNames DEF Returned
    <3> HIDE DEF b, d, Returned
    <3> QED
      BY <3>1
  <2>2. f[w] = a * b /\ a \in Int /\ b \in Int /\ d \in Int
    BY <1>1, <1>2, <1>3, RowNames
  <2>3. \A x, y, z \in Int : x * (y + z) = x * y + x * z
    OBVIOUS
  <2>4. a * d = IF t = "withdrawal_reserve" THEN a ELSE IF t \in ReleaseTypes THEN -a ELSE 0
    BY <2>2
  <2> HIDE DEF a, b, d, f, g
  <2>5. g[w] = f[w] + a * d
    BY <2>1, <2>2, <2>3
  <2> QED
    BY <2>4, <2>5 DEF a
<1>7. Available = Funds - Sum(f, Withdrawals) /\ Available' = Funds - Sum(g, Withdrawals)
  <2>1. Total(f) = Sum(f, Withdrawals) /\ Total(g) = Sum(g, Withdrawals)
    BY DEF Sum
  <2> QED
    BY <2>1 DEF Available
<1> HIDE DEF f, g
<1>8. IsFiniteSet(Withdrawals) /\ IntOn(f, Withdrawals) /\ IntOn(g, Withdrawals) /\ Funds \in Int
  BY <1>4, WithdrawalsAssumption DEF IntOn
<1>9. Sum(g, Withdrawals) = Sum(f, Withdrawals) + (g[w] - f[w])
  BY <1>5, <1>8, SumBut
<1>10. Sum(f, Withdrawals) \in Int /\ f[w] \in Int /\ Amount[w] \in Int
  BY <1>2, <1>4, <1>8, SumInt
<1> QED
  BY <1>6, <1>7, <1>8, <1>9, <1>10

LEMMA AvailableStays ==
  ASSUME UNCHANGED posted
  PROVE  Available' = Available
BY DEF Available, Returned

\* The fate of a request's amount is told by its postings.
FateOK(w) ==
  /\ \A t \in ReleaseTypes : posted[w][t] > 0 => HeldAmount(w) = "returned"
  /\ \A t \in ResolutionTypes \ ReleaseTypes : posted[w][t] > 0 => HeldAmount(w) = "paid"

LEMMA FateByPostings ==
  ASSUME WInv, ReserveInv, NEW w \in Withdrawals
  PROVE  /\ HeldAmount(w) = "none" <=> posted[w]["withdrawal_reserve"] = 0
         /\ HeldAmount(w) = "reserved" <=>
              posted[w]["withdrawal_reserve"] = 1 /\ Unresolved(w)
         /\ HeldAmount(w) \in {"none", "reserved", "returned", "paid"}
         /\ FateOK(w)
<1>1. posted[w] \in [RowTypes -> Nat] /\ OneResolution(posted[w]) /\ ReserveOK(w)
  BY RowTypesOf DEF WInv, ReserveInv
<1> DEFINE p == posted[w]
<1>2. /\ \A t \in ResolutionTypes : p[t] \in {0, 1} /\ (p[t] > 0 => p["withdrawal_reserve"] = 1)
      /\ p["withdrawal_reserve"] \in {0, 1}
  BY <1>1, RowNames DEF OneResolution, ReserveOK
<1>3. \A t, u \in ResolutionTypes : p[t] > 0 /\ p[u] > 0 => t = u
  BY <1>1 DEF OneResolution
<1>4. /\ Returned(w) = p["withdrawal_reversal"] + p["withdrawal_provider_failure_release"]
      /\ Paid(w) = p["withdrawal_finalized"] + p["withdrawal_complete"]
  BY DEF Returned, Paid
<1> HIDE DEF p
<1>5. Returned(w) > 0 <=> \E t \in ReleaseTypes : p[t] > 0
  BY <1>2, <1>4, RowNames
<1>6. Paid(w) > 0 <=> \E t \in ResolutionTypes \ ReleaseTypes : p[t] > 0
  BY <1>2, <1>4, RowNames
<1>7. Unresolved(w) <=> ~(Returned(w) > 0) /\ ~(Paid(w) > 0)
  BY <1>2, <1>5, <1>6, RowNames DEF Unresolved, p
<1>8. HeldAmount(w) = IF p["withdrawal_reserve"] = 0 THEN "none"
                      ELSE IF Returned(w) > 0 THEN "returned"
                      ELSE IF Paid(w) > 0 THEN "paid" ELSE "reserved"
  <2> DEFINE A == p["withdrawal_reserve"] = 0
             B == Returned(w) > 0
             C == Paid(w) > 0
  <2>1. ~(A /\ B) /\ ~(A /\ C) /\ ~(B /\ C)
    BY <1>2, <1>3, <1>5, <1>6, RowNames
  <2>2. HeldAmount(w) = CASE A -> "none" [] B -> "returned" [] C -> "paid" [] OTHER -> "reserved"
    BY DEF HeldAmount, p
  <2> HIDE DEF A, B, C
  <2>3. HeldAmount(w) = IF A THEN "none" ELSE IF B THEN "returned" ELSE IF C THEN "paid" ELSE "reserved"
    BY <2>1, <2>2
  <2> QED
    BY <2>3 DEF A, B, C
<1>9. ASSUME NEW t \in ReleaseTypes, p[t] > 0
      PROVE  HeldAmount(w) = "returned"
  BY <1>2, <1>5, <1>8, <1>9, RowNames
<1>10. ASSUME NEW t \in ResolutionTypes \ ReleaseTypes, p[t] > 0
       PROVE  HeldAmount(w) = "paid"
  <2>1. ~(Returned(w) > 0)
    BY <1>3, <1>5, <1>10, RowNames
  <2> QED
    BY <1>2, <1>6, <1>8, <1>10, <2>1, RowNames
<1> QED
  BY <1>2, <1>7, <1>8, <1>9, <1>10 DEF p, FateOK

LEMMA FatePrimed ==
  ASSUME NEW w \in Withdrawals
  PROVE  WInv' /\ ReserveInv' => FateOK(w)'
<1>1. WInv /\ ReserveInv => FateOK(w)
  BY FateByPostings
<1> QED
  BY <1>1, PTL

\* A request is reserved once and resolved once, and what is left was the player's.
FundsInv == ReserveInv /\ Available \in Nat

LEMMA AmountsAreNat == \A w \in Withdrawals : Amount[w] \in Nat
BY WithdrawalsAssumption

\* A posting is a step of WithdrawalFunds, the one it stands for.
LEMMA ReserveRefines ==
  ASSUME WInv, FundsInv, WInv', ReserveInv', NEW w \in Withdrawals, Create(w)
  PROVE  Promise!Reserve(w) /\ Available' \in Nat
<1>1. /\ posted[w]["withdrawal_reserve"] = 0 /\ Post(w, "withdrawal_reserve")
      /\ \A t \in ResolutionTypes : posted[w][t] = 0
  BY CreateFinds DEF FundsInv
<1>2. Amount[w] <= Available
  BY CreateFinds DEF FundsInv
<1>3. Available' = Available - Amount[w]
  BY <1>1, AvailableMoves, RowNames
<1>4. /\ posted'[w]["withdrawal_reserve"] = 1
      /\ \A t \in ResolutionTypes : posted'[w][t] = 0
      /\ \A v \in Withdrawals : v # w => posted'[v] = posted[v]
  BY <1>1, PostsOne, RowNames
<1>5. HeldAmount(w) = "none"
  BY <1>1, FateByPostings DEF FundsInv
<1>6. HeldAmount(w)' = "reserved"
  BY <1>4, RowNames DEF HeldAmount, Returned, Paid
<1>7. \A v \in Withdrawals : v # w => HeldAmount(v)' = HeldAmount(v)
  BY <1>4 DEF HeldAmount, Returned, Paid
<1>8. [v \in Withdrawals |-> HeldAmount(v)]'
        = [[v \in Withdrawals |-> HeldAmount(v)] EXCEPT ![w] = "reserved"]
  BY <1>6, <1>7
<1> HIDE DEF HeldAmount, Available
<1> QED
  BY <1>2, <1>3, <1>5, <1>8, AmountsAreNat DEF Promise!Reserve, FundsInv

LEMMA ResolutionRefines ==
  ASSUME WInv, FundsInv, WInv', ReserveInv',
         NEW w \in Withdrawals, NEW t \in ResolutionTypes, Resolved(w, t)
  PROVE  (Promise!Return(w) \/ Promise!PayOut(w)) /\ Available' \in Nat
<1>1. HeldAmount(w) = "reserved"
  BY FateByPostings DEF Resolved, FundsInv
<1>2. /\ posted'[w][t] > 0
      /\ \A v \in Withdrawals : v # w => posted'[v] = posted[v]
  BY PostsOne, RowNames DEF Resolved
<1>3. Available' = Available + (IF t \in ReleaseTypes THEN Amount[w] ELSE 0)
  BY AvailableMoves, RowNames, AmountsAreNat DEF Resolved
<1>4. /\ t \in ReleaseTypes => HeldAmount(w)' = "returned"
      /\ t \notin ReleaseTypes => HeldAmount(w)' = "paid"
  <2>1. FateOK(w)'
    BY FatePrimed
  <2> QED
    BY <1>2, <2>1 DEF FateOK
<1>5. \A v \in Withdrawals : v # w => HeldAmount(v)' = HeldAmount(v)
  BY <1>2 DEF HeldAmount, Returned, Paid
<1>6. [v \in Withdrawals |-> HeldAmount(v)]'
        = [[v \in Withdrawals |-> HeldAmount(v)] EXCEPT ![w] = HeldAmount(w)']
  BY <1>5
<1> HIDE DEF HeldAmount, Available
<1>7. CASE t \in ReleaseTypes
  BY <1>1, <1>3, <1>4, <1>6, <1>7, AmountsAreNat DEF Promise!Return, FundsInv
<1>8. CASE t \notin ReleaseTypes
  BY <1>1, <1>3, <1>4, <1>6, <1>8 DEF Promise!PayOut, FundsInv
<1> QED
  BY <1>7, <1>8

LEMMA FundsStart ==
  ASSUME Init
  PROVE  Promise!Init /\ FundsInv
<1>1. \A w \in Withdrawals : \A t \in RowTypes : posted[w][t] = 0
  BY DEF Init
<1>2. \A w \in Withdrawals : ~Known(w) /\ submission[w] = None
  BY DEF Init, Known
<1>3. \A s \in Sessions : FoundOK(session[s])
  BY IdleOK DEF Init, FoundOK
<1>4. ReserveInv
  BY <1>1, <1>2, <1>3, RowNames DEF ReserveInv, FoundInv, ReserveOK
<1>5. Available = Funds
  <2> DEFINE f == [v \in Withdrawals |-> Amount[v] * (posted[v]["withdrawal_reserve"] - Returned(v))]
  <2>1. \A v \in Withdrawals : f[v] = 0
    <3>1. \A v \in Withdrawals : posted[v]["withdrawal_reserve"] - Returned(v) = 0
      BY <1>1, RowNames DEF Returned
    <3>2. \A v \in Withdrawals : f[v] = Amount[v] * 0
      BY <3>1
    <3> QED
      BY <3>2, AmountsAreNat
  <2>2. Total(f) = Sum(f, Withdrawals)
    BY DEF Sum
  <2>3. Available = Funds - Total(f)
    BY DEF Available
  <2> HIDE DEF f
  <2>4. Sum(f, Withdrawals) = 0
    BY <2>1, SumZero, WithdrawalsAssumption
  <2> QED
    BY <2>2, <2>3, <2>4, WithdrawalsAssumption
<1>6. \A w \in Withdrawals : HeldAmount(w) = "none"
  <2>1. \A w \in Withdrawals :
          posted[w]["withdrawal_reserve"] = 0 /\ Returned(w) = 0 /\ Paid(w) = 0
    BY <1>1, RowNames DEF Returned, Paid
  <2> QED
    BY <2>1 DEF HeldAmount
<1> QED
  BY <1>4, <1>5, <1>6, WithdrawalsAssumption DEF Promise!Init, FundsInv

LEMMA FundsStep ==
  ASSUME WInv, WInv', FundsInv, [Next]_vars
  PROVE  [Promise!Next]_(Promise!fundsVars) /\ FundsInv'
<1>1. MoneyStep /\ ReserveInv'
  BY EveryStep, ReserveKept DEF FundsInv
<1>2. CASE UNCHANGED posted
  <2>1. Available' = Available /\ \A w \in Withdrawals : HeldAmount(w)' = HeldAmount(w)
    BY <1>2, AvailableStays DEF HeldAmount, Returned, Paid
  <2> HIDE DEF HeldAmount, Available
  <2> QED
    BY <1>1, <2>1 DEF FundsInv, Promise!fundsVars
<1>3. ASSUME NEW w \in Withdrawals, Create(w)
      PROVE  Promise!Next /\ FundsInv'
  <2>1. Promise!Reserve(w) /\ Available' \in Nat
    BY <1>1, <1>3, ReserveRefines
  <2> QED
    BY <1>1, <2>1 DEF Promise!Next, FundsInv
<1>4. ASSUME NEW w \in Withdrawals, NEW t \in ResolutionTypes, Resolved(w, t)
      PROVE  Promise!Next /\ FundsInv'
  <2>1. (Promise!Return(w) \/ Promise!PayOut(w)) /\ Available' \in Nat
    BY <1>1, <1>4, ResolutionRefines
  <2> QED
    BY <1>1, <2>1 DEF Promise!Next, FundsInv
<1> QED
  BY <1>1, <1>2, <1>3, <1>4 DEF MoneyStep

\* The player's balance is never negative, what is reserved was there, and it
\* is resolved at most once: the invariant the refinement rests on.
THEOREM FundsInvariant == Spec => []FundsInv
<1>1. Init => FundsInv
  BY FundsStart
<1>2. WInv /\ WInv' /\ FundsInv /\ [Next]_vars => FundsInv'
  BY FundsStep
<1> QED
  BY <1>1, <1>2, WInvHolds, PTL DEF Spec

\* No history of requests, releases and callbacks overdraws the player.
THEOREM PlayerNeverOverdrawn == Spec => []Promise!FundsTypeOK
<1>1. WInv /\ FundsInv => Promise!FundsTypeOK
  <2> SUFFICES ASSUME WInv, FundsInv PROVE Promise!FundsTypeOK
    OBVIOUS
  <2>1. \A w \in Withdrawals : HeldAmount(w) \in {"none", "reserved", "returned", "paid"}
    BY FateByPostings DEF FundsInv
  <2> HIDE DEF HeldAmount, Available
  <2> QED
    BY <2>1 DEF FundsInv, Promise!FundsTypeOK
<1> QED
  BY <1>1, WInvHolds, FundsInvariant, PTL

\* The request lifecycle, with its provider, its callbacks and its crashes,
\* implements WithdrawalFunds: the amount of a request is set aside once, when it
\* is there, and returned or paid out, once and never both.
THEOREM WithdrawalsImplementFunds == Spec => FundsSpec
<1>1. Init => Promise!Init
  BY FundsStart
<1>2. WInv /\ WInv' /\ FundsInv /\ [Next]_vars => [Promise!Next]_(Promise!fundsVars)
  BY FundsStep
<1> QED
  BY <1>1, <1>2, WInvHolds, FundsInvariant, PTL DEF Spec, FundsSpec, Promise!Spec
=============================================================================
