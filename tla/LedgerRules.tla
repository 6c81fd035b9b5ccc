----------------------------- MODULE LedgerRules -----------------------------
(***************************************************************************)
(* The rules of the accounting core: which commands there are, which       *)
(* ledger row a command posts, what the database constraints say of a row, *)
(* and what a row does to the balance read model.  Pure operators; the     *)
(* concurrent ledger (Ledger) and its abstract promise (SerialLedger)      *)
(* share them.                                                             *)
(*                                                                         *)
(* A ledger transaction is a row with, per account, the total it debits    *)
(* and the total it credits; the rows of the table form a sequence in      *)
(* commit order and a transaction's id is its place in that sequence.      *)
(*                                                                         *)
(* A definition Name_Variant is the definition Name with a plausible       *)
(* mistake in it, kept to show that the properties notice.                 *)
(***************************************************************************)
EXTENDS Sequences, Sums

CONSTANTS
  Accounts,      \* account ids, numbers because rows are locked in id order
  UserAccounts,  \* accounts of a type that may not go negative
  DebitNormal,   \* accounts whose normal balance is debit (clearing, treasury)
  Keys,          \* idempotency keys
  Requests       \* the commands clients send, see Commands

ReserveTypes == {"bet_reserve", "withdrawal_reserve"}

\* The transaction types under the partial unique index
\* ledger_transactions_single_reservation_resolution_idx.
ResolutionTypes ==
  {"bet_release", "bet_capture", "withdrawal_finalized",
   "withdrawal_provider_failure_release", "withdrawal_complete",
   "withdrawal_reversal"}

AdminOnlyTypes == {"manual_adjustment"}

TransactionTypes ==
  ReserveTypes \cup ResolutionTypes \cup AdminOnlyTypes \cup
  {"deposit_pending_credit", "deposit_confirmed_credit",
   "token_purchase_issuance", "settlement_payout", "settlement_house_take",
   "settlement_carryover", "settlement_carryover_apply"}

Amounts == Nat \ {0}

\* No related transaction (ids start at 1).
None == 0

PostTransactions ==
  [op: {"post_transaction"}, key: Keys, type: TransactionTypes,
   debits: [Accounts -> Nat], credits: [Accounts -> Nat],
   related: Nat, override: BOOLEAN]

ReserveCommands ==
  [op: {"reserve_funds"}, key: Keys, type: ReserveTypes,
   source: Accounts, reserve: Accounts, amount: Amounts]

ReleaseCommands ==
  [op: {"release_reserved_funds"}, key: Keys, reservation: Nat]

CaptureCommands ==
  [op: {"capture_reserved_funds"}, key: Keys, reservation: Nat,
   destination: Accounts]

\* Commands that post: each carries an idempotency key, scoped by its type.
PostingCommands ==
  PostTransactions \cup ReserveCommands \cup ReleaseCommands \cup CaptureCommands

\* freezeAccount and unfreezeAccount carry no idempotency key.
StatusCommands == [op: {"freeze", "unfreeze"}, account: Accounts]

Commands == PostingCommands \cup StatusCommands

ASSUME AccountsAssumption ==
  /\ Accounts \subseteq Nat
  /\ IsFiniteSet(Accounts)
  /\ UserAccounts \subseteq Accounts
  /\ DebitNormal \subseteq Accounts
  /\ UserAccounts \cap DebitNormal = {}

ASSUME RequestsAssumption == Requests \subseteq Commands

\* Two commands that share the primary key of idempotency_records.
SameKey(c, d) == c.op = d.op /\ c.key = d.key

-----------------------------------------------------------------------------
(* The row a command posts *)

Rows ==
  [type: TransactionTypes, debits: [Accounts -> Nat],
   credits: [Accounts -> Nat], related: Nat, origin: PostingCommands]

\* One debit entry and one credit entry of the same amount.
TransferRow(type, from, to, amount, related, c) ==
  [type |-> type,
   debits |-> [a \in Accounts |-> IF a = from THEN amount ELSE 0],
   credits |-> [a \in Accounts |-> IF a = to THEN amount ELSE 0],
   related |-> related,
   origin |-> c]

Touched(row) == {a \in Accounts : row.debits[a] > 0 \/ row.credits[a] > 0}

Debited(row) == {a \in Accounts : row.debits[a] > 0}
Credited(row) == {a \in Accounts : row.credits[a] > 0}

\* LedgerTransaction's constructor: entries exist, debits equal credits.
Balanced(c) ==
  /\ \E a \in Accounts : c.debits[a] > 0 \/ c.credits[a] > 0
  /\ Total(c.debits) = Total(c.credits)

PostedRows(c) ==
  {row \in {[type |-> c.type, debits |-> c.debits, credits |-> c.credits,
             related |-> c.related, origin |-> c]} :
     /\ c.type \in AdminOnlyTypes => c.override
     /\ Balanced(c)}

ReleaseType(reservation) ==
  IF reservation.type = "bet_reserve" THEN "bet_release" ELSE "withdrawal_reversal"

CaptureType(reservation) ==
  IF reservation.type = "bet_reserve" THEN "bet_capture" ELSE "withdrawal_complete"

IsReservation(L, r) == r \in DOMAIN L /\ L[r].type \in ReserveTypes

\* The debit entry and the credit entry requireOpenReservation finds.
ReservationEntries(row) ==
  {p \in Debited(row) \X Credited(row) : row.debits[p[1]] = row.credits[p[2]]}

ReleaseRows(c, L) ==
  LET r == L[c.reservation]
  IN IF IsReservation(L, c.reservation)
     THEN {TransferRow(ReleaseType(r), p[2], p[1], r.debits[p[1]],
                       c.reservation, c) : p \in ReservationEntries(r)}
     ELSE {}

CaptureRows(c, L) ==
  LET r == L[c.reservation]
  IN IF IsReservation(L, c.reservation)
     THEN {TransferRow(CaptureType(r), p[2], c.destination, r.debits[p[1]],
                       c.reservation, c) : p \in ReservationEntries(r)}
     ELSE {}

\* The rows command c may post when the committed ledger is L; none when its
\* entries or its reservation are refused before any account is read.
RowsFor(c, L) ==
  CASE c.op = "post_transaction" -> PostedRows(c)
    [] c.op = "reserve_funds" ->
         {TransferRow(c.type, c.source, c.reserve, c.amount, None, c)}
    [] c.op = "release_reserved_funds" -> ReleaseRows(c, L)
    [] OTHER -> CaptureRows(c, L)

\* requireOpenReservation: a release or a capture is refused when any row
\* already refers to the reservation.
StillOpen(c, L) ==
  c.op \in {"release_reserved_funds", "capture_reserved_funds"} =>
    \A i \in DOMAIN L : L[i].related # c.reservation

-----------------------------------------------------------------------------
(* The balance read model *)

Totals == [Accounts -> [debits: Nat, credits: Nat]]

Balance(totals, a) ==
  IF a \in DebitNormal THEN totals[a].debits - totals[a].credits
                       ELSE totals[a].credits - totals[a].debits

Applied_CreditsOnly(totals, row) ==
  [a \in Accounts |-> [debits |-> totals[a].debits,
                       credits |-> totals[a].credits + row.credits[a]]]

\* applyBalanceReadModelUpdate for every entry of the row.
Applied(totals, row) ==
  [a \in Accounts |-> [debits |-> totals[a].debits + row.debits[a],
                       credits |-> totals[a].credits + row.credits[a]]]

\* validatePosting's funds check: entries count as credit minus debit whatever
\* the account's normal balance, and only user accounts are guarded.
Sufficient(totals, row) ==
  \A a \in Touched(row) \cap UserAccounts :
     Balance(totals, a) + (row.credits[a] - row.debits[a]) >= 0

-----------------------------------------------------------------------------
(* What the schema accepts *)

Resolves(row, r) == row.type \in ResolutionTypes /\ row.related = r

\* Two rows the partial unique index does not let coexist.
IndexConflict(row, other) ==
  Resolves(row, row.related) /\ Resolves(other, row.related)

AcceptedBySchema_NoIndex(row, L) ==
  /\ row.type \in ResolutionTypes => row.related # None
  /\ row.related # None => row.related \in DOMAIN L

\* Check constraint, foreign key and unique index against committed rows.
AcceptedBySchema(row, L) ==
  /\ row.type \in ResolutionTypes => row.related # None
  /\ row.related # None => row.related \in DOMAIN L
  /\ \A i \in DOMAIN L : ~IndexConflict(row, L[i])
=============================================================================
