# Verification of nines-financial

nines-financial keeps the money of a racing game: a double-entry ledger on
PostgreSQL, and around it the services that take deposits, bets, settlements and
withdrawals and that let operators intervene. This directory holds TLA+ models of
that code, the TLC configurations that check them, and TLAPS proofs. Paths below
are relative to the repository (`src/...` is the program, `docs/...` its documents).

What runs concurrently is always the same: HTTP requests on several connections and
several processes, each command one `Database.tx` (BEGIN, statements, COMMIT or
ROLLBACK) under PostgreSQL's READ COMMITTED. Every statement sees what is committed
when it begins, so what a command read may be stale when it writes unless the row
is locked (`FOR UPDATE`) or a unique index refuses the write. The models keep exactly
this: the order of reads, locks and writes, and the indexes.

## 1. The system

| Component | State | Operations | Interacts with | Hard part | Correct when |
|---|---|---|---|---|---|
| Accounting core: `PostingEngineService`, `ReservationService`, `IdempotencyService`, `AccountService` | `accounts`, `ledger_transactions`, `ledger_entries`, `account_balances`, `idempotency_records` | post, reserve, release, capture, freeze, unfreeze | called by every service inside its transaction | concurrent commands on one account, key or reservation; lock order; crashes | no overdraft, one effect per key and per reservation, balances are the sum of entries, frozen accounts untouched |
| Balance maintenance | `account_balances` | rebuild | ledger entries | deletes and inserts rows that postings upsert | committed balances match entries |
| Withdrawals | requests, submissions, provider events, receipts, ledger | create, approve, reject, cancel, submit, sync, callback, finalize, release, mark, resolve | ledger, payout provider | the provider cannot be rolled back; callbacks repeat and reorder | status, ledger and provider agree; one payout |
| Deposits | intents, provider events, ledger | create, ingest, link, approve, retry, refuse | ledger, payment provider | no row locks: reads then whole-row writes | a payment credits once, records match the ledger |
| Betting intake | pools, selections, bets | create, register, freeze pool, place bet | ledger, account controls | checks before the transaction; placing against freezing | no bet accepted after the freeze; a bet has its reservation |
| Settlement, financial commands | runs, carryovers, bets | settle, house take, carryover, manual review, void | betting, ledger | calculation before the transaction, two settlements of a race | a race is settled once, payouts are the pool |
| Funding attestations | consumptions, nonces, evidence outbox | consume | ledger, account controls | a lock per attestation where the constraint is per payment | a payment and an intent are consumed once, a replay is answered as a duplicate of the decision |
| Evidence delivery | `security_evidence_outbox` | lease, deliver, retry, dead-letter | external receiver | worker outlives its lease | a late answer never overwrites; all evidence ends |
| Player account controls, provisioning | restrictions, suspensions, freezes, player accounts | apply and lift each; provision | ledger accounts, authorization of every service | read and write without locking the player; first uses that overlap | status and linked accounts agree, nobody is locked out, one account for a player |
| Operations | discrepancies and their history | materialize, transition, rebuild, risk freeze and unfreeze | reads all tables, sends control commands | scans against scans and operators; a risk request is several commands | the history is true, an issue that stays comes back, an unfreeze leaves nothing it found |
| Reconciliation reports of withdrawals, deposits, settlement | none of their own | detect issues | read the tables of their component | a state that no query looks for | money that is stuck is reported, money that is in order is not |
| Money, canonical payloads, handlers, DTOs, migrations, configuration | none of their own | parse, authenticate, format, start | all | proration rounding, equality of payloads | sums are exact |

`PROJECT.json` lists each with its files and status, and under `hazards` what in this
code is hard to test, with the properties that cover it or the reason why none does.

## 2. The modules

| Module | Models | Depends on |
|---|---|---|
| `Sums` | the sum of the values of a function, which balances and pools are made of | |
| `SumTheorems` | the lemmas on sums, and induction on the subsets of a finite set | `Sums`, `TLAPS` |
| `LedgerRules` | what a command posts and which rows the schema accepts | `Sums` |
| `SerialLedger` | the promise of the accounting core: each command one atomic step | `LedgerRules` |
| `Ledger` | the accounting core, statement by statement, several sessions | `LedgerRules`, refines `SerialLedger` |
| `LedgerProofs` | the proofs about `Ledger` | `Ledger`, `SumTheorems`, `TLAPS` |
| `BalanceRebuild` | `rebuildBalances` against postings, row by row | |
| `WithdrawalFunds` | the promise of the withdrawal rails about money | |
| `Withdrawals` | `WithdrawalService`, provider and callbacks | `Sums`, refines `WithdrawalFunds` |
| `WithdrawalProofs` | the proofs about `Withdrawals` and its report | `WithdrawalReconciliation`, `SumTheorems`, `TLAPS` |
| `Deposits` | `DepositService`, provider events, operators | |
| `DepositProofs` | the proofs about `Deposits` | `Deposits`, `TLAPS` |
| `Proration` | `calculatePoolProration`, the division of a pool, and what a fair division is | `Sums` |
| `RacePools` | `BettingIntakeService` and `FinancialCommandService`: bets, pools, settlement, carryovers, reviews | `Proration` |
| `RacePoolProofs` | the proofs about `Proration`, `RacePools` and the settlement report | `SettlementReconciliation`, `SumTheorems`, `TLAPS` |
| `AccountRules` | the account domain's state machine, effective status and rule matrix | |
| `AccountControls` | `AccountControlService`, and the risk controls of `OperationsService` | `AccountRules` |
| `AccountControlProofs` | the proofs about `AccountControls` | `AccountControls`, `TLAPS` |
| `Provisioning` | `PlayerAccountProvisioningService`: the first use of a player | |
| `FundingAttestations` | `FundingAttestationService`, composed with the provisioning of the player | `Provisioning`, `AccountRules` |
| `FundingProofs` | the proofs about `FundingAttestations` and `Provisioning` | `FundingAttestations`, `TLAPS` |
| `EvidenceDelivery` | `SecurityEvidenceDeliveryWorker` | |
| `Discrepancies` | the discrepancies of `OperationsService` | |
| `OperationsProofs` | the proofs about `Discrepancies`, `BalanceRebuild` and `EvidenceDelivery` | these three, `TLAPS` |
| `WithdrawalReconciliation`, `DepositReconciliation`, `SettlementReconciliation` | the reconciliation reports, a query each | `Withdrawals`, `Deposits`, `RacePools` |
| `MCLedger`, `MCBalanceRebuild`, `MCWithdrawals`, `MCDeposits`, `MCRacePools`, `MCAccountControls`, `MCFundingAttestations`, `MCEvidenceDelivery`, `MCDiscrepancies` | the instances TLC checks | |

Operators whose name has an underscore (`LockWaits_NoForUpdate`) are mutations: what
the definition below them would be with a plausible bug. No specification uses them;
put in the place of the definition, each makes TLC report the property it is listed
with in `PROJECT.json`.

**Ledger.** `status`, `totals`, `ledger`, `idem` are the committed tables; `session` is
what each connection is doing. One action per statement: `Lookup` and `InsertKey` are
`IdempotencyService.begin`, `Plan` builds the transaction or reads the reservation,
`LockAccount` is one row of `FOR UPDATE`, `Check` reads balances and validates,
`AppendRow` inserts, `Commit` publishes; `UpdateStatus`, `PublishStatus` freeze and
unfreeze. An uncommitted write is seen by others only as a wait. `Crash` rolls back
anywhere. Amounts are integers as in the code (bigint), the request payload is the
command itself, so equality of payloads is equality of commands.

`BooksAgree` says three things of the books: balances are the sums of entries, a
release or capture moves all that was reserved, and a reserve holds exactly the open
reservations. The last (`ReservesCovered`) is meant for reserves that only the
reservation commands move and whose reservations only these resolve: a transaction
that is posted directly may carry a resolution type and name a reservation
(`POST /ledger/transactions`), and then it resolves the reservation whatever money it
moves. `OtherRelease` in `MCLedger` is such a request, so that the run reaches it.

**BalanceRebuild.** `Ledger` writes a posting's balances in one step because its
accounts are locked. The rebuild does not take these locks, so here the rows are
deleted and written one at a time, and a deleted and reinserted row is another row
(it has an identity), which is why a concurrent DELETE does not see it. `Drift` stands
for a change from outside, the reason the rebuild exists.

**Withdrawals.** Every command locks its request first, so a command that stays inside
the database is one step. Submitting is three (`BeginSubmit`, `ProviderAccepts`,
`CommitSubmit`) because it calls the provider inside its transaction, and a callback is
two (`Receive`, `ApplyCallback`) because it inserts a receipt and reads a submission
before it locks. `payouts` and `reported` are the provider's and survive a rollback.
`crossed` is a history variable: the requests to which a callback was applied that names
the payout of another request, which the code does not refuse (section 3).

**Deposits.** Nothing is locked, so a command reads the event (`IngestNew`, `BeginLink`,
...), then the intent (`ReadIntent`), then decides (`Confirm`, `Approve`, `Link`), and
`Commit` writes the whole rows it computed if the unique indexes admit them.
Callbacks come under an idempotency key of their own, or under the one that the webhook
route makes of the event (`routed`, `depositRoutes.ts:165`). Since nonce and timestamp are
part of the hashed request (`DepositService.ts:279`), no two callbacks of the route are
the same request: once a transaction with the event's key has committed (`keyed`), every
further callback under it is refused, which changes nothing and is no step, and while one
is in flight the others wait (`KeyFree` says that neither is so). A callback that changes
no deposit still completes its key (`AnswerAgain`). `Redeliver` is a confirmed callback under a key of its own.

**Proration.** The arithmetic of a settlement as operators on functions from bets to
stakes: `HouseTake`, `NetPool`, `Base` and `Remainder` of a share, and `Payout`, which
gives the units that rounding leaves to the largest remainders, smaller bet ids first.
`IsFairDivision` says what a division should be without these steps: nothing is lost,
each winner is within one unit of its exact share, and no winner is rounded up before
one with a larger remainder. It is checked on every division that `RacePools` reaches.

**RacePools.** A command looks at the tables, then runs a transaction that looks again.
The looks are `PlaceBet`, `PrepareSettlement`, `PrepareApplication`; what they read is
kept in `session` and may be stale when `AcceptBet`, `RecordRejectedBet`, `SettleRace`,
`SettlementFails` or `LockTarget` run. These transactions lock the row of their pool
first (`getRacePoolForUpdate`), and all they read afterwards is changed under the same
lock only, so each is one step, whatever it posts. The exception is the application of
carryovers: it locks its target (`LockTarget`), and reads the other pools, whose rows
it does not lock, before it marks the carryovers (`ApplyCarryovers`). `pool`,
`selection`, `bet`, `run`, `carryover` are the tables of migrations 004 to 006;
`stakeOf` is the ledger's word on the reservation of a bet; `available`, `locked`,
`clearing`, `rollover` are balances, of which `Ledger` has the postings. What a rule
says of the clock and what the account controls say of a bettor is a choice of the
environment (`Refusable`). `Fail` rolls a transaction back anywhere.

**AccountControls.** A command is `Begin`, `Find` (it reads the player and what it lifts),
`Check` (it reads the controls and asks the state machine) and `Commit`, which writes.
Nothing is locked before the writes, and all commands write in one order, so that the
writes are one step; what matters is what they read before. A command's number is its
time, which decides the order constraints of migration 003. An operator's request is
`Ask`, two queries (`List`), `Plan`, and one command after the other (`Send`,
`Receive`). `raced` remembers that a freeze command committed between another's reads
and writes, which is the only thing `FreezeHolds` and `UnfreezeClears` excuse.

**Provisioning, FundingAttestations.** A delivery looks for an earlier decision
(`LookUp`), provisions the player (`Provision`, the steps of `Provisioning`) and
asks the rules (`Authorise`); its transaction then takes the nonce (`RecordNonce`) and
the lock of the attestation (`Lock`), looks again (`Check`), and commits
(`CommitDecision`, `CommitReplay`). A replay is answered with `duplicate` in the place of
the outcome on record and says what was issued (`Replay`). Time passes (`PassDeadline`) and the player is
frozen (`SwitchFreeze`) between any two steps. `issued` is the ledger's word.

**EvidenceDelivery.** `Lease`, `Post` and `Settle` are the three statements of the worker's
loop; `Pass` is the end of `next_attempt_at`, of a retry's wait as of a lease. `Die`,
`Mistake` and a lease that ends under a worker at work are faults, which are counted:
without a bound an event could be leased and lost for ever, because attempts beyond
the last do not give an event up unless its worker lives to say so.

**Discrepancies.** A scan asks the detectors (`Detect`), then locks key after key
(`LockNext`) and commits (`Commit`). An operator's command is `Read`, which locks, and
`Write`. Issues come and go by themselves (`Toggle`).

**The reports.** `WithdrawalReconciliation`, `DepositReconciliation` and
`SettlementReconciliation` add no step: each query is an operator on the tables of its
component, and the property says which money that is stuck some query finds.

Modules that are extended together, as `Discrepancies`, `BalanceRebuild` and
`EvidenceDelivery` are by `OperationsProofs`, share no name: what is `Init`, `Next`, `Spec`,
`TypeOK` elsewhere is `InitRebuild`, `RebuildSpec`, `DeliveryTypeOK` there.

## 3. The runs

| Run | Question | Bounds, and why they are enough |
|---|---|---|
| `ledger` | Is the interleaved ledger the serial one, does no key and no reservation take effect twice, do the books agree; is every request answered? | two connections, three accounts, four ledger rows: a deposit, a reservation and two competing resolutions are the longest conflict; among the resolutions one that moves other money than was reserved; requests take the accounts in both directions, so that a circle of two connections would show |
| `balance_rebuild` | Do balances match entries while rebuilds run? | two connections, three accounts, two postings, two rebuilds, one drift: a row may be missing, old, and rewritten |
| `withdrawal_lifecycle` | Do status, ledger and provider agree, do repeats count once, is held money reported? | one request, two connections, two callbacks, so that two callbacks, or a callback and any command, race; all statuses the provider may report; crashes |
| `withdrawal_funds` | Does the money follow `WithdrawalFunds`; do callbacks end? | two requests that together exceed the balance, crossed callbacks, crashes |
| `deposit_payment` | Does a payment credit once, do records match the ledger, is no confirmed payment lost? | two events of one payment, two intents of which one may expire, two connections, failures |
| `deposit_live` | Does an event that is confirmed again under new keys get decided, whatever the route's key did before? | two payments for one intent, two connections, one event that also has the route's key |
| `race_settlement` | Does the money follow bets, runs and carryovers, is each race settled whole and fairly, is stuck money reported, do stale looks do no harm? | two connections; two races, so that one carries over to the other; three bet ids, of which two divide a pool that leaves a unit, and one id is used for two bets; stakes 1 and 2, house takes of a half and of all; one race under review, one releasable bet, one house take apart |
| `account_controls` | Is nobody locked out, does a freeze hold, does an unfreeze clear? | four commands, two at a time: two freezes, or a freeze and a lift, overlap and a third and fourth meet what they left; one operator, whose requests send commands of their own |
| `discrepancies` | Is the history true, do scans not wait in a circle, do issues come back? | two issues, the fewest that can be locked in two orders; two scans and an operator |
| `funding_attestations` | Is everything decided once, do answers stand, does late stay late? | two attestations of different payments for one intent, two payloads, two nonces, two connections that deliver again and again; the payments differ, so that here the index on intents decides, while the theorem also covers that on sources |
| `evidence_delivery` | Do ends stay, does all evidence end? | two events, of which one waits behind the other; two workers, three attempts, two faults, so that a lease is lost and another outlived |
| `deposit_twice` | a sentence of the documents that the code does not keep | the smallest instance that shows it |

`CHECK_DEADLOCK FALSE` where the system really may stop: requests, commands and events
are finite, so everything may be finished, and a bound on rebuilds or ledger rows is
reached. Connections, nonces and payloads are symmetric where a run checks no liveness.

`ledger`, `balance_rebuild`, `deposit_payment`, `account_controls`, `discrepancies` and
`evidence_delivery` check no type invariant of their own: there it is a theorem, or
part of an invariant that is (section 4). The other modules have it in their run. A circle of waiting connections of the ledger would break
`RequestsFinish`.

**Fairness.** Strong fairness on the steps of a transaction that has begun: statements
execute, PostgreSQL grants locks in queue order and its deadlock detector ends one
of a circle. Crashes and commands have none: nobody has to call. In `Deposits`
nothing waits for a lock that could be taken away, so weak fairness of a transaction's
steps is enough; that confirmed callbacks keep coming under new keys is no fairness of
the code, which makes no such keys, but the premise of `ConfirmedIsDecided`, as it is in
the sentence of `docs/phase-4-deposit-rails.md:72` that the property states. In `EvidenceDelivery` the fairness is weak: a worker
polls in a loop and its post is ended by a timeout, so `Lease`, `Post` and `Settle` are
taken when they stay possible, and time passes. `IssuesComeBack` assumes no fairness:
it says what follows when scans keep committing. `RacePools` states no liveness: a
settlement can really fail for ever (a stake that was released can no longer be
captured), and no command of that module waits for another beyond the lock of one
pool. `AccountControls` and `FundingAttestations` state none either: nobody has to call.

### What the documents say and the code does not do

The run `deposit_twice` shows that the second payment to a credited intent erases the
status that would have stopped it (`DepositService.ts:1231`, against
`docs/phase-4-1-deposit-hardening.md:51`). Building the models showed six more, which have
no run of their own:

- The webhook route makes its key of the provider and the event only
  (`depositRoutes.ts:167`), but the request under it holds nonce and timestamp. The second
  callback about an event fails with `IDEMPOTENCY_PAYLOAD_MISMATCH`
  (`IdempotencyService.ts:133`), against `docs/phase-4-deposit-rails.md:68`: "Duplicate
  provider callbacks with the same provider event return the original logical result."
  When the first was unconfirmed, the confirmation is refused each time it comes: the
  event awaits it until a callback comes with a new key. Its row does not say `confirmed`,
  so that of the modelled queries only the one for expired intents may show it.
- A callback that names one request and the payout of another is an external reference
  mismatch, of which `docs/phase-5-3-withdrawal-production-security.md:53` says that it
  is kept for review. `matchWithdrawalProviderEvent` (`WithdrawalService.ts:1541`)
  compares the callback with the submission it found by the external id, not with the
  one of the named request: it updates that submission and moves the named request,
  which an operator may then finalize although its own payout failed. This is why
  `RecordsAgree` excepts the requests that are `crossed`: with two requests at the
  provider and `CrossedShapes`, `FollowsProvider` fails for them in fourteen states.
- A mismatching callback sends a submitted withdrawal back to `review_required`
  (`WithdrawalService.ts:1648`), where it may be rejected and the funds returned, against
  `docs/phase-5-1-withdrawal-provider-boundary.md:28`. The same happens without a
  callback when the transaction that called the provider is lost: the withdrawal is
  `approved` again. The stable provider key keeps the provider from paying twice
  (`RepeatsCountOnce`); it does not keep the ledger from giving the money back.
- A status sync takes a withdrawal out of a terminal decision
  (`WithdrawalService.ts:793`, against `docs/phase-5-2-withdrawal-finalization.md:30`).
- A refusal that overlaps an approval ends rejected and credited
  (`DepositService.ts:576`, against `docs/phase-4-deposit-rails.md:158`).
- The answer to a bet that is sent again is made from the row as it is now
  (`BettingIntakeService.ts:1247`), so once the race is settled an accepted bet is
  answered as not accepted, against
  `docs/blueprint/nines-financial-v0.1-implementation-spec.md:1069`.

### What the models show and no document decides

- A transaction of a resolution type that is posted directly resolves the reservation it
  names, whatever accounts and amounts its entries have: the reserve then keeps money
  that no open reservation accounts for (the case that `ReservesCovered` leaves out).
- A bet whose reservation was released by id stays accepted, and its race can then not
  be settled but only voided; voiding a pool leaves its locked stakes, and what was
  carried into it, where they are, and no report shows it. `MoneyAccounted` holds all
  the same: the money is accounted for, not returned.
- A house take that is posted apart from a settlement is an error of the report once
  its race is settled, unless a carryover of that race is pending, which hides it. The
  report's queries each see the tables of their own moment, so that a settlement that
  commits in between is reported as a completed run of a pool that is not settled.
- The withdrawal report finds all held money but two cases: a review of an unknown
  outcome that an operator closed, and a request that was approved again although it
  has a submission.
- A duplicate deposit event that names a credited intent is reported as one that was
  credited and not finalized.
- Two freezes, or a freeze and a lift, of one player that overlap may leave an active
  freeze on ledger accounts that are open, or two active freezes, of which a lift ends
  one (`raced`).
- A control that was found is lifted although it has expired in between; a restriction
  that has expired but was not lifted is still listed as a risk control, and makes the
  unfreeze fail at its lift. The constraint that `status_changed_at` lies in order fails
  commands that began before another one committed. The idempotency keys of control
  commands are stored nowhere, so that a restriction that is sent again is applied
  again.
- A scan that began before another one opened an issue fails as a whole when it comes
  to that issue, because it would set `last_detected_at` before `first_detected_at`.
- Of two overlapping first uses of one player the later one fails, or is told the
  other's account, depending on the statement at which they meet: after a conflict
  PostgreSQL refuses the query with which the adapter looks for the other's ledger
  account. A retry succeeds.
- An attestation that went to review uses up its intent: another payment for that
  intent is refused with the message that it already had an economic effect.

## 4. The proofs

All theorems hold for every set of sessions, accounts, keys, requests, intents,
events, payments, races, bets, commands, operators, issues and scans; the assumptions
are the named `ASSUME`s of the modules, which say what the constants are. Accounts,
withdrawals, races and bets are assumed finite, because balances are sums over them.
Every safety property of section 3 is a theorem.

**Sums.** `Total` folds over a set in an order that `CHOOSE` decides, so that nothing
about it is obvious. `SumTheorems` takes the recursive function that is in its
definition and shows that it is defined on all subsets (`TotalUnfolds` and what follows),
that one element may be added or taken out whichever it is, and from this that sums
are integers, additive, monotone and linear, and do not depend on an order. These are
inductions on finite sets, for which the induction theorems of the library, whose
parameter is an operator, are of no use to the installed provers. Their place is taken
by `SubsetInduction`: the facts that hold form a set, and strict inclusion on the
subsets of a finite set is well-founded, so that a smallest counterexample exists and
is refuted.

**Ledger.** The properties are not inductive: that a committed row respects an index
or a balance depends on what its session read several steps earlier. `IInv` says
what each statement has established and why it still holds: a session past
`LockAccount` holds the rows it touches, so the balances and statuses it read are the
current ones (`LocksOK`, `CheckedOK`); a session past `InsertKey` is the only one with
its key; two sessions at `commit` do not resolve the same reservation (`Exclusive`);
and every completed key names the row of its command (`Recording`). There is one
lemma for each action, and `Commit` is the only one that changes the tables.
From `IInv` follow `TypeCorrect`, `UserFundsNeverNegative`, `ReservationsResolveOnce`,
`KeysPostOnce` (together `EffectsHappenOnce`), `AnswersAreFaithful`, `FrozenAccountsTakeNoPosting`, and
`LedgerImplementsSerial`: `Commit` is `Execute`, `PublishStatus` is `SetStatus`, all else
stutters.

`BooksAlwaysAgree` rests on `BooksInv`: balances are the sums over all rows (a commit adds
one term to each sum), and each row is one that its command may post
(`Provenance`; rows are only appended, so what it names stays). From `Provenance` follows that a release or
capture mirrors its reservation. For a reserve, the rows that credit it are split into
those that are resolved and those that are open; its debits are those of the resolving
rows, and since each reservation has one resolution (`SingleResolution`), resolving rows
and resolved reservations correspond one to one, with equal amounts. What remains is the
sum of the open ones. The attempt to prove this is what showed that a directly posted
resolution has to be excepted (section 2).

**Deposits.** See `DepositProofs`: a transaction that is about to write `credited` is
the only one the indexes admit for its payment; and a transaction that rewrites an
intent or an event it read never writes `credited` without posting. With them goes
that a duplicate names a payment that was credited, from which
`NoConfirmedPaymentIsLost` follows by looking at the statuses an event can have.

**RacePools.** `SettledCompletely` lacks what makes it inductive: that a bet has a
reservation exactly when it was accepted, so that a bet which appears can have no
captured stake, and that a settling transaction divides between all accepted bets of
its race (`DivisionBets`, `SettledBets`). `PoolInv` adds the first; from it follow
`SettledCompletelyHolds` and `ClosedPoolTakesNoBetsHolds`. For `CarriedOnceHolds`,
`CarryInv` says what the lock of the target is good for: from the look at the pools to
the marking of the carryovers the target keeps the status that was seen
(`LockedWhileApplying`), and only settled races, which do not settle again, have
carryovers.

`DivisionIsFair` is about `Proration` alone, for all stakes, winners, carryovers and house
takes: the bases and remainders of the winners add up to the pool, so that what is left
over is less than the number of winners; those that come before a winner in the order of
remainders are counted, and exactly so many counts are below the leftover as there are
units in it, so the payouts add up to the pool.

`MoneyInv` says of each bettor that his locked balance is the sum of the stakes that are
locked, and that with the available one it is what he had, plus what the captured bets
gained or cost him (`UsersBalanced`); and of each race what its clearing and rollover accounts hold
(`PoolsAccounted`). Each action changes one term of these sums, or those of the bets of
one race: a settlement moves all accepted stakes of a race from locked to captured,
which is where `DivisionBets` and `DivisionIsFair` are needed. `MoneyAccountedHolds`,
`FairSettlementHolds` and `TypeOKHolds` (no balance of a bettor is negative) follow, and
with `PoolsExist` `StuckMoneyIsReportedHolds`: each query of the report asks for one of
the ways in which the sums leave money with a race.

**Withdrawals.** Four invariants, each for one reason. `LedgerInv`: the row of a request
and its postings agree (`RowOK`), and a reservation is resolved once (`OneResolution`),
because each command checks under the lock of the request; all it needs of a step is
the row it writes (`RowMoves`). `NonceInv`: a transaction that is to record an event
has a nonce that is free and that no other has, one that is to record a replay has a
nonce that is used. From these follow `RepeatsNeverCountTwice`, `OutcomesRespected`
and `HeldMoneyStaysReported`. `SaidInv`: each decisive word that a submission, a
status, a posting or a transaction in flight takes for the provider's about a
request, the provider has said of that request, or the request is `crossed`. A callback
that agrees with a payout names that payout's request or none, and where it does not,
applying it adds the named request to `crossed` and gives its submission nothing: the
word goes to the submission the payout belongs to. So the invariant needs no assumption
about the callbacks, and `RecordsAlwaysAgree` says of all of them that status and ledger
agree for every request, and that money follows the provider's word about the request's
own payout for every request that is not `crossed` (section 3 has why not for those).
Crossed callbacks that move money need two requests at the provider, which the runs do
not have: here the theorem says more than they do.

`FundsInv` asks nothing of callbacks either: a request is reserved once, only what is reserved is
resolved, and what the player has left is not negative. All it asks of an action is
`MoneyStep`: it posts nothing, or resolves one reservation that is open, or creates one
request whose amount is available. Such a step changes the sum of the held amounts by
one term, so that it is a `Reserve`, `Return` or `PayOut` of `WithdrawalFunds` or a stutter:
`WithdrawalsImplementFunds`. `PlayerNeverOverdrawn` is the same invariant, seen through
the mapping.

**BalanceRebuild.** `BalancesMatchEntries` holds at a rebuild's commit because the entries
it summed are still the entries (`Verified`), for which no two transactions may have
written one row (`Exclusive`): a rebuild that has inserted all rows keeps every posting
from committing, and a posting holds a row the rebuild needs.

**AccountControls.** `CInv` adds to `NoStrandedFreeze` and `FreezeHolds` what a command has
read and why it is still so (`ViewsHold`): unless a freeze command committed between the
reads and the writes of another (`raced`), one about to apply saw no active freeze and
there is none, one about to lift found the only one. `UInv` follows one request to
unfreeze: every restriction it lists is lifted, still to be sent, or the target of the
command under way, from which `UnfreezesClear` follows when nothing is left.

**Discrepancies.** `LocksInOrder`: a scan holds the locks of the issues it found that come
first, so that in a circle of waiting scans each would wait for a later key than
the one before (`ScansDoNotBlock`). `HistoryStaysTrue` needs that a key is locked once.

**EvidenceDelivery.** A lease that has ended goes to another worker under a higher attempt.
`EInv`: a worker's attempt was counted, and no two workers have the same attempt at an
event. So of all the workers that hold an event at most one passes `StillLeased`, the
last that leased it (`AttemptsHaveOneWorker`), and it changes an event that is open
(`EndsStayHolds`).

**FundingAttestations.** Two invariants, one for each part. `PInv`: one caller at most is
creating the player's accounts, and those it links are its own or committed ones.
`DeliveryInv`: what a delivery has established, and what no two hold together (a nonce,
the lock of an attestation). Of the deliveries of one attestation, only the one that
decided it is answered with the decision: a later one finds it and is answered with a
duplicate. A player who is there stays, which is all one part needs of
the other. From them follow `OnePlayerAccountHolds`, `AttestationsDecidedOnce`,
`AnswersStandHolds` and `LateIsNotIssued`.

Only model-checked is liveness, which TLAPS does not reach: `RequestsFinish`,
`AllFinish`, `CallbacksFinish`, `ConfirmedIsDecided`, `IssuesComeBack`, `EvidenceEnds`. The
violation that `deposit_twice` finds is a counterexample and needs no proof.

## 5. Plan

All modules of the plan are written and all their safety properties proved. What would
come next, the most useful first:

1. The queries of the withdrawal report that read provider events, for which
   `Withdrawals` would have to keep events and not count them.
2. `reserveStake`, as one more command of `RacePools`.
3. An abstract specification of a race's pool, of which `MoneyInv` is nearly the
   refinement mapping.

## 6. Not modelled, and why

- HTTP parsing, authentication, response shaping and DTOs, money parsing and canonical
  payloads keep no state. The amounts of the models are integers and the payloads
  values, so equality of payloads is equality.
- Migrations, wiring and configuration are start-up code; of the migrations the models
  have the constraints and indexes that a command can meet.
- Account creation in the ledger: accounts exist from the start, but for a player's,
  which `Provisioning` creates.
- Signatures, timestamps and nonce formats of callbacks are abstracted to whether a nonce
  was used; the receipts of webhooks to the nonces.
- `reserveStake`, which reserves as `Ledger` has it.
- The rows in which `runSettlementReconciliation` stores its result, and the queries of
  the withdrawal report that read provider events: the reports are modelled as what
  their other queries say of a state.
- The operations views (timelines, searches, reviews of a player) and the player account
  queries read tables and change nothing.
- The generic outbox repository, which no worker of this repository reads, and the text and audit
  rows that a command appends in its own transaction: they commit or vanish with it and
  no command reads them.
