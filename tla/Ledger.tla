------------------------------- MODULE Ledger -------------------------------
(***************************************************************************)
(* The accounting core on its database: PostingEngineService,              *)
(* ReservationService, AccountService.freeze/unfreeze and                  *)
(* IdempotencyService, each call one READ COMMITTED database transaction   *)
(* whose statements interleave with those of the other sessions.           *)
(*                                                                         *)
(* status, totals, ledger and idem are the committed tables.  What a       *)
(* session has written but not committed is in its own record and other    *)
(* sessions only meet it as a wait: on an account row (FOR UPDATE), on the *)
(* primary key of idempotency_records, on the unique resolution index.     *)
(***************************************************************************)
EXTENDS LedgerRules

CONSTANTS
  Sessions,   \* database connections serving requests
  MaxLedger,  \* bound of the model on the length of the ledger, see Startable
  NoCommand, NoRow

VARIABLES
  status,   \* accounts.status
  totals,   \* account_balances: total debits and credits of each account
  ledger,   \* ledger_transactions with their entries, in commit order
  idem,     \* completed idempotency_records: the command and the row it posted
  session   \* what each connection is doing

tables == <<status, totals, ledger, idem>>
vars == <<status, totals, ledger, idem, session>>

\* Where a session stands: the statement it executes next.
PCs == {"idle",      \* no request; the last answer, if any, is kept
        "lookup",    \* IdempotencyService.begin: getByKey
        "insert",    \* IdempotencyService.begin: createIfAbsent
        "plan",      \* build the transaction, or read the reservation
        "lock",      \* SELECT ... FOR UPDATE, one account after the other
        "check",     \* read the balances, validate
        "append",    \* INSERT ledger_transactions, entries and balances
        "commit",    \* complete the idempotency record, COMMIT
        "update",    \* freeze, unfreeze: UPDATE accounts
        "publish"}   \* freeze, unfreeze: COMMIT

SessionRecords ==
  [pc: PCs, cmd: Commands \cup {NoCommand},
   held: SUBSET Accounts,      \* account rows it has locked
   refused: SUBSET Accounts,   \* locked rows whose status is not active
   row: Rows \cup {NoRow},     \* the ledger transaction it posts
   answer: Nat]                \* id returned to the client, None on an error

Idle(c, answer) ==
  [pc |-> "idle", cmd |-> c, held |-> {}, refused |-> {}, row |-> NoRow,
   answer |-> answer]

TypeOK ==
  /\ status \in [Accounts -> {"active", "frozen"}]
  /\ totals \in Totals
  /\ ledger \in Seq(Rows)
  /\ idem \subseteq [cmd: PostingCommands, tx: Nat]
  /\ session \in [Sessions -> SessionRecords]

Init ==
  /\ status = [a \in Accounts |-> "active"]
  /\ totals = [a \in Accounts |-> [debits |-> 0, credits |-> 0]]
  /\ ledger = <<>>
  /\ idem = {}
  /\ session = [s \in Sessions |-> Idle(NoCommand, None)]

-----------------------------------------------------------------------------
(* Waiting *)

Others(s) == Sessions \ {s}

\* s has inserted its idempotency record and not committed it.
HoldsKey(s) == session[s].pc \in {"plan", "lock", "check", "append", "commit"}

\* s has inserted its ledger transaction and not committed it.
HoldsRow(s) == session[s].pc = "commit"

LockWaits_NoForUpdate(s, a) == {}

\* Sessions that hold the lock of account row a.
LockWaits(s, a) == {t \in Others(s) : a \in session[t].held}

KeyWaits_ReadOnly(s) == {}

\* Sessions whose uncommitted idempotency record has the key s inserts.
KeyWaits(s) ==
  {t \in Others(s) : HoldsKey(t) /\ SameKey(session[t].cmd, session[s].cmd)}

\* Sessions whose uncommitted row the unique index makes s wait for.
RowWaits(s) ==
  {t \in Others(s) : HoldsRow(t) /\ IndexConflict(session[s].row, session[t].row)}

\* FOR UPDATE takes the rows ORDER BY account_id.
NextToLock_AnyOrder(s) == Touched(session[s].row) \ session[s].held

NextToLock(s) ==
  LET missing == Touched(session[s].row) \ session[s].held
  IN {a \in missing : \A b \in missing : a <= b}

-----------------------------------------------------------------------------
(* The steps of a request *)

\* ROLLBACK and an error to the client.
Fail(s) ==
  /\ session' = [session EXCEPT ![s] = Idle(@.cmd, None)]
  /\ UNCHANGED tables

\* The bound of the model: once MaxLedger rows exist only requests start that
\* cannot add one, those whose key has posted already and status changes.
Startable ==
  {c \in Requests : \/ Len(ledger) < MaxLedger
                     \/ c \in StatusCommands
                     \/ \E rec \in idem : SameKey(rec.cmd, c)}

Begin(s) ==
  /\ session[s].pc = "idle"
  /\ \E c \in Startable :
       session' = [session EXCEPT ![s] =
         [Idle(c, None) EXCEPT
            !.pc = IF c \in StatusCommands THEN "update" ELSE "lookup"]]
  /\ UNCHANGED tables

Resolve_NoHash(s, rec) ==
  /\ session' = [session EXCEPT ![s] = Idle(@.cmd, rec.tx)]
  /\ UNCHANGED tables

\* resolveExistingRecord: replay the answer, or refuse another payload.
Resolve(s, rec) ==
  \/ /\ rec.cmd = session[s].cmd
     /\ session' = [session EXCEPT ![s] = Idle(@.cmd, rec.tx)]
     /\ UNCHANGED tables
  \/ rec.cmd # session[s].cmd /\ Fail(s)

Recorded(s) == {rec \in idem : SameKey(rec.cmd, session[s].cmd)}

Lookup(s) ==
  /\ session[s].pc = "lookup"
  /\ \/ \E rec \in Recorded(s) : Resolve(s, rec)
     \/ /\ Recorded(s) = {}
        /\ session' = [session EXCEPT ![s] = [@ EXCEPT !.pc = "insert"]]
        /\ UNCHANGED tables

\* INSERT ... ON CONFLICT DO NOTHING waits for an uncommitted record of the
\* key; then the record is ours, or is another's and is read again.
InsertKey(s) ==
  /\ session[s].pc = "insert"
  /\ KeyWaits(s) = {}
  /\ \/ \E rec \in Recorded(s) : Resolve(s, rec)
     \/ /\ Recorded(s) = {}
        /\ session' = [session EXCEPT ![s] = [@ EXCEPT !.pc = "plan"]]
        /\ UNCHANGED tables

\* Build the transaction; for a release or a capture from the reservation
\* that is read here, without a lock.
Plan(s) ==
  /\ session[s].pc = "plan"
  /\ \/ /\ StillOpen(session[s].cmd, ledger)
        /\ \E row \in RowsFor(session[s].cmd, ledger) :
             session' = [session EXCEPT ![s] =
                           [@ EXCEPT !.pc = "lock", !.row = row]]
        /\ UNCHANGED tables
     \/ /\ ~StillOpen(session[s].cmd, ledger) \/ RowsFor(session[s].cmd, ledger) = {}
        /\ Fail(s)

LockAccount(s) ==
  LET r == session[s] IN
  /\ r.pc = "lock"
  /\ \E a \in NextToLock(s) :
       /\ LockWaits(s, a) = {}
       /\ session' = [session EXCEPT ![s] =
            [r EXCEPT
               !.held = r.held \cup {a},
               !.refused = IF status[a] = "active" THEN r.refused ELSE r.refused \cup {a},
               !.pc = IF Touched(r.row) \subseteq r.held \cup {a} THEN "check" ELSE "lock"]]
  /\ UNCHANGED tables

\* validatePosting on the locked rows and on balances read after the lock.
Check(s) ==
  /\ session[s].pc = "check"
  /\ \/ /\ session[s].refused = {}
        /\ Sufficient(totals, session[s].row)
        /\ session' = [session EXCEPT ![s] = [@ EXCEPT !.pc = "append"]]
        /\ UNCHANGED tables
     \/ /\ session[s].refused # {} \/ ~Sufficient(totals, session[s].row)
        /\ Fail(s)

\* appendTransaction; a violated constraint is an error and a rollback.
AppendRow(s) ==
  /\ session[s].pc = "append"
  /\ RowWaits(s) = {}
  /\ \/ /\ AcceptedBySchema(session[s].row, ledger)
        /\ session' = [session EXCEPT ![s] = [@ EXCEPT !.pc = "commit"]]
        /\ UNCHANGED tables
     \/ ~AcceptedBySchema(session[s].row, ledger) /\ Fail(s)

\* IdempotencyService.complete and COMMIT: the writes become visible and the
\* locks are gone.
Commit(s) ==
  /\ session[s].pc = "commit"
  /\ ledger' = Append(ledger, session[s].row)
  /\ totals' = Applied(totals, session[s].row)
  /\ idem' = idem \cup {[cmd |-> session[s].cmd, tx |-> Len(ledger) + 1]}
  /\ session' = [session EXCEPT ![s] = Idle(@.cmd, Len(ledger) + 1)]
  /\ UNCHANGED status

\* updateAccountStatus: the row lock is the UPDATE's own.
UpdateStatus(s) ==
  /\ session[s].pc = "update"
  /\ LockWaits(s, session[s].cmd.account) = {}
  /\ session' = [session EXCEPT ![s] =
       [@ EXCEPT !.pc = "publish", !.held = {session[s].cmd.account}]]
  /\ UNCHANGED tables

PublishStatus(s) ==
  /\ session[s].pc = "publish"
  /\ status' = [status EXCEPT ![session[s].cmd.account] =
                  IF session[s].cmd.op = "freeze" THEN "frozen" ELSE "active"]
  /\ session' = [session EXCEPT ![s] = Idle(@.cmd, None)]
  /\ UNCHANGED <<totals, ledger, idem>>

\* The process dies, the connection drops or a statement fails before COMMIT.
Crash(s) == session[s].pc # "idle" /\ Fail(s)

Step(s) ==
  \/ Lookup(s) \/ InsertKey(s) \/ Plan(s) \/ LockAccount(s) \/ Check(s)
  \/ AppendRow(s) \/ Commit(s) \/ UpdateStatus(s) \/ PublishStatus(s)

Next == \E s \in Sessions : Begin(s) \/ Step(s) \/ Crash(s)

Spec == Init /\ [][Next]_vars

\* PostgreSQL grants row locks in queue order, so a waiting statement whose
\* turn keeps coming up is eventually executed.
Fairness == \A s \in Sessions : SF_vars(Step(s))

LiveSpec == Spec /\ Fairness
-----------------------------------------------------------------------------
(* Properties *)

\* "user available and locked balances may not go negative": whatever the
\* interleaving, the committed balance of a user account stays at or above 0.
NonNegative == \A a \in UserAccounts : Balance(totals, a) >= 0

\* "reservations may be resolved once only": two requests with different keys
\* that both saw the reservation open never both commit.
SingleResolution ==
  \A i, j \in DOMAIN ledger :
    IndexConflict(ledger[i], ledger[j]) => i = j

\* A key takes effect once per command type, also when requests with the same
\* key run at the same time or a crashed one is retried.
KeyPostsOnce ==
  \A i, j \in DOMAIN ledger :
    SameKey(ledger[i].origin, ledger[j].origin) => i = j

\* Money moves once for each command and each reservation: under two keys a
\* reservation is stopped by the unique index, under one key a command is stopped
\* by the idempotency record, and neither of the two replaces the other.
EffectsOnce == SingleResolution /\ KeyPostsOnce

\* An answer names the ledger transaction of exactly the command that was sent:
\* a replay is never served to a request with another payload.
AnswersTheCommand ==
  \A s \in Sessions :
    session[s].pc = "idle" /\ session[s].answer # None =>
      /\ session[s].answer \in DOMAIN ledger
      /\ ledger[session[s].answer].origin = session[s].cmd

\* account_balances stays reconcilable: each row is the sum of the committed
\* entries of its account.
Reconcilable ==
  \A a \in Accounts :
    /\ totals[a].debits = Total([i \in DOMAIN ledger |-> ledger[i].debits[a]])
    /\ totals[a].credits = Total([i \in DOMAIN ledger |-> ledger[i].credits[a]])

ResolvingCommand(c) == c.op \in {"release_reserved_funds", "capture_reserved_funds"}

\* A release returns to the source what the reservation took, a capture takes
\* all of it from the reserve account: no part of a reservation is left behind.
WholeResolution ==
  \A i \in DOMAIN ledger :
    LET row == ledger[i]
        reservation == ledger[row.related]
    IN (ResolvingCommand(row.origin) /\ reservation.origin.op = "reserve_funds") =>
         /\ row.debits = reservation.credits
         /\ row.origin.op = "release_reserved_funds" => row.credits = reservation.debits

OpenReservations ==
  {i \in DOMAIN ledger : /\ ledger[i].type \in ReserveTypes
                         /\ \A j \in DOMAIN ledger : ~Resolves(ledger[j], i)}

\* An account that only reservations credit and only releases and captures
\* debit, and whose reservations nothing else resolves, holds exactly the sum of
\* the open reservations, so each of them can still be resolved in full.  (A
\* resolution posted as a transaction of its own need not move the reserve.)
ReservesCovered ==
  \A a \in UserAccounts :
    (\A i \in DOMAIN ledger :
       /\ ledger[i].debits[a] > 0 => ResolvingCommand(ledger[i].origin)
       /\ ledger[i].credits[a] > 0 =>
            /\ ledger[i].origin.op = "reserve_funds"
            /\ \A j \in DOMAIN ledger :
                 Resolves(ledger[j], i) => ResolvingCommand(ledger[j].origin))
    => Balance(totals, a) =
         Total([i \in OpenReservations |-> ledger[i].credits[a]])

\* The books agree with each other: balances with entries, resolutions with what
\* they resolve, and reserve accounts with the reservations still open.
BooksAgree == Reconcilable /\ WholeResolution /\ ReservesCovered

\* A frozen account takes no posting: whatever commits touches accounts that
\* are active at that moment, although their status was read earlier.
NoPostingOnFrozen ==
  [][\A i \in DOMAIN ledger' \ DOMAIN ledger :
       \A a \in Touched(ledger'[i]) : status[a] = "active"]_vars

\* Every request is answered: account rows are locked in id order and every other
\* wait is for a session that holds all its locks, so no wait is endless.
RequestsFinish ==
  \A s \in Sessions : session[s].pc # "idle" ~> session[s].pc = "idle"

\* The interleaved database transactions implement the serial ledger.
Serial == INSTANCE SerialLedger
SerialSpec == Serial!Spec
=============================================================================
