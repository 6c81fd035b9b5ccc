--------------------------- MODULE BalanceRebuild ---------------------------
(***************************************************************************)
(* BalanceMaintenanceService.rebuildBalances running beside postings: the  *)
(* rebuild deletes every row of account_balances and inserts rows computed *)
(* from ledger_entries, while postings upsert rows one entry after the     *)
(* other.  Module Ledger treats a posting's balance update as one write;   *)
(* here it is the row by row write it is, and rows may not exist yet.      *)
(*                                                                         *)
(* An entry is its signed effect on the balance of its account.            *)
(***************************************************************************)
EXTENDS Integers, FiniteSets

CONSTANTS
  Accounts,    \* account ids, numbers because the rebuild inserts in id order
  Postings,    \* the ledger transactions: functions from accounts to effects
  Sessions,    \* database connections
  MaxPosted,   \* bound of the model: committed postings
  MaxRebuilds, \* bound of the model: committed rebuilds
  MaxDrifts    \* bound of the model: changes made outside the program

ASSUME RebuildAssumption ==
  /\ Accounts \subseteq Nat
  /\ \A p \in Postings : DOMAIN p \subseteq Accounts /\ \A a \in DOMAIN p : p[a] \in Int
  /\ MaxPosted \in Nat /\ MaxRebuilds \in Nat /\ MaxDrifts \in Nat

VARIABLES
  derived,    \* ledger_entries: the sum of the committed entries per account
  balance,    \* account_balances: committed rows, with the row's identity
  session,    \* the transactions in flight
  drifted,    \* external: a row was changed outside the program since a rebuild
  posted, rebuilds, drifts   \* what the bounds count

rebuildVars == <<derived, balance, session, drifted, posted, rebuilds, drifts>>
counters == <<posted, rebuilds, drifts>>

\* A row is missing until the account is first posted to or rebuilt.
NoRow == [row |-> 0, value |-> 0]

Rows == [row: Nat, value: Int]

NoSession == [op |-> "idle"]

SessionStates ==
  {NoSession} \cup
  [op: {"posting"}, posting: Postings, written: SUBSET Accounts] \cup
  [op: {"deleting"}, seen: [Accounts -> Nat], deleted: SUBSET Accounts, left: SUBSET Accounts] \cup
  [op: {"inserting", "verifying"}, deleted: SUBSET Accounts,
   values: [Accounts -> Int], inserted: SUBSET Accounts]

RebuildTypeOK ==
  /\ derived \in [Accounts -> Int]
  /\ balance \in [Accounts -> Rows]
  /\ session \in [Sessions -> SessionStates]
  /\ drifted \in BOOLEAN
  /\ posted \in Nat /\ rebuilds \in Nat /\ drifts \in 0..MaxDrifts

InitRebuild ==
  /\ derived = [a \in Accounts |-> 0]
  /\ balance = [a \in Accounts |-> NoRow]
  /\ session = [s \in Sessions |-> NoSession]
  /\ drifted = FALSE
  /\ posted = 0 /\ rebuilds = 0 /\ drifts = 0

HasRow(a) == balance[a] # NoRow

Others(s) == Sessions \ {s}

\* Sessions with an uncommitted write to the balance row of account a.
WrittenBy_PostingsOnly(s, a) ==
  {t \in Others(s) : session[t].op = "posting" /\ a \in session[t].written}

WrittenBy(s, a) ==
  {t \in Others(s) :
     \/ session[t].op = "posting" /\ a \in session[t].written
     \/ session[t].op = "deleting" /\ a \in session[t].deleted
     \/ /\ session[t].op \in {"inserting", "verifying"}
        /\ a \in session[t].deleted \cup session[t].inserted}

Become(s, r) == session' = [session EXCEPT ![s] = r]

\* The transaction stays open in its failed state.
RollBack_Never(s) ==
  /\ Become(s, [op |-> "failed"])
  /\ UNCHANGED <<derived, balance, drifted, counters>>

\* ROLLBACK: the writes of the transaction are gone and its rows are free.
RollBack(s) ==
  /\ Become(s, NoSession)
  /\ UNCHANGED <<derived, balance, drifted, counters>>

-----------------------------------------------------------------------------
(* Postings *)

\* The account rows of a posting are locked from here on: postings that share
\* an account do not overlap.
BeginPosting(s) ==
  /\ session[s] = NoSession
  /\ posted < MaxPosted
  /\ \E p \in Postings :
       /\ \A t \in Others(s) : session[t].op = "posting"
            => DOMAIN p \cap DOMAIN session[t].posting = {}
       /\ Become(s, [op |-> "posting", posting |-> p, written |-> {}])
  /\ UNCHANGED <<derived, balance, drifted, counters>>

Unwritten(s) == DOMAIN session[s].posting \ session[s].written

\* INSERT ... ON CONFLICT DO UPDATE for one entry: waits for whoever has
\* deleted or inserted the row and not committed.
Upsert(s) ==
  /\ session[s].op = "posting"
  /\ \E a \in Unwritten(s) :
       /\ WrittenBy(s, a) = {}
       /\ Become(s, [session[s] EXCEPT !.written = @ \cup {a}])
  /\ UNCHANGED <<derived, balance, drifted, counters>>

CommitPosting(s) ==
  /\ session[s].op = "posting"
  /\ Unwritten(s) = {}
  /\ LET p == session[s].posting IN
       /\ derived' = [a \in Accounts |-> derived[a] + IF a \in DOMAIN p THEN p[a] ELSE 0]
       /\ balance' = [a \in Accounts |->
            IF a \notin DOMAIN p THEN balance[a]
            ELSE [row |-> IF HasRow(a) THEN balance[a].row ELSE 1,
                  value |-> balance[a].value + p[a]]]
  /\ Become(s, NoSession)
  /\ posted' = posted + 1
  /\ UNCHANGED <<drifted, rebuilds, drifts>>

-----------------------------------------------------------------------------
(* Rebuilding *)

\* DELETE FROM account_balances sees the rows committed when it starts.
BeginRebuild(s) ==
  /\ session[s] = NoSession
  /\ rebuilds < MaxRebuilds
  /\ Become(s, [op |-> "deleting",
                seen |-> [a \in Accounts |-> balance[a].row],
                deleted |-> {},
                left |-> {a \in Accounts : HasRow(a)}])
  /\ UNCHANGED <<derived, balance, drifted, counters>>

\* One row of the DELETE, in any order: it waits for a writer, then deletes the
\* row as that writer left it, or skips it when another rebuild replaced it.
DeleteRow(s) ==
  /\ session[s].op = "deleting"
  /\ \E a \in session[s].left :
       /\ WrittenBy(s, a) = {}
       /\ Become(s, [session[s] EXCEPT
            !.left = @ \ {a},
            !.deleted = IF balance[a].row = session[s].seen[a] THEN @ \cup {a} ELSE @])
  /\ UNCHANGED <<derived, balance, drifted, counters>>

\* INSERT ... SELECT sees the entries committed when it starts.
BeginInsert(s) ==
  /\ session[s].op = "deleting"
  /\ session[s].left = {}
  /\ Become(s, [op |-> "inserting", deleted |-> session[s].deleted,
                values |-> derived, inserted |-> {}])
  /\ UNCHANGED <<derived, balance, drifted, counters>>

\* The next account in id order: a row that exists and was not deleted here is
\* a duplicate key and fails the rebuild.
InsertRow(s, a) ==
  IF HasRow(a) /\ a \notin session[s].deleted
  THEN Become(s, NoSession)
  ELSE Become(s, [session[s] EXCEPT !.inserted = @ \cup {a}])

InsertNext(s) ==
  /\ session[s].op = "inserting"
  /\ \E a \in Accounts \ session[s].inserted :
       /\ \A b \in Accounts \ session[s].inserted : a <= b
       /\ WrittenBy(s, a) = {}
       /\ InsertRow(s, a)
  /\ UNCHANGED <<derived, balance, drifted, counters>>

\* The verification after the rebuild, on the entries committed by now.
Verify(s) ==
  /\ session[s].op = "inserting"
  /\ session[s].inserted = Accounts
  /\ IF session[s].values = derived
     THEN Become(s, [session[s] EXCEPT !.op = "verifying"])
     ELSE Become(s, NoSession)
  /\ UNCHANGED <<derived, balance, drifted, counters>>

CommitRebuild(s) ==
  /\ session[s].op = "verifying"
  /\ balance' = [a \in Accounts |->
       [row |-> balance[a].row + 1, value |-> session[s].values[a]]]
  /\ Become(s, NoSession)
  /\ drifted' = FALSE
  /\ rebuilds' = rebuilds + 1
  /\ UNCHANGED <<derived, posted, drifts>>

-----------------------------------------------------------------------------
\* A balance row is changed from outside the program, the reason to rebuild;
\* not while a rebuild runs, which would have the row locked.
Drift(a) ==
  /\ drifts < MaxDrifts
  /\ HasRow(a)
  /\ \A s \in Sessions : session[s] = NoSession
  /\ balance' = [balance EXCEPT ![a].value = @ + 1]
  /\ drifted' = TRUE
  /\ drifts' = drifts + 1
  /\ UNCHANGED <<derived, session, posted, rebuilds>>

\* What s waits for, when it waits.
Blocked(s) ==
  CASE session[s].op = "posting" ->
         UNION {WrittenBy(s, a) : a \in Unwritten(s)}
    [] session[s].op = "deleting" ->
         UNION {WrittenBy(s, a) : a \in session[s].left}
    [] session[s].op = "inserting" ->
         UNION {WrittenBy(s, a) : a \in {b \in Accounts \ session[s].inserted :
                  \A c \in Accounts \ session[s].inserted : b <= c}}
    [] OTHER -> {}

\* PostgreSQL aborts a transaction of a cycle of waits.
BreakDeadlock(s) ==
  /\ \E S \in SUBSET Sessions :
       /\ s \in UNION {Blocked(t) : t \in S}
       /\ s \in S
       /\ \A t \in S : Blocked(t) \cap S # {}
  /\ RollBack(s)

Crash(s) == session[s] # NoSession /\ RollBack(s)

Continue(s) ==
  \/ Upsert(s) \/ CommitPosting(s) \/ DeleteRow(s) \/ BeginInsert(s)
  \/ InsertNext(s) \/ Verify(s) \/ CommitRebuild(s) \/ BreakDeadlock(s)

RebuildNext ==
  \/ \E s \in Sessions : BeginPosting(s) \/ BeginRebuild(s) \/ Continue(s) \/ Crash(s)
  \/ \E a \in Accounts : Drift(a)

RebuildSpec == InitRebuild /\ [][RebuildNext]_rebuildVars

\* A transaction that has begun goes on when it can.
LiveSpec == RebuildSpec /\ \A s \in Sessions : SF_rebuildVars(Continue(s))

-----------------------------------------------------------------------------
(* Properties *)

\* Every committed balance is the sum of the committed entries of its account,
\* whatever postings and rebuilds ran into each other, unless a row was changed
\* from outside and no rebuild has succeeded since: a rebuild that commits has
\* repaired every row, also of accounts that were posted to while it ran.
BalancesMatchEntries ==
  ~drifted => \A a \in Accounts : balance[a].value = derived[a]

\* No posting and no rebuild waits for ever, although they take rows in
\* different orders.
AllFinish == \A s \in Sessions : session[s] # NoSession ~> session[s] = NoSession
=============================================================================
