---------------------------- MODULE SerialLedger ----------------------------
(***************************************************************************)
(* What the accounting core promises its callers: every accepted command   *)
(* takes effect in one step, once for its idempotency key, on accounts     *)
(* that are active and funded at that moment.  The concurrent ledger with  *)
(* its database transactions and locks (module Ledger) implements it.      *)
(***************************************************************************)
EXTENDS LedgerRules

VARIABLES
  status,   \* accounts.status
  totals,   \* account_balances: total debits and credits of each account
  ledger,   \* ledger_transactions with their entries, in commit order
  idem      \* completed idempotency_records: the command and the row it posted

vars == <<status, totals, ledger, idem>>

Init ==
  /\ status = [a \in Accounts |-> "active"]
  /\ totals = [a \in Accounts |-> [debits |-> 0, credits |-> 0]]
  /\ ledger = <<>>
  /\ idem = {}

\* Command c, new under its key, posts row.
Execute(c, row) ==
  /\ \A rec \in idem : ~SameKey(rec.cmd, c)
  /\ \A a \in Touched(row) : status[a] = "active"
  /\ Sufficient(totals, row)
  /\ AcceptedBySchema(row, ledger)
  /\ ledger' = Append(ledger, row)
  /\ totals' = Applied(totals, row)
  /\ idem' = idem \cup {[cmd |-> c, tx |-> Len(ledger) + 1]}
  /\ UNCHANGED status

SetStatus(a, st) ==
  /\ status' = [status EXCEPT ![a] = st]
  /\ UNCHANGED <<totals, ledger, idem>>

Next ==
  \/ \E c \in Requests \cap PostingCommands : \E row \in RowsFor(c, ledger) : Execute(c, row)
  \/ \E a \in Accounts, st \in {"active", "frozen"} : SetStatus(a, st)

Spec == Init /\ [][Next]_vars
=============================================================================
