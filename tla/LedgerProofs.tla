---------------------------- MODULE LedgerProofs ----------------------------
(***************************************************************************)
(* What TLAPS proves of Ledger for all sets of sessions, accounts, keys    *)
(* and requests: the inductive invariant of the interleaved database       *)
(* transactions, the safety properties that follow, the refinement of the  *)
(* serial ledger, and that the books agree: the sums of Total are those of *)
(* SumTheorems.                                                            *)
(***************************************************************************)
EXTENDS Ledger, SumTheorems, TLAPS

-----------------------------------------------------------------------------
(* The inductive invariant *)

Planned(r) == r.pc \in {"lock", "check", "append", "commit"}
KeyHeld(r) == r.pc \in {"plan", "lock", "check", "append", "commit"}

CommandOK(r) ==
  /\ r.pc # "idle" => r.cmd \in Requests
  /\ r.pc = "lookup" \/ r.pc = "insert" \/ KeyHeld(r) => r.cmd \in PostingCommands
  /\ r.pc \in {"update", "publish"} => r.cmd \in StatusCommands

RowOK(r) == Planned(r) => r.row \in Rows /\ r.row \in RowsFor(r.cmd, ledger)

LocksOK(r) ==
  /\ ~Planned(r) /\ r.pc # "publish" => r.held = {}
  /\ r.pc \in {"check", "append", "commit"} => Touched(r.row) \subseteq r.held
  /\ r.pc = "publish" => r.cmd.account \in r.held
  /\ Planned(r) => \A a \in r.held : a \notin r.refused => status[a] = "active"

\* What the statements already executed have established, and the locks keep.
CheckedOK(r) ==
  /\ r.pc \in {"append", "commit"} => r.refused = {} /\ Sufficient(totals, r.row)
  /\ r.pc = "commit" => AcceptedBySchema(r.row, ledger)
  /\ KeyHeld(r) => \A rec \in idem : ~SameKey(rec.cmd, r.cmd)

AnswerOK(r) ==
  r.pc = "idle" /\ r.answer # None =>
    r.answer \in DOMAIN ledger /\ ledger[r.answer].origin = r.cmd

PhaseOK(r) ==
  CommandOK(r) /\ RowOK(r) /\ LocksOK(r) /\ CheckedOK(r) /\ AnswerOK(r)

\* Two sessions share no account lock, no uncommitted key, no resolution.
Exclusive(r, q) ==
  /\ r.held \cap q.held = {}
  /\ KeyHeld(r) /\ KeyHeld(q) => ~SameKey(r.cmd, q.cmd)
  /\ r.pc = "commit" /\ q.pc = "commit" => ~IndexConflict(r.row, q.row)

Recording ==
  /\ \A rec \in idem : rec.tx \in DOMAIN ledger /\ ledger[rec.tx].origin = rec.cmd
  /\ \A i \in DOMAIN ledger : \E rec \in idem : rec.cmd = ledger[i].origin

IInv ==
  /\ TypeOK
  /\ \A s \in Sessions : PhaseOK(session[s])
  /\ \A s, t \in Sessions : s # t => Exclusive(session[s], session[t])
  /\ Recording

-----------------------------------------------------------------------------
(* Lemmas about rows *)

\* A transfer is a row.
LEMMA TransferRowType ==
  ASSUME NEW type \in TransactionTypes, NEW from, NEW to, NEW amount \in Nat,
         NEW related \in Nat, NEW c \in PostingCommands
  PROVE  /\ TransferRow(type, from, to, amount, related, c) \in Rows
         /\ TransferRow(type, from, to, amount, related, c).origin = c
BY DEF TransferRow, Rows

\* Every row a command may post is a row of the table and keeps its command.
LEMMA RowsForType ==
  ASSUME NEW L \in Seq(Rows), NEW c \in PostingCommands, NEW row \in RowsFor(c, L)
  PROVE  row \in Rows /\ row.origin = c
<1>1. CASE c.op = "post_transaction"
  <2>1. c \in PostTransactions
    BY <1>1 DEF PostingCommands, ReserveCommands, ReleaseCommands, CaptureCommands
  <2>2. row \in PostedRows(c)
    BY <1>1 DEF RowsFor
  <2> QED BY <2>1, <2>2 DEF PostedRows, PostTransactions, Rows
<1>2. CASE c.op = "reserve_funds"
  <2>1. c \in ReserveCommands
    BY <1>2 DEF PostingCommands, PostTransactions, ReleaseCommands, CaptureCommands
  <2>2. row = TransferRow(c.type, c.source, c.reserve, c.amount, None, c)
    BY <1>2 DEF RowsFor
  <2>3. c.type \in TransactionTypes /\ c.amount \in Nat /\ None \in Nat
    BY <2>1 DEF ReserveCommands, TransactionTypes, Amounts, None
  <2> QED BY <2>2, <2>3, TransferRowType
<1>3. CASE c.op = "release_reserved_funds"
  <2>1. c \in ReleaseCommands
    BY <1>3 DEF PostingCommands, PostTransactions, ReserveCommands, CaptureCommands
  <2>2. row \in ReleaseRows(c, L)
    BY <1>3 DEF RowsFor
  <2>3. IsReservation(L, c.reservation)
    BY <2>2 DEF ReleaseRows
  <2>4. PICK p \in ReservationEntries(L[c.reservation]) :
          row = TransferRow(ReleaseType(L[c.reservation]), p[2], p[1],
                            L[c.reservation].debits[p[1]], c.reservation, c)
    BY <2>2, <2>3 DEF ReleaseRows
  <2>5. L[c.reservation] \in Rows /\ c.reservation \in Nat
    BY <2>1, <2>3 DEF IsReservation, ReleaseCommands
  <2>6. L[c.reservation].debits[p[1]] \in Nat
    BY <2>5 DEF ReservationEntries, Debited, Rows
  <2>7. ReleaseType(L[c.reservation]) \in TransactionTypes
    BY DEF ReleaseType, TransactionTypes, ResolutionTypes
  <2> QED BY <2>4, <2>5, <2>6, <2>7, TransferRowType
<1>4. CASE c.op = "capture_reserved_funds"
  <2>1. c \in CaptureCommands
    BY <1>4 DEF PostingCommands, PostTransactions, ReserveCommands, ReleaseCommands
  <2>2. row \in CaptureRows(c, L)
    BY <1>4 DEF RowsFor
  <2>3. IsReservation(L, c.reservation)
    BY <2>2 DEF CaptureRows
  <2>4. PICK p \in ReservationEntries(L[c.reservation]) :
          row = TransferRow(CaptureType(L[c.reservation]), p[2], c.destination,
                            L[c.reservation].debits[p[1]], c.reservation, c)
    BY <2>2, <2>3 DEF CaptureRows
  <2>5. L[c.reservation] \in Rows /\ c.reservation \in Nat
    BY <2>1, <2>3 DEF IsReservation, CaptureCommands
  <2>6. L[c.reservation].debits[p[1]] \in Nat
    BY <2>5 DEF ReservationEntries, Debited, Rows
  <2>7. CaptureType(L[c.reservation]) \in TransactionTypes
    BY DEF CaptureType, TransactionTypes, ResolutionTypes
  <2> QED BY <2>4, <2>5, <2>6, <2>7, TransferRowType
<1> QED
  BY <1>1, <1>2, <1>3, <1>4 DEF PostingCommands, PostTransactions, ReserveCommands,
     ReleaseCommands, CaptureCommands

\* Appending keeps the rows there are and adds one at the end.
LEMMA AppendFacts ==
  ASSUME NEW L \in Seq(Rows), NEW row \in Rows
  PROVE  /\ Append(L, row) \in Seq(Rows)
         /\ DOMAIN L = 1..Len(L) /\ Len(L) \in Nat
         /\ DOMAIN Append(L, row) = 1..(Len(L) + 1)
         /\ \A i \in DOMAIN L : Append(L, row)[i] = L[i]
         /\ Append(L, row)[Len(L) + 1] = row
OBVIOUS

\* What a command may post stays what it may post as the ledger grows.
LEMMA RowsForGrows ==
  ASSUME NEW L \in Seq(Rows), NEW new \in Rows, NEW c,
         NEW row \in RowsFor(c, L)
  PROVE  row \in RowsFor(c, Append(L, new))
<1> DEFINE M == Append(L, new)
<1>1. \A r : IsReservation(L, r) => IsReservation(M, r) /\ M[r] = L[r]
  BY AppendFacts DEF IsReservation
<1>2. ReleaseRows(c, L) \subseteq ReleaseRows(c, M)
  BY <1>1 DEF ReleaseRows
<1>3. CaptureRows(c, L) \subseteq CaptureRows(c, M)
  BY <1>1 DEF CaptureRows
<1> QED BY <1>2, <1>3 DEF RowsFor

\* The balance table after a row, and the accounts a row leaves alone.
LEMMA AppliedFacts ==
  ASSUME NEW T \in Totals, NEW row \in Rows
  PROVE  /\ Applied(T, row) \in Totals
         /\ \A a \in Accounts \ Touched(row) : Applied(T, row)[a] = T[a]
         /\ \A a \in UserAccounts :
              Balance(Applied(T, row), a) = Balance(T, a) + (row.credits[a] - row.debits[a])
<1>1. Applied(T, row) \in Totals
  BY DEF Applied, Totals, Rows
<1>2. ASSUME NEW a \in Accounts \ Touched(row) PROVE Applied(T, row)[a] = T[a]
  <2>1. row.debits[a] = 0 /\ row.credits[a] = 0
    BY DEF Touched, Rows
  <2> QED BY <2>1 DEF Applied, Totals
<1>3. ASSUME NEW a \in UserAccounts
      PROVE  Balance(Applied(T, row), a) = Balance(T, a) + (row.credits[a] - row.debits[a])
  <2>1. a \in Accounts /\ a \notin DebitNormal
    BY AccountsAssumption
  <2>2. T[a].debits \in Nat /\ T[a].credits \in Nat /\ row.debits[a] \in Nat /\ row.credits[a] \in Nat
    BY <2>1 DEF Totals, Rows
  <2>3. /\ Applied(T, row)[a].debits = T[a].debits + row.debits[a]
        /\ Applied(T, row)[a].credits = T[a].credits + row.credits[a]
    BY <2>1 DEF Applied
  <2> QED BY <2>1, <2>2, <2>3 DEF Balance
<1> QED BY <1>1, <1>2, <1>3

\* Funds checked against balances nobody changed are still sufficient.
LEMMA SufficientStable ==
  ASSUME NEW T, NEW U, NEW row, Sufficient(T, row),
         \A a \in Touched(row) : U[a] = T[a]
  PROVE  Sufficient(U, row)
BY DEF Sufficient, Balance

\* A row the schema accepts is still accepted after another row that is not in
\* conflict with it.
LEMMA SchemaStable ==
  ASSUME NEW L \in Seq(Rows), NEW new \in Rows, NEW row \in Rows,
         AcceptedBySchema(row, L), ~IndexConflict(row, new)
  PROVE  AcceptedBySchema(row, Append(L, new))
BY AppendFacts DEF AcceptedBySchema

\* Waiting is symmetric.
LEMMA ExclusiveSymmetric ==
  ASSUME NEW r, NEW q, Exclusive(r, q)
  PROVE  Exclusive(q, r)
BY DEF Exclusive, SameKey, IndexConflict, Resolves

-----------------------------------------------------------------------------
(* The invariant is inductive *)

\* A step that writes no table and leaves the session in a good phase.
LEMMA LocalStep ==
  ASSUME IInv, NEW s \in Sessions, NEW x \in SessionRecords,
         session' = [session EXCEPT ![s] = x], UNCHANGED tables,
         PhaseOK(x), \A t \in Others(s) : Exclusive(x, session[t])
  PROVE  IInv'
<1>1. /\ session'[s] = x
      /\ \A t \in Others(s) : session'[t] = session[t]
      /\ session' \in [Sessions -> SessionRecords]
  BY DEF IInv, TypeOK, Others
<1>2. TypeOK'
  BY <1>1 DEF IInv, TypeOK, tables
<1>3. ASSUME NEW t \in Sessions PROVE PhaseOK(session[t])'
  <2>1. PhaseOK(session'[t])
    BY <1>1 DEF IInv, Others
  <2> QED
    BY <2>1 DEF tables, PhaseOK, CommandOK, RowOK, LocksOK, CheckedOK, AnswerOK
<1>4. ASSUME NEW t \in Sessions, NEW u \in Sessions, t # u
      PROVE  Exclusive(session[t], session[u])'
  <2>1. Exclusive(session'[t], session'[u])
    BY <1>1, <1>4, ExclusiveSymmetric DEF IInv, Others
  <2> QED BY <2>1 DEF Exclusive
<1>5. Recording'
  BY DEF IInv, Recording, tables
<1> QED BY <1>2, <1>3, <1>4, <1>5 DEF IInv

\* Ending a request without a commit.
LEMMA IdleStep ==
  ASSUME IInv, NEW s \in Sessions, NEW n \in Nat,
         session' = [session EXCEPT ![s] = Idle(@.cmd, n)], UNCHANGED tables,
         n # None => n \in DOMAIN ledger /\ ledger[n].origin = session[s].cmd
  PROVE  IInv'
<1> DEFINE x == Idle(session[s].cmd, n)
<1>1. session[s] \in SessionRecords
  BY DEF IInv, TypeOK
<1>2. x \in SessionRecords
  BY <1>1 DEF Idle, SessionRecords, PCs
<1>3. PhaseOK(x)
  BY DEF Idle, PhaseOK, CommandOK, RowOK, LocksOK, CheckedOK, AnswerOK, KeyHeld, Planned
<1>4. \A t \in Others(s) : Exclusive(x, session[t])
  BY DEF Idle, Exclusive, KeyHeld
<1>5. session' = [session EXCEPT ![s] = x]
  BY DEF IInv, TypeOK
<1> HIDE DEF x
<1> QED BY <1>2, <1>3, <1>4, <1>5, LocalStep

LEMMA FailStep ==
  ASSUME IInv, NEW s \in Sessions, Fail(s)
  PROVE  IInv'
<1>1. None \in Nat
  BY DEF None
<1> QED BY <1>1, IdleStep DEF Fail

\* Answering from a committed record.
LEMMA ResolveStep ==
  ASSUME IInv, NEW s \in Sessions, NEW rec \in idem, Resolve(s, rec)
  PROVE  IInv'
<1>1. CASE rec.cmd # session[s].cmd /\ Fail(s)
  BY <1>1, FailStep
<1>2. CASE /\ rec.cmd = session[s].cmd
           /\ session' = [session EXCEPT ![s] = Idle(@.cmd, rec.tx)]
           /\ UNCHANGED tables
  <2>1. rec.tx \in Nat /\ rec.tx \in DOMAIN ledger /\ ledger[rec.tx].origin = session[s].cmd
    BY <1>2 DEF IInv, Recording, TypeOK
  <2> QED BY <1>2, <2>1, IdleStep
<1> QED BY <1>1, <1>2 DEF Resolve

LEMMA BeginStep ==
  ASSUME IInv, NEW s \in Sessions, Begin(s)
  PROVE  IInv'
<1>1. PICK c \in Requests :
        session' = [session EXCEPT ![s] =
          [Idle(c, None) EXCEPT
             !.pc = IF c \in StatusCommands THEN "update" ELSE "lookup"]]
  BY DEF Begin, Startable
<1> DEFINE x == [Idle(c, None) EXCEPT
                   !.pc = IF c \in StatusCommands THEN "update" ELSE "lookup"]
<1>2. c \in Commands
  BY RequestsAssumption
<1>3. x \in SessionRecords
  BY <1>2 DEF Idle, SessionRecords, PCs, None
<1>4. PhaseOK(x)
  BY <1>2 DEF Idle, PhaseOK, CommandOK, RowOK, LocksOK, CheckedOK, AnswerOK,
     KeyHeld, Planned, Commands
<1>5. \A t \in Others(s) : Exclusive(x, session[t])
  BY DEF Idle, Exclusive, KeyHeld
<1>6. UNCHANGED tables
  BY DEF Begin
<1> QED BY <1>1, <1>3, <1>4, <1>5, <1>6, LocalStep

LEMMA LookupStep ==
  ASSUME IInv, NEW s \in Sessions, Lookup(s)
  PROVE  IInv'
<1>1. CASE \E rec \in Recorded(s) : Resolve(s, rec)
  BY <1>1, ResolveStep DEF Recorded
<1>2. CASE /\ session' = [session EXCEPT ![s] = [@ EXCEPT !.pc = "insert"]]
           /\ UNCHANGED tables
  <2> DEFINE x == [session[s] EXCEPT !.pc = "insert"]
  <2>1. /\ session[s] \in SessionRecords
        /\ session[s].pc = "lookup"
        /\ PhaseOK(session[s])
        /\ \A t \in Others(s) : Exclusive(session[s], session[t])
    BY DEF IInv, TypeOK, Lookup, Others
  <2>2. x \in SessionRecords
    BY <2>1 DEF SessionRecords, PCs
  <2>3. PhaseOK(x)
    BY <2>1 DEF SessionRecords, PhaseOK, CommandOK, RowOK, LocksOK, CheckedOK,
       AnswerOK, KeyHeld, Planned
  <2>4. \A t \in Others(s) : Exclusive(x, session[t])
    BY <2>1 DEF SessionRecords, Exclusive, KeyHeld
  <2>5. session' = [session EXCEPT ![s] = x]
    BY <1>2
  <2> QED BY <1>2, <2>2, <2>3, <2>4, <2>5, LocalStep
<1> QED BY <1>1, <1>2 DEF Lookup

\* The record becomes the session's own only when no record of the key exists
\* and no other session holds an uncommitted one.
LEMMA InsertKeyStep ==
  ASSUME IInv, NEW s \in Sessions, InsertKey(s)
  PROVE  IInv'
<1>1. CASE \E rec \in Recorded(s) : Resolve(s, rec)
  BY <1>1, ResolveStep DEF Recorded
<1>2. CASE /\ Recorded(s) = {}
           /\ session' = [session EXCEPT ![s] = [@ EXCEPT !.pc = "plan"]]
           /\ UNCHANGED tables
  <2> DEFINE x == [session[s] EXCEPT !.pc = "plan"]
  <2>1. /\ session[s] \in SessionRecords
        /\ session[s].pc = "insert"
        /\ PhaseOK(session[s])
        /\ \A t \in Others(s) : Exclusive(session[s], session[t])
    BY DEF IInv, TypeOK, InsertKey, Others
  <2>2. x \in SessionRecords
    BY <2>1 DEF SessionRecords, PCs
  <2>3. \A rec \in idem : ~SameKey(rec.cmd, session[s].cmd)
    BY <1>2 DEF Recorded
  <2>4. PhaseOK(x)
    BY <2>1, <2>3 DEF SessionRecords, PhaseOK, CommandOK, RowOK, LocksOK, CheckedOK,
       AnswerOK, KeyHeld, Planned
  <2>5. \A t \in Others(s) : KeyHeld(session[t]) => ~SameKey(session[s].cmd, session[t].cmd)
    BY DEF InsertKey, KeyWaits, HoldsKey, KeyHeld, SameKey
  <2>6. \A t \in Others(s) : Exclusive(x, session[t])
    BY <2>1, <2>5 DEF SessionRecords, Exclusive, KeyHeld
  <2>7. session' = [session EXCEPT ![s] = x]
    BY <1>2
  <2> QED BY <1>2, <2>2, <2>4, <2>6, <2>7, LocalStep
<1> QED BY <1>1, <1>2 DEF InsertKey

LEMMA PlanStep ==
  ASSUME IInv, NEW s \in Sessions, Plan(s)
  PROVE  IInv'
<1>1. CASE Fail(s)
  BY <1>1, FailStep
<1>2. CASE /\ \E row \in RowsFor(session[s].cmd, ledger) :
                session' = [session EXCEPT ![s] =
                              [@ EXCEPT !.pc = "lock", !.row = row]]
           /\ UNCHANGED tables
  <2>1. PICK row \in RowsFor(session[s].cmd, ledger) :
          session' = [session EXCEPT ![s] = [@ EXCEPT !.pc = "lock", !.row = row]]
    BY <1>2
  <2> DEFINE x == [session[s] EXCEPT !.pc = "lock", !.row = row]
  <2>2. /\ session[s] \in SessionRecords
        /\ session[s].pc = "plan"
        /\ PhaseOK(session[s])
        /\ \A t \in Others(s) : Exclusive(session[s], session[t])
        /\ ledger \in Seq(Rows)
    BY DEF IInv, TypeOK, Plan, Others
  <2>3. session[s].cmd \in PostingCommands
    BY <2>2 DEF PhaseOK, CommandOK, KeyHeld
  <2>4. row \in Rows
    BY <2>2, <2>3, RowsForType
  <2>5. x \in SessionRecords
    BY <2>2, <2>4 DEF SessionRecords, PCs
  <2>6. session[s].held = {}
    BY <2>2 DEF PhaseOK, LocksOK, Planned
  <2>7. PhaseOK(x)
    BY <2>2, <2>4, <2>6 DEF SessionRecords, PhaseOK, CommandOK, RowOK, LocksOK,
       CheckedOK, AnswerOK, KeyHeld, Planned
  <2>8. \A t \in Others(s) : Exclusive(x, session[t])
    BY <2>2 DEF SessionRecords, Exclusive, KeyHeld
  <2>9. session' = [session EXCEPT ![s] = x]
    BY <2>1
  <2> QED BY <1>2, <2>5, <2>7, <2>8, <2>9, LocalStep
<1> QED BY <1>1, <1>2 DEF Plan

\* The lock is granted when nobody holds it, so what was read under it stays.
LEMMA LockAccountStep ==
  ASSUME IInv, NEW s \in Sessions, LockAccount(s)
  PROVE  IInv'
<1>1. PICK a \in NextToLock(s) :
        /\ LockWaits(s, a) = {}
        /\ session' = [session EXCEPT ![s] =
             [session[s] EXCEPT
                !.held = session[s].held \cup {a},
                !.refused = IF status[a] = "active" THEN session[s].refused
                                                    ELSE session[s].refused \cup {a},
                !.pc = IF Touched(session[s].row) \subseteq session[s].held \cup {a}
                       THEN "check" ELSE "lock"]]
  BY DEF LockAccount
<1> DEFINE r == session[s]
           x == [r EXCEPT
                   !.held = r.held \cup {a},
                   !.refused = IF status[a] = "active" THEN r.refused
                                                       ELSE r.refused \cup {a},
                   !.pc = IF Touched(r.row) \subseteq r.held \cup {a}
                          THEN "check" ELSE "lock"]
<1>2. /\ r \in SessionRecords
      /\ r.pc = "lock"
      /\ PhaseOK(r)
      /\ \A t \in Others(s) : Exclusive(r, session[t])
  BY DEF IInv, TypeOK, LockAccount, Others
<1>3. a \in Accounts
  BY <1>1 DEF NextToLock, Touched
<1>4. /\ x.held = r.held \cup {a}
      /\ x.refused = IF status[a] = "active" THEN r.refused ELSE r.refused \cup {a}
      /\ x.pc = IF Touched(r.row) \subseteq r.held \cup {a} THEN "check" ELSE "lock"
      /\ x.cmd = r.cmd /\ x.row = r.row /\ x.answer = r.answer
      /\ x \in SessionRecords
  BY <1>2, <1>3 DEF SessionRecords, PCs
<1>5. session' = [session EXCEPT ![s] = x]
  BY <1>1
<1> HIDE DEF x
<1>6. PhaseOK(x)
  <2>1. CommandOK(x) /\ RowOK(x) /\ CheckedOK(x) /\ AnswerOK(x)
    BY <1>2, <1>4 DEF PhaseOK, CommandOK, RowOK, CheckedOK, AnswerOK, KeyHeld, Planned
  <2>2. LocksOK(x)
    BY <1>2, <1>4 DEF PhaseOK, LocksOK, Planned
  <2> QED BY <2>1, <2>2 DEF PhaseOK
<1>7. ASSUME NEW t \in Others(s) PROVE Exclusive(x, session[t])
  <2>1. a \notin session[t].held
    BY <1>1 DEF LockWaits
  <2> QED BY <1>2, <1>4, <2>1 DEF Exclusive, KeyHeld
<1>8. UNCHANGED tables
  BY DEF LockAccount
<1> QED BY <1>4, <1>5, <1>6, <1>7, <1>8, LocalStep

LEMMA CheckStep ==
  ASSUME IInv, NEW s \in Sessions, Check(s)
  PROVE  IInv'
<1>1. CASE Fail(s)
  BY <1>1, FailStep
<1>2. CASE /\ session[s].refused = {}
           /\ Sufficient(totals, session[s].row)
           /\ session' = [session EXCEPT ![s] = [@ EXCEPT !.pc = "append"]]
           /\ UNCHANGED tables
  <2> DEFINE x == [session[s] EXCEPT !.pc = "append"]
  <2>1. /\ session[s] \in SessionRecords
        /\ session[s].pc = "check"
        /\ PhaseOK(session[s])
        /\ \A t \in Others(s) : Exclusive(session[s], session[t])
    BY DEF IInv, TypeOK, Check, Others
  <2>2. x \in SessionRecords
    BY <2>1 DEF SessionRecords, PCs
  <2>3. PhaseOK(x)
    BY <1>2, <2>1 DEF SessionRecords, PhaseOK, CommandOK, RowOK, LocksOK, CheckedOK,
       AnswerOK, KeyHeld, Planned
  <2>4. \A t \in Others(s) : Exclusive(x, session[t])
    BY <2>1 DEF SessionRecords, Exclusive, KeyHeld
  <2>5. session' = [session EXCEPT ![s] = x]
    BY <1>2
  <2> QED BY <1>2, <2>2, <2>3, <2>4, <2>5, LocalStep
<1> QED BY <1>1, <1>2 DEF Check

LEMMA AppendRowStep ==
  ASSUME IInv, NEW s \in Sessions, AppendRow(s)
  PROVE  IInv'
<1>1. CASE Fail(s)
  BY <1>1, FailStep
<1>2. CASE /\ AcceptedBySchema(session[s].row, ledger)
           /\ session' = [session EXCEPT ![s] = [@ EXCEPT !.pc = "commit"]]
           /\ UNCHANGED tables
  <2> DEFINE x == [session[s] EXCEPT !.pc = "commit"]
  <2>1. /\ session[s] \in SessionRecords
        /\ session[s].pc = "append"
        /\ PhaseOK(session[s])
        /\ \A t \in Others(s) : Exclusive(session[s], session[t])
    BY DEF IInv, TypeOK, AppendRow, Others
  <2>2. x \in SessionRecords
    BY <2>1 DEF SessionRecords, PCs
  <2>3. PhaseOK(x)
    BY <1>2, <2>1 DEF SessionRecords, PhaseOK, CommandOK, RowOK, LocksOK, CheckedOK,
       AnswerOK, KeyHeld, Planned
  <2>4. \A t \in Others(s) :
          session[t].pc = "commit" => ~IndexConflict(session[s].row, session[t].row)
    BY DEF AppendRow, RowWaits, HoldsRow
  <2>5. \A t \in Others(s) : Exclusive(x, session[t])
    BY <2>1, <2>4 DEF SessionRecords, Exclusive, KeyHeld
  <2>6. session' = [session EXCEPT ![s] = x]
    BY <1>2
  <2> QED BY <1>2, <2>2, <2>3, <2>5, <2>6, LocalStep
<1> QED BY <1>1, <1>2 DEF AppendRow

LEMMA UpdateStatusStep ==
  ASSUME IInv, NEW s \in Sessions, UpdateStatus(s)
  PROVE  IInv'
<1> DEFINE r == session[s]
           x == [r EXCEPT !.pc = "publish", !.held = {r.cmd.account}]
<1>1. /\ r \in SessionRecords
      /\ r.pc = "update"
      /\ PhaseOK(r)
      /\ \A t \in Others(s) : Exclusive(r, session[t])
      /\ \A t \in Others(s) : r.cmd.account \notin session[t].held
  BY DEF IInv, TypeOK, UpdateStatus, LockWaits, Others
<1>2. r.cmd \in StatusCommands
  BY <1>1 DEF PhaseOK, CommandOK
<1>3. /\ x.held = {r.cmd.account} /\ x.pc = "publish"
      /\ x.cmd = r.cmd /\ x.row = r.row /\ x.answer = r.answer
      /\ x \in SessionRecords
  BY <1>1, <1>2 DEF SessionRecords, PCs, StatusCommands
<1>4. session' = [session EXCEPT ![s] = x] /\ UNCHANGED tables
  BY DEF UpdateStatus
<1> HIDE DEF x
<1>5. PhaseOK(x)
  BY <1>1, <1>3 DEF PhaseOK, CommandOK, RowOK, LocksOK, CheckedOK, AnswerOK, KeyHeld, Planned
<1>6. \A t \in Others(s) : Exclusive(x, session[t])
  BY <1>1, <1>3 DEF Exclusive, KeyHeld
<1> QED BY <1>3, <1>4, <1>5, <1>6, LocalStep

\* A commit keeps what another session has established: it holds other account
\* rows, another key, and no resolution of the same reservation.
LEMMA CommitKeeps ==
  ASSUME TypeOK, NEW r \in SessionRecords, NEW q \in SessionRecords,
         r.pc = "commit", r.row \in Rows, Touched(r.row) \subseteq r.held,
         PhaseOK(q), Exclusive(q, r),
         ledger' = Append(ledger, r.row), totals' = Applied(totals, r.row),
         idem' = idem \cup {[cmd |-> r.cmd, tx |-> Len(ledger) + 1]},
         status' = status
  PROVE  PhaseOK(q)'
<1>1. ledger \in Seq(Rows) /\ totals \in Totals
  BY DEF TypeOK
<1>2. CommandOK(q)'
  BY DEF PhaseOK, CommandOK, KeyHeld
<1>3. RowOK(q)'
  <2>1. Planned(q) => q.row \in RowsFor(q.cmd, Append(ledger, r.row))
    BY <1>1, RowsForGrows DEF PhaseOK, RowOK
  <2> QED BY <2>1 DEF PhaseOK, RowOK, Planned
<1>4. LocksOK(q)'
  BY DEF PhaseOK, LocksOK, Planned
<1>5. CheckedOK(q)'
  <2>1. ASSUME q.pc \in {"append", "commit"}
        PROVE  q.refused = {} /\ Sufficient(Applied(totals, r.row), q.row)
    <3>1. Sufficient(totals, q.row) /\ q.refused = {}
      BY <2>1 DEF PhaseOK, CheckedOK
    <3>2. \A a \in Touched(q.row) : a \in Accounts \ Touched(r.row)
      BY <2>1 DEF PhaseOK, LocksOK, Exclusive, Touched
    <3>3. \A a \in Touched(q.row) : Applied(totals, r.row)[a] = totals[a]
      BY <1>1, <3>2, AppliedFacts
    <3> QED BY <3>1, <3>3, SufficientStable
  <2>2. ASSUME q.pc = "commit" PROVE AcceptedBySchema(q.row, Append(ledger, r.row))
    <3>1. AcceptedBySchema(q.row, ledger) /\ q.row \in Rows
      BY <2>2 DEF PhaseOK, CheckedOK, RowOK, Planned
    <3>2. ~IndexConflict(q.row, r.row)
      BY <2>2 DEF Exclusive
    <3> QED BY <1>1, <3>1, <3>2, SchemaStable
  <2>3. ASSUME KeyHeld(q) PROVE \A rec \in idem' : ~SameKey(rec.cmd, q.cmd)
    <3>1. ~SameKey(q.cmd, r.cmd)
      BY <2>3 DEF Exclusive, KeyHeld
    <3>2. \A rec \in idem : ~SameKey(rec.cmd, q.cmd)
      BY <2>3 DEF PhaseOK, CheckedOK
    <3> QED BY <3>1, <3>2 DEF SameKey
  <2> QED BY <2>1, <2>2, <2>3 DEF CheckedOK, KeyHeld
<1>6. AnswerOK(q)'
  <2>1. \A i \in DOMAIN ledger : /\ i \in DOMAIN Append(ledger, r.row)
                                 /\ Append(ledger, r.row)[i] = ledger[i]
    BY <1>1, AppendFacts
  <2> QED BY <2>1 DEF PhaseOK, AnswerOK
<1> QED BY <1>2, <1>3, <1>4, <1>5, <1>6 DEF PhaseOK

LEMMA CommitStep ==
  ASSUME IInv, NEW s \in Sessions, Commit(s)
  PROVE  IInv'
<1> DEFINE r == session[s]
           n == Len(ledger) + 1
           x == Idle(r.cmd, n)
<1>1. /\ r \in SessionRecords /\ r.pc = "commit" /\ PhaseOK(r)
      /\ ledger \in Seq(Rows) /\ totals \in Totals
      /\ status \in [Accounts -> {"active", "frozen"}]
      /\ idem \subseteq [cmd: PostingCommands, tx: Nat]
  BY DEF IInv, TypeOK, Commit
<1>2. /\ r.row \in Rows /\ r.row \in RowsFor(r.cmd, ledger)
      /\ r.cmd \in PostingCommands
      /\ Touched(r.row) \subseteq r.held
      /\ \A rec \in idem : ~SameKey(rec.cmd, r.cmd)
  BY <1>1 DEF PhaseOK, CommandOK, RowOK, LocksOK, CheckedOK, KeyHeld, Planned
<1>3. r.row.origin = r.cmd
  BY <1>1, <1>2, RowsForType
<1>4. /\ ledger' = Append(ledger, r.row)
      /\ totals' = Applied(totals, r.row)
      /\ idem' = idem \cup {[cmd |-> r.cmd, tx |-> n]}
      /\ session' = [session EXCEPT ![s] = x]
      /\ status' = status
  BY DEF Commit
<1>5. /\ ledger' \in Seq(Rows) /\ n \in Nat /\ n \in DOMAIN ledger'
      /\ DOMAIN ledger' = DOMAIN ledger \cup {n}
      /\ \A i \in DOMAIN ledger : ledger'[i] = ledger[i] /\ i \in DOMAIN ledger'
      /\ ledger'[n] = r.row
  <2>1. /\ Append(ledger, r.row) \in Seq(Rows)
        /\ DOMAIN ledger = 1..Len(ledger) /\ Len(ledger) \in Nat
        /\ DOMAIN Append(ledger, r.row) = 1..(Len(ledger) + 1)
        /\ \A i \in DOMAIN ledger : Append(ledger, r.row)[i] = ledger[i]
        /\ Append(ledger, r.row)[Len(ledger) + 1] = r.row
    BY <1>1, <1>2, AppendFacts
  <2> QED BY <1>4, <2>1
<1> HIDE DEF n
<1>6. x \in SessionRecords
  BY <1>1, <1>5 DEF Idle, SessionRecords, PCs
<1>7. /\ session'[s] = x
      /\ \A t \in Others(s) : session'[t] = session[t]
      /\ session' \in [Sessions -> SessionRecords]
  BY <1>4, <1>6 DEF IInv, TypeOK, Others
<1>8. TypeOK'
  <2>1. totals' \in Totals
    BY <1>1, <1>2, <1>4, AppliedFacts
  <2>2. idem' \subseteq [cmd: PostingCommands, tx: Nat]
    BY <1>1, <1>2, <1>4, <1>5
  <2> QED BY <1>1, <1>4, <1>5, <1>7, <2>1, <2>2 DEF TypeOK
<1>9. PhaseOK(session[s])'
  <2>1. x.pc = "idle" /\ x.held = {} /\ x.cmd = r.cmd /\ x.answer = n
    BY DEF Idle
  <2>2. session'[s] = x /\ ledger'[n].origin = r.cmd /\ n \in DOMAIN ledger'
    BY <1>3, <1>5, <1>7
  <2> HIDE DEF x
  <2> QED
    BY <2>1, <2>2 DEF PhaseOK, CommandOK, RowOK, LocksOK, CheckedOK, AnswerOK,
       KeyHeld, Planned
<1>10. ASSUME NEW t \in Others(s) PROVE PhaseOK(session[t])'
  <2>1. /\ session[t] \in SessionRecords /\ PhaseOK(session[t])
        /\ Exclusive(session[t], r) /\ session'[t] = session[t]
    BY <1>7 DEF IInv, TypeOK, Others
  <2>2. \A q \in SessionRecords : PhaseOK(q) /\ Exclusive(q, r) => PhaseOK(q)'
    <3>1. TypeOK
      BY DEF IInv
    <3>2. idem' = idem \cup {[cmd |-> r.cmd, tx |-> Len(ledger) + 1]}
      BY <1>4 DEF n
    <3>3. TAKE q \in SessionRecords
    <3>4. HAVE PhaseOK(q) /\ Exclusive(q, r)
    <3> HIDE DEF r
    <3> QED BY <1>1, <1>2, <1>4, <3>1, <3>2, <3>4, CommitKeeps
  <2>3. \A q : q = session'[t] => (PhaseOK(q)' <=> PhaseOK(session[t])')
    BY DEF PhaseOK, CommandOK, RowOK, LocksOK, CheckedOK, AnswerOK
  <2> QED BY <2>1, <2>2, <2>3
<1>11. ASSUME NEW t \in Sessions, NEW u \in Sessions, t # u
       PROVE  Exclusive(session[t], session[u])'
  <2>1. \A q : Exclusive(x, q) /\ Exclusive(q, x)
    BY DEF Idle, Exclusive, KeyHeld
  <2>2. Exclusive(session'[t], session'[u])
    BY <1>7, <1>11, <2>1 DEF IInv, Others
  <2> QED BY <2>2 DEF Exclusive
<1>12. Recording'
  <2>1. Recording
    BY DEF IInv
  <2>2. ASSUME NEW rec \in idem'
        PROVE  rec.tx \in DOMAIN ledger' /\ ledger'[rec.tx].origin = rec.cmd
    BY <1>3, <1>4, <1>5, <2>1 DEF Recording
  <2>3. ASSUME NEW i \in DOMAIN ledger' PROVE \E rec \in idem' : rec.cmd = ledger'[i].origin
    <3>1. CASE i = n
      <4>1. [cmd |-> r.cmd, tx |-> n] \in idem' /\ ledger'[i].origin = r.cmd
        BY <1>3, <1>4, <1>5, <3>1
      <4> QED BY <4>1
    <3>2. CASE i \in DOMAIN ledger
      <4>1. PICK rec \in idem : rec.cmd = ledger[i].origin
        BY <2>1, <3>2 DEF Recording
      <4> QED BY <1>4, <1>5, <3>2, <4>1
    <3> QED BY <1>5, <3>1, <3>2
  <2> QED BY <2>2, <2>3 DEF Recording
<1> QED BY <1>7, <1>8, <1>9, <1>10, <1>11, <1>12 DEF IInv, Others

\* A status change touches an account row nobody else has locked.
LEMMA PublishStatusStep ==
  ASSUME IInv, NEW s \in Sessions, PublishStatus(s)
  PROVE  IInv'
<1> DEFINE r == session[s]
           acct == r.cmd.account
           x == Idle(r.cmd, None)
<1>1. /\ r \in SessionRecords /\ r.pc = "publish" /\ PhaseOK(r)
      /\ status \in [Accounts -> {"active", "frozen"}]
  BY DEF IInv, TypeOK, PublishStatus
<1>2. acct \in r.held /\ acct \in Accounts
  BY <1>1 DEF PhaseOK, LocksOK, CommandOK, StatusCommands
<1>3. /\ status' \in [Accounts -> {"active", "frozen"}]
      /\ \A a \in Accounts \ {acct} : status'[a] = status[a]
      /\ session' = [session EXCEPT ![s] = x]
      /\ UNCHANGED <<totals, ledger, idem>>
  BY <1>1 DEF PublishStatus
<1>4. x \in SessionRecords
  BY <1>1 DEF Idle, SessionRecords, PCs, None
<1>5. /\ session'[s] = x
      /\ \A t \in Others(s) : session'[t] = session[t]
      /\ session' \in [Sessions -> SessionRecords]
  BY <1>3, <1>4 DEF IInv, TypeOK, Others
<1>6. TypeOK'
  BY <1>3, <1>5 DEF IInv, TypeOK
<1>7. PhaseOK(session[s])'
  <2>1. x.pc = "idle" /\ x.held = {} /\ x.answer = None
    BY DEF Idle
  <2> HIDE DEF x
  <2> QED
    BY <1>5, <2>1 DEF PhaseOK, CommandOK, RowOK, LocksOK, CheckedOK, AnswerOK,
       KeyHeld, Planned
<1>8. ASSUME NEW t \in Others(s) PROVE PhaseOK(session[t])'
  <2> DEFINE q == session[t]
  <2>1. q \in SessionRecords /\ PhaseOK(q) /\ Exclusive(q, r) /\ session'[t] = q
    BY <1>5 DEF IInv, TypeOK, Others
  <2>2. \A a \in q.held : status'[a] = status[a]
    BY <1>2, <1>3, <2>1 DEF Exclusive, SessionRecords
  <2> HIDE DEF q
  <2> QED
    BY <1>3, <2>1, <2>2 DEF PhaseOK, CommandOK, RowOK, LocksOK, CheckedOK, AnswerOK,
       KeyHeld, Planned
<1>9. ASSUME NEW t \in Sessions, NEW u \in Sessions, t # u
      PROVE  Exclusive(session[t], session[u])'
  <2>1. \A q : Exclusive(x, q) /\ Exclusive(q, x)
    BY DEF Idle, Exclusive, KeyHeld
  <2>2. Exclusive(session'[t], session'[u])
    BY <1>5, <1>9, <2>1 DEF IInv, Others
  <2> QED BY <2>2 DEF Exclusive
<1>10. Recording'
  BY <1>3 DEF IInv, Recording
<1> QED BY <1>5, <1>6, <1>7, <1>8, <1>9, <1>10 DEF IInv, Others

\* A step in which nothing happens.
LEMMA StutterStep ==
  ASSUME IInv, UNCHANGED vars
  PROVE  IInv'
BY DEF IInv, vars, TypeOK, PhaseOK, CommandOK, RowOK, LocksOK, CheckedOK, AnswerOK,
   Exclusive, Recording

LEMMA InitIInv == Init => IInv
<1> SUFFICES ASSUME Init PROVE IInv
  OBVIOUS
<1>1. /\ Idle(NoCommand, None) \in SessionRecords
      /\ PhaseOK(Idle(NoCommand, None))
      /\ Exclusive(Idle(NoCommand, None), Idle(NoCommand, None))
  BY DEF Idle, SessionRecords, PCs, None, PhaseOK, CommandOK, RowOK, LocksOK,
     CheckedOK, AnswerOK, KeyHeld, Planned, Exclusive
<1>2. \A s \in Sessions : session[s] = Idle(NoCommand, None)
  BY DEF Init
<1>3. TypeOK
  BY <1>1 DEF Init, TypeOK, Totals
<1>4. Recording
  BY DEF Init, Recording
<1> QED BY <1>1, <1>2, <1>3, <1>4 DEF IInv

\* The invariant of the interleaved transactions.
THEOREM InductiveInvariant == Spec => []IInv
<1>1. IInv /\ [Next]_vars => IInv'
  <2> SUFFICES ASSUME IInv, [Next]_vars PROVE IInv'
    OBVIOUS
  <2>1. CASE UNCHANGED vars
    BY <2>1, StutterStep
  <2>2. ASSUME NEW s \in Sessions, Begin(s) \/ Step(s) \/ Crash(s) PROVE IInv'
    <3>1. CASE Crash(s)
      BY <3>1, FailStep DEF Crash
    <3>2. CASE Begin(s)
      BY <3>2, BeginStep
    <3>3. CASE Step(s)
      BY <3>3, LookupStep, InsertKeyStep, PlanStep, LockAccountStep, CheckStep,
         AppendRowStep, CommitStep, UpdateStatusStep, PublishStatusStep DEF Step
    <3> QED BY <2>2, <3>1, <3>2, <3>3
  <2> QED BY <2>1, <2>2 DEF Next
<1> QED BY InitIInv, <1>1, PTL DEF Spec

-----------------------------------------------------------------------------
(* The properties *)

\* The types of the tables and of the sessions.
THEOREM TypeCorrect == Spec => []TypeOK
<1>1. IInv => TypeOK
  BY DEF IInv
<1> QED BY InductiveInvariant, <1>1, PTL

\* What a commit finds: everything its statements established still holds.
LEMMA CommitFacts ==
  ASSUME IInv, NEW s \in Sessions, Commit(s)
  PROVE  /\ session[s].cmd \in Requests \cap PostingCommands
         /\ session[s].row \in Rows /\ session[s].row \in RowsFor(session[s].cmd, ledger)
         /\ session[s].row.origin = session[s].cmd
         /\ \A a \in Touched(session[s].row) : status[a] = "active"
         /\ Sufficient(totals, session[s].row)
         /\ AcceptedBySchema(session[s].row, ledger)
         /\ \A rec \in idem : ~SameKey(rec.cmd, session[s].cmd)
<1>1. session[s].pc = "commit" /\ PhaseOK(session[s]) /\ ledger \in Seq(Rows)
  BY DEF IInv, TypeOK, Commit
<1>2. session[s].cmd \in Requests \cap PostingCommands
  BY <1>1 DEF PhaseOK, CommandOK, KeyHeld
<1>3. session[s].row \in Rows /\ session[s].row \in RowsFor(session[s].cmd, ledger)
  BY <1>1 DEF PhaseOK, RowOK, Planned
<1>4. session[s].row.origin = session[s].cmd
  BY <1>1, <1>2, <1>3, RowsForType
<1>5. \A a \in Touched(session[s].row) : status[a] = "active"
  BY <1>1 DEF PhaseOK, LocksOK, CheckedOK, Planned
<1> QED BY <1>1, <1>2, <1>3, <1>4, <1>5 DEF PhaseOK, CheckedOK, KeyHeld

\* Only a commit adds a row or changes a balance.
LEMMA OnlyCommitWrites ==
  ASSUME [Next]_vars, ~\E s \in Sessions : Commit(s)
  PROVE  UNCHANGED <<totals, ledger, idem>>
<1>1. CASE UNCHANGED vars
  BY <1>1 DEF vars
<1>2. ASSUME NEW s \in Sessions, Begin(s) \/ Step(s) \/ Crash(s)
      PROVE  UNCHANGED <<totals, ledger, idem>>
  BY <1>2 DEF Begin, Step, Crash, Fail, Lookup, InsertKey, Resolve, Plan, LockAccount,
     Check, AppendRow, UpdateStatus, PublishStatus, tables
<1> QED BY <1>1, <1>2 DEF Next

\* No interleaving drives a user account below zero.
THEOREM UserFundsNeverNegative == Spec => []NonNegative
<1>1. Init => NonNegative
  BY AccountsAssumption DEF Init, NonNegative, Balance
<1>2. IInv /\ NonNegative /\ [Next]_vars => NonNegative'
  <2> SUFFICES ASSUME IInv, NonNegative, [Next]_vars PROVE NonNegative'
    OBVIOUS
  <2>1. CASE ~\E s \in Sessions : Commit(s)
    <3>1. totals' = totals
      BY <2>1, OnlyCommitWrites
    <3> QED BY <3>1 DEF NonNegative, Balance
  <2>2. ASSUME NEW s \in Sessions, Commit(s) PROVE NonNegative'
    <3> DEFINE row == session[s].row
    <3>1. row \in Rows /\ Sufficient(totals, row)
      BY <2>2, CommitFacts
    <3>2. totals \in Totals /\ totals' = Applied(totals, row)
      BY <2>2 DEF IInv, TypeOK, Commit
    <3> HIDE DEF row
    <3>3. ASSUME NEW a \in UserAccounts PROVE Balance(Applied(totals, row), a) >= 0
      <4>1. Balance(Applied(totals, row), a) = Balance(totals, a) + (row.credits[a] - row.debits[a])
        BY <3>1, <3>2, AppliedFacts
      <4>2. CASE a \in Touched(row)
        BY <3>1, <4>1, <4>2 DEF Sufficient
      <4>3. CASE a \notin Touched(row)
        <5>1. a \in Accounts
          BY AccountsAssumption
        <5>2. Applied(totals, row)[a] = totals[a]
          BY <3>1, <3>2, <4>3, <5>1, AppliedFacts
        <5> QED BY <5>2 DEF NonNegative, Balance
      <4> QED BY <4>2, <4>3
    <3> QED BY <3>2, <3>3 DEF NonNegative, Balance
  <2> QED BY <2>1, <2>2
<1> QED BY InductiveInvariant, <1>1, <1>2, PTL DEF Spec

\* A reservation is resolved at most once.
THEOREM ReservationsResolveOnce == Spec => []SingleResolution
<1>1. Init => SingleResolution
  BY DEF Init, SingleResolution
<1>2. IInv /\ SingleResolution /\ [Next]_vars => SingleResolution'
  <2> SUFFICES ASSUME IInv, SingleResolution, [Next]_vars PROVE SingleResolution'
    OBVIOUS
  <2>1. CASE ~\E s \in Sessions : Commit(s)
    BY <2>1, OnlyCommitWrites DEF SingleResolution
  <2>2. ASSUME NEW s \in Sessions, Commit(s) PROVE SingleResolution'
    <3> DEFINE row == session[s].row
    <3>1. row \in Rows /\ \A i \in DOMAIN ledger : ~IndexConflict(row, ledger[i])
      BY <2>2, CommitFacts DEF AcceptedBySchema
    <3>2. ledger \in Seq(Rows) /\ ledger' = Append(ledger, row)
      BY <2>2 DEF IInv, TypeOK, Commit
    <3> HIDE DEF row
    <3>3. \A r, q : IndexConflict(r, q) => IndexConflict(q, r)
      BY DEF IndexConflict, Resolves
    <3>4. /\ DOMAIN ledger' = DOMAIN ledger \cup {Len(ledger) + 1}
          /\ \A i \in DOMAIN ledger : ledger'[i] = ledger[i]
          /\ ledger'[Len(ledger) + 1] = row
      BY <3>1, <3>2, AppendFacts
    <3> QED BY <3>1, <3>3, <3>4 DEF SingleResolution
  <2> QED BY <2>1, <2>2
<1> QED BY InductiveInvariant, <1>1, <1>2, PTL DEF Spec

\* An idempotency key posts at most once.
THEOREM KeysPostOnce == Spec => []KeyPostsOnce
<1>1. Init => KeyPostsOnce
  BY DEF Init, KeyPostsOnce
<1>2. IInv /\ KeyPostsOnce /\ [Next]_vars => KeyPostsOnce'
  <2> SUFFICES ASSUME IInv, KeyPostsOnce, [Next]_vars PROVE KeyPostsOnce'
    OBVIOUS
  <2>1. CASE ~\E s \in Sessions : Commit(s)
    BY <2>1, OnlyCommitWrites DEF KeyPostsOnce
  <2>2. ASSUME NEW s \in Sessions, Commit(s) PROVE KeyPostsOnce'
    <3> DEFINE row == session[s].row
    <3>1. row \in Rows /\ \A rec \in idem : ~SameKey(rec.cmd, row.origin)
      BY <2>2, CommitFacts
    <3>2. \A i \in DOMAIN ledger : ~SameKey(ledger[i].origin, row.origin)
      BY <3>1 DEF IInv, Recording
    <3>3. ledger \in Seq(Rows) /\ ledger' = Append(ledger, row)
      BY <2>2 DEF IInv, TypeOK, Commit
    <3> HIDE DEF row
    <3>4. /\ DOMAIN ledger' = DOMAIN ledger \cup {Len(ledger) + 1}
          /\ \A i \in DOMAIN ledger : ledger'[i] = ledger[i]
          /\ ledger'[Len(ledger) + 1] = row
      BY <3>1, <3>3, AppendFacts
    <3> QED BY <3>2, <3>4 DEF KeyPostsOnce, SameKey
  <2> QED BY <2>1, <2>2
<1> QED BY InductiveInvariant, <1>1, <1>2, PTL DEF Spec

\* Neither a reservation nor a key ever takes effect a second time.
THEOREM EffectsHappenOnce == Spec => []EffectsOnce
<1>1. SingleResolution /\ KeyPostsOnce => EffectsOnce
  BY DEF EffectsOnce
<1> QED BY <1>1, ReservationsResolveOnce, KeysPostOnce, PTL

\* An answer is the transaction of the command that was sent.
THEOREM AnswersAreFaithful == Spec => []AnswersTheCommand
<1>1. IInv => AnswersTheCommand
  BY DEF IInv, PhaseOK, AnswerOK, AnswersTheCommand
<1> QED BY InductiveInvariant, <1>1, PTL

\* No posting commits on an account that is frozen at that moment.
THEOREM FrozenAccountsTakeNoPosting == Spec => NoPostingOnFrozen
<1> DEFINE Safe == \A i \in DOMAIN ledger' \ DOMAIN ledger :
                     \A a \in Touched(ledger'[i]) : status[a] = "active"
<1>1. IInv /\ [Next]_vars => [Safe]_vars
  <2> SUFFICES ASSUME IInv, [Next]_vars PROVE Safe
    OBVIOUS
  <2>1. CASE ~\E s \in Sessions : Commit(s)
    BY <2>1, OnlyCommitWrites
  <2>2. ASSUME NEW s \in Sessions, Commit(s) PROVE Safe
    <3>1. /\ session[s].row \in Rows /\ ledger \in Seq(Rows)
          /\ \A a \in Touched(session[s].row) : status[a] = "active"
      BY <2>2, CommitFacts DEF IInv, TypeOK
    <3>2. ledger' = Append(ledger, session[s].row)
      BY <2>2 DEF Commit
    <3> QED BY <3>1, <3>2, AppendFacts
  <2> QED BY <2>1, <2>2
<1> QED BY InductiveInvariant, <1>1, PTL DEF Spec, NoPostingOnFrozen

\* The rules the serial ledger is instantiated with are these rules.
LEMMA SerialRules ==
  /\ \A c, L : Serial!RowsFor(c, L) = RowsFor(c, L)
  /\ \A row : Serial!Touched(row) = Touched(row)
  /\ \A T, row : Serial!Sufficient(T, row) <=> Sufficient(T, row)
  /\ \A T, row : Serial!Applied(T, row) = Applied(T, row)
  /\ \A L, row : Serial!AcceptedBySchema(row, L) <=> AcceptedBySchema(row, L)
  /\ \A c, d : Serial!SameKey(c, d) <=> SameKey(c, d)
  /\ Serial!PostingCommands = PostingCommands
<1>1. \A row : Serial!Touched(row) = Touched(row)
  BY DEF Serial!Touched, Touched
<1>2. \A T, row : Serial!Sufficient(T, row) <=> Sufficient(T, row)
  BY <1>1 DEF Serial!Sufficient, Sufficient, Serial!Balance, Balance
<1>3. \A T, row : Serial!Applied(T, row) = Applied(T, row)
  BY DEF Serial!Applied, Applied
<1>4. \A r, q : Serial!IndexConflict(r, q) <=> IndexConflict(r, q)
  BY DEF Serial!IndexConflict, IndexConflict, Serial!Resolves, Resolves,
     Serial!ResolutionTypes, ResolutionTypes
<1>5. \A L, row : Serial!AcceptedBySchema(row, L) <=> AcceptedBySchema(row, L)
  BY <1>4 DEF Serial!AcceptedBySchema, AcceptedBySchema, Serial!ResolutionTypes,
     ResolutionTypes, Serial!None, None
<1>6. \A c, d : Serial!SameKey(c, d) <=> SameKey(c, d)
  BY DEF Serial!SameKey, SameKey
<1>7. Serial!PostingCommands = PostingCommands
  BY DEF Serial!PostingCommands, PostingCommands, Serial!PostTransactions,
     PostTransactions, Serial!ReserveCommands, ReserveCommands,
     Serial!ReleaseCommands, ReleaseCommands, Serial!CaptureCommands,
     CaptureCommands, Serial!TransactionTypes, TransactionTypes,
     Serial!ReserveTypes, ReserveTypes, Serial!ResolutionTypes, ResolutionTypes,
     Serial!AdminOnlyTypes, AdminOnlyTypes, Serial!Amounts, Amounts
<1>8. \A c, L : Serial!RowsFor(c, L) = RowsFor(c, L)
  <2>1. \A t, f, g, n, r, c : Serial!TransferRow(t, f, g, n, r, c) = TransferRow(t, f, g, n, r, c)
    BY DEF Serial!TransferRow, TransferRow
  <2>2. \A c : Serial!PostedRows(c) = PostedRows(c)
    <3>1. \A f : Serial!Total(f) = Total(f)
      BY DEF Serial!Total, Total, Serial!MapThenSumSet, MapThenSumSet,
         Serial!MapThenFoldSet, MapThenFoldSet
    <3>2. \A c : Serial!Balanced(c) <=> Balanced(c)
      BY <3>1 DEF Serial!Balanced, Balanced
    <3>3. Serial!AdminOnlyTypes = AdminOnlyTypes
      BY DEF Serial!AdminOnlyTypes, AdminOnlyTypes
    <3> QED BY <3>2, <3>3 DEF Serial!PostedRows, PostedRows
  <2>3. \A L, r : Serial!IsReservation(L, r) <=> IsReservation(L, r)
    BY DEF Serial!IsReservation, IsReservation, Serial!ReserveTypes, ReserveTypes
  <2>4. \A row : Serial!ReservationEntries(row) = ReservationEntries(row)
    BY DEF Serial!ReservationEntries, ReservationEntries, Serial!Debited, Debited,
       Serial!Credited, Credited
  <2>5. /\ \A row : Serial!ReleaseType(row) = ReleaseType(row)
        /\ \A row : Serial!CaptureType(row) = CaptureType(row)
    BY DEF Serial!ReleaseType, ReleaseType, Serial!CaptureType, CaptureType
  <2>6. \A c, L : Serial!ReleaseRows(c, L) = ReleaseRows(c, L)
    BY <2>1, <2>3, <2>4, <2>5 DEF Serial!ReleaseRows, ReleaseRows
  <2>7. \A c, L : Serial!CaptureRows(c, L) = CaptureRows(c, L)
    BY <2>1, <2>3, <2>4, <2>5 DEF Serial!CaptureRows, CaptureRows
  <2>8. Serial!None = None
    BY DEF Serial!None, None
  <2> QED BY <2>1, <2>2, <2>6, <2>7, <2>8 DEF Serial!RowsFor, RowsFor
<1> QED BY <1>1, <1>2, <1>3, <1>5, <1>6, <1>7, <1>8

\* The interleaved transactions implement the serial ledger: a commit is one
\* serial command or one status change, every other step changes no table.
THEOREM LedgerImplementsSerial == Spec => SerialSpec
<1>1. Init => Serial!Init
  BY DEF Init, Serial!Init
<1>2. IInv /\ [Next]_vars => [Serial!Next]_(Serial!vars)
  <2> SUFFICES ASSUME IInv, [Next]_vars PROVE [Serial!Next]_(Serial!vars)
    OBVIOUS
  <2>1. CASE UNCHANGED vars
    BY <2>1 DEF vars, Serial!vars
  <2>2. ASSUME NEW s \in Sessions, Commit(s) PROVE Serial!Next
    <3>1. Serial!Execute(session[s].cmd, session[s].row)
      BY <2>2, CommitFacts, SerialRules DEF Commit, Serial!Execute
    <3>2. session[s].cmd \in Requests \cap PostingCommands
          /\ session[s].row \in RowsFor(session[s].cmd, ledger)
      BY <2>2, CommitFacts
    <3> QED BY <3>1, <3>2, SerialRules DEF Serial!Next
  <2>3. ASSUME NEW s \in Sessions, PublishStatus(s) PROVE Serial!Next
    <3>1. session[s].cmd \in StatusCommands
      BY <2>3 DEF IInv, PhaseOK, CommandOK, PublishStatus
    <3>2. session[s].cmd.account \in Accounts
      BY <3>1 DEF StatusCommands
    <3>3. Serial!SetStatus(session[s].cmd.account,
            IF session[s].cmd.op = "freeze" THEN "frozen" ELSE "active")
      BY <2>3 DEF PublishStatus, Serial!SetStatus
    <3> QED BY <3>2, <3>3 DEF Serial!Next
  <2>4. ASSUME NEW s \in Sessions, Begin(s) \/ Step(s) \/ Crash(s),
               ~Commit(s), ~PublishStatus(s)
        PROVE  UNCHANGED Serial!vars
    BY <2>4 DEF Begin, Step, Crash, Fail, Lookup, InsertKey, Resolve, Plan, LockAccount,
       Check, AppendRow, UpdateStatus, tables, Serial!vars
  <2> QED BY <2>1, <2>2, <2>3, <2>4 DEF Next
<1> QED BY InductiveInvariant, <1>1, <1>2, PTL DEF Spec, SerialSpec, Serial!Spec

-----------------------------------------------------------------------------
(* The books *)

\* The sums of what the rows of a ledger debit and credit an account.
DebitsOf(L, a) == [i \in DOMAIN L |-> L[i].debits[a]]
CreditsOf(L, a) == [i \in DOMAIN L |-> L[i].credits[a]]

LEMMA EntriesAreAmounts ==
  ASSUME NEW L \in Seq(Rows), NEW a \in Accounts
  PROVE  /\ IsFiniteSet(DOMAIN L) /\ DOMAIN L \subseteq Nat
         /\ IntOn(DebitsOf(L, a), DOMAIN L) /\ IntOn(CreditsOf(L, a), DOMAIN L)
<1>1. DOMAIN L = 1 .. Len(L) /\ Len(L) \in Nat
  OBVIOUS
<1>2. IsFiniteSet(1 .. Len(L))
  BY <1>1, FS_Interval
<1>3. \A i \in DOMAIN L : L[i].debits[a] \in Int /\ L[i].credits[a] \in Int
  <2> TAKE i \in DOMAIN L
  <2>1. L[i] \in Rows
    BY <1>1
  <2> QED
    BY <2>1 DEF Rows
<1> QED
  BY <1>1, <1>2, <1>3 DEF IntOn, DebitsOf, CreditsOf

\* The sum of a function that takes one more value.
GrownBy(f, g, n) == Total(g) = Total(f) + g[n]

LEMMA TotalGrows ==
  ASSUME NEW D, IsFiniteSet(D), NEW n, n \notin D,
         NEW f \in [D -> Int], NEW g \in [D \cup {n} -> Int], \A i \in D : g[i] = f[i]
  PROVE  GrownBy(f, g, n)
<1>1. Total(f) = Sum(f, D) /\ Total(g) = Sum(g, D \cup {n})
  BY SumIsTotal
<1>2. IntOn(f, D) /\ IntOn(g, D \cup {n}) /\ g[n] \in Int
  BY DEF IntOn
<1>3. Sum(g, D \cup {n}) = g[n] + Sum(g, D)
  BY <1>2, SumAdd
<1>4. Sum(g, D) = Sum(f, D)
  BY SumSame
<1>5. Sum(f, D) \in Int
  BY <1>2, SumInt
<1> QED
  BY <1>1, <1>2, <1>3, <1>4, <1>5 DEF GrownBy

\* One more row adds what it says.
AddedBy(L, M, n, a) ==
  /\ Total(DebitsOf(M, a)) = Total(DebitsOf(L, a)) + M[n].debits[a]
  /\ Total(CreditsOf(M, a)) = Total(CreditsOf(L, a)) + M[n].credits[a]

LEMMA RowAdds ==
  ASSUME NEW D, IsFiniteSet(D), NEW n, n \notin D,
         NEW L, DOMAIN L = D, NEW M, DOMAIN M = D \cup {n},
         \A i \in D : M[i] = L[i], NEW a,
         \A i \in D \cup {n} : M[i].debits[a] \in Int /\ M[i].credits[a] \in Int
  PROVE  AddedBy(L, M, n, a)
<1>1. Total(DebitsOf(M, a)) = Total(DebitsOf(L, a)) + M[n].debits[a]
  <2> DEFINE f == DebitsOf(L, a)
             g == DebitsOf(M, a)
  <2>1. /\ f \in [D -> Int] /\ g \in [D \cup {n} -> Int]
        /\ g[n] = M[n].debits[a] /\ \A i \in D : g[i] = f[i]
    BY DEF DebitsOf
  <2> HIDE DEF f, g
  <2>2. GrownBy(f, g, n)
    BY <2>1, TotalGrows, Zenon
  <2> QED
    BY <2>1, <2>2 DEF f, g, GrownBy
<1>2. Total(CreditsOf(M, a)) = Total(CreditsOf(L, a)) + M[n].credits[a]
  <2> DEFINE f == CreditsOf(L, a)
             g == CreditsOf(M, a)
  <2>1. /\ f \in [D -> Int] /\ g \in [D \cup {n} -> Int]
        /\ g[n] = M[n].credits[a] /\ \A i \in D : g[i] = f[i]
    BY DEF CreditsOf
  <2> HIDE DEF f, g
  <2>2. GrownBy(f, g, n)
    BY <2>1, TotalGrows, Zenon
  <2> QED
    BY <2>1, <2>2 DEF f, g, GrownBy
<1> QED
  BY <1>1, <1>2 DEF AddedBy

\* A row that is appended adds what it says.
LEMMA AppendAdds ==
  ASSUME NEW L \in Seq(Rows), NEW row \in Rows, NEW a \in Accounts
  PROVE  /\ Total(DebitsOf(Append(L, row), a)) = Total(DebitsOf(L, a)) + row.debits[a]
         /\ Total(CreditsOf(Append(L, row), a)) = Total(CreditsOf(L, a)) + row.credits[a]
<1> DEFINE M == Append(L, row)
           n == Len(L) + 1
<1>1. /\ M \in Seq(Rows) /\ DOMAIN M = DOMAIN L \cup {n} /\ n \notin DOMAIN L
      /\ M[n] = row /\ \A i \in DOMAIN L : M[i] = L[i]
  BY AppendFacts
<1>2. IsFiniteSet(DOMAIN L)
  BY EntriesAreAmounts
<1> HIDE DEF M, n
<1>3. \A i \in DOMAIN L \cup {n} : M[i].debits[a] \in Int /\ M[i].credits[a] \in Int
  BY <1>1, EntriesAreAmounts DEF IntOn, DebitsOf, CreditsOf
<1>4. /\ DOMAIN M = DOMAIN L \cup {n} /\ n \notin DOMAIN L
      /\ \A i \in DOMAIN L : M[i] = L[i]
  BY <1>1
<1>5. AddedBy(L, M, n, a)
  BY <1>2, <1>3, <1>4, RowAdds, Zenon
<1> QED
  BY <1>1, <1>5 DEF M, AddedBy

\* Every row is one that its command may post.
Provenance ==
  \A i \in DOMAIN ledger :
    /\ ledger[i].origin \in PostingCommands
    /\ ledger[i] \in RowsFor(ledger[i].origin, ledger)

\* What makes BooksAgree inductive.
BooksInv == Reconcilable /\ Provenance

LEMMA BooksCommit ==
  ASSUME IInv, BooksInv, NEW s \in Sessions, Commit(s)
  PROVE  BooksInv'
<1> DEFINE row == session[s].row
<1>1. /\ row \in Rows /\ row \in RowsFor(row.origin, ledger) /\ row.origin \in PostingCommands
      /\ ledger \in Seq(Rows) /\ totals \in Totals
      /\ ledger' = Append(ledger, row) /\ totals' = Applied(totals, row)
  BY CommitFacts DEF IInv, TypeOK, Commit
<1> HIDE DEF row
<1>2. Reconcilable'
  <2>1. ASSUME NEW a \in Accounts
        PROVE  /\ totals'[a].debits = Total(DebitsOf(ledger', a))
               /\ totals'[a].credits = Total(CreditsOf(ledger', a))
    <3>1. /\ totals'[a].debits = totals[a].debits + row.debits[a]
          /\ totals'[a].credits = totals[a].credits + row.credits[a]
      BY <1>1 DEF Applied
    <3>2. /\ totals[a].debits = Total(DebitsOf(ledger, a))
          /\ totals[a].credits = Total(CreditsOf(ledger, a))
      BY DEF BooksInv, Reconcilable, DebitsOf, CreditsOf
    <3> QED
      BY <1>1, <3>1, <3>2, AppendAdds
  <2> QED
    BY <2>1 DEF Reconcilable, DebitsOf, CreditsOf
<1>3. Provenance'
  <2>1. /\ DOMAIN ledger' = DOMAIN ledger \cup {Len(ledger) + 1}
        /\ \A i \in DOMAIN ledger : ledger'[i] = ledger[i]
        /\ ledger'[Len(ledger) + 1] = row
    BY <1>1, AppendFacts
  <2>2. \A c : \A r \in RowsFor(c, ledger) : r \in RowsFor(c, ledger')
    BY <1>1, RowsForGrows
  <2> QED
    BY <1>1, <2>1, <2>2 DEF BooksInv, Provenance
<1> QED
  BY <1>2, <1>3 DEF BooksInv

\* The balances are the sums of the entries, and every row is of the kind and
\* of the accounts that its command says.
THEOREM BooksInvariant == Spec => []BooksInv
<1>1. Init => BooksInv
  <2> SUFFICES ASSUME Init
               PROVE  BooksInv
    OBVIOUS
  <2>1. \A a \in Accounts : Total(DebitsOf(ledger, a)) = 0 /\ Total(CreditsOf(ledger, a)) = 0
    BY TotalEmpty DEF Init, DebitsOf, CreditsOf
  <2> QED
    BY <2>1 DEF Init, BooksInv, Reconcilable, Provenance, DebitsOf, CreditsOf
<1>2. IInv /\ BooksInv /\ [Next]_vars => BooksInv'
  <2> SUFFICES ASSUME IInv, BooksInv, [Next]_vars
               PROVE  BooksInv'
    OBVIOUS
  <2>1. CASE ~\E s \in Sessions : Commit(s)
    BY <2>1, OnlyCommitWrites DEF BooksInv, Reconcilable, Provenance
  <2>2. CASE \E s \in Sessions : Commit(s)
    BY <2>2, BooksCommit
  <2> QED
    BY <2>1, <2>2
<1> QED
  BY InductiveInvariant, <1>1, <1>2, PTL DEF Spec

\* What a reservation and its resolution are.
LEMMA ReserveRow ==
  ASSUME NEW L, NEW c \in PostingCommands, NEW row \in RowsFor(c, L), c.op = "reserve_funds"
  PROVE  /\ row.type \in ReserveTypes /\ c.amount \in Nat \ {0}
         /\ c.source \in Accounts /\ c.reserve \in Accounts
         /\ row.debits = [a \in Accounts |-> IF a = c.source THEN c.amount ELSE 0]
         /\ row.credits = [a \in Accounts |-> IF a = c.reserve THEN c.amount ELSE 0]
<1>1. c \in ReserveCommands
  BY DEF PostingCommands, PostTransactions, ReleaseCommands, CaptureCommands
<1>2. row = TransferRow(c.type, c.source, c.reserve, c.amount, None, c)
  BY DEF RowsFor
<1> QED
  BY <1>1, <1>2 DEF TransferRow, ReserveCommands, Amounts

\* row resolves reservation r, taking back what one of its entries gave.
Resolution(row, r) ==
  \E p \in ReservationEntries(r) :
    /\ row.debits = [a \in Accounts |-> IF a = p[2] THEN r.debits[p[1]] ELSE 0]
    /\ row.origin.op = "release_reserved_funds" =>
         row.credits = [a \in Accounts |-> IF a = p[1] THEN r.debits[p[1]] ELSE 0]

LEMMA ResolvingRow ==
  ASSUME NEW L, NEW c \in PostingCommands, NEW row \in RowsFor(c, L), ResolvingCommand(c)
  PROVE  /\ IsReservation(L, row.related) /\ row.type \in ResolutionTypes
         /\ Resolution(row, L[row.related])
<1> DEFINE r == L[c.reservation]
<1>1. CASE c.op = "release_reserved_funds"
  <2>1. row \in ReleaseRows(c, L)
    BY <1>1 DEF RowsFor
  <2>2. IsReservation(L, c.reservation)
    BY <2>1 DEF ReleaseRows
  <2>3. PICK p \in ReservationEntries(r) :
          row = TransferRow(ReleaseType(r), p[2], p[1], r.debits[p[1]], c.reservation, c)
    BY <2>1, <2>2 DEF ReleaseRows
  <2>4. ReleaseType(r) \in ResolutionTypes
    BY DEF ReleaseType, ResolutionTypes
  <2> QED
    BY <1>1, <2>2, <2>3, <2>4 DEF TransferRow, Resolution
<1>2. CASE c.op = "capture_reserved_funds"
  <2>1. row \in CaptureRows(c, L)
    BY <1>2 DEF RowsFor
  <2>2. IsReservation(L, c.reservation)
    BY <2>1 DEF CaptureRows
  <2>3. PICK p \in ReservationEntries(r) :
          row = TransferRow(CaptureType(r), p[2], c.destination, r.debits[p[1]], c.reservation, c)
    BY <2>1, <2>2 DEF CaptureRows
  <2>4. CaptureType(r) \in ResolutionTypes
    BY DEF CaptureType, ResolutionTypes
  <2> QED
    BY <1>2, <2>2, <2>3, <2>4 DEF TransferRow, Resolution
<1> QED
  BY <1>1, <1>2 DEF ResolvingCommand

\* A resolution moves the whole of what was reserved.
LEMMA ResolutionsAreWhole ==
  ASSUME Provenance, NEW i \in DOMAIN ledger, ResolvingCommand(ledger[i].origin)
  PROVE  /\ ledger[i].related \in DOMAIN ledger
         /\ ledger[ledger[i].related].type \in ReserveTypes
         /\ ledger[i].type \in ResolutionTypes
         /\ ledger[ledger[i].related].origin.op = "reserve_funds" =>
              /\ ledger[i].debits = ledger[ledger[i].related].credits
              /\ ledger[i].origin.op = "release_reserved_funds" =>
                   ledger[i].credits = ledger[ledger[i].related].debits
<1> DEFINE row == ledger[i]
           r == ledger[row.related]
<1>1. /\ row.origin \in PostingCommands /\ row \in RowsFor(row.origin, ledger)
  BY DEF Provenance
<1>2. /\ IsReservation(ledger, row.related) /\ row.type \in ResolutionTypes
      /\ Resolution(row, r)
  BY <1>1, ResolvingRow
<1>3. row.related \in DOMAIN ledger /\ r.type \in ReserveTypes
  BY <1>2 DEF IsReservation
<1>4. ASSUME r.origin.op = "reserve_funds"
      PROVE  /\ row.debits = r.credits
             /\ row.origin.op = "release_reserved_funds" => row.credits = r.debits
  <2> DEFINE c == r.origin
  <2>1. c \in PostingCommands /\ r \in RowsFor(c, ledger)
    BY <1>3 DEF Provenance
  <2>2. /\ c.amount \in Nat \ {0} /\ c.source \in Accounts /\ c.reserve \in Accounts
        /\ r.debits = [a \in Accounts |-> IF a = c.source THEN c.amount ELSE 0]
        /\ r.credits = [a \in Accounts |-> IF a = c.reserve THEN c.amount ELSE 0]
    BY <1>4, <2>1, ReserveRow
  <2>3. PICK p \in ReservationEntries(r) :
          /\ row.debits = [a \in Accounts |-> IF a = p[2] THEN r.debits[p[1]] ELSE 0]
          /\ row.origin.op = "release_reserved_funds" =>
               row.credits = [a \in Accounts |-> IF a = p[1] THEN r.debits[p[1]] ELSE 0]
    BY <1>2 DEF Resolution
  <2>4. p[1] \in Accounts /\ p[2] \in Accounts /\ r.debits[p[1]] > 0 /\ r.credits[p[2]] > 0
    BY <2>3 DEF ReservationEntries, Debited, Credited
  <2> HIDE DEF row, r, c
  <2>5. p[1] = c.source /\ p[2] = c.reserve
    BY <2>2, <2>4
  <2> QED
    BY <2>2, <2>3, <2>5
<1> QED
  BY <1>2, <1>3, <1>4

LEMMA WholeIfProvenance == Provenance => WholeResolution
<1> SUFFICES ASSUME Provenance, NEW i \in DOMAIN ledger,
                    ResolvingCommand(ledger[i].origin),
                    ledger[ledger[i].related].origin.op = "reserve_funds"
             PROVE  /\ ledger[i].debits = ledger[ledger[i].related].credits
                    /\ ledger[i].origin.op = "release_reserved_funds" =>
                         ledger[i].credits = ledger[ledger[i].related].debits
  BY DEF WholeResolution
<1> QED
  BY ResolutionsAreWhole

\* A reserve account holds the open reservations: each row that takes from it takes
\* the whole of one of the others.
LEMMA ReservesAreCovered ==
  ASSUME TypeOK, BooksInv, SingleResolution, NEW a \in UserAccounts,
         \A i \in DOMAIN ledger :
           /\ ledger[i].debits[a] > 0 => ResolvingCommand(ledger[i].origin)
           /\ ledger[i].credits[a] > 0 =>
                /\ ledger[i].origin.op = "reserve_funds"
                /\ \A j \in DOMAIN ledger :
                     Resolves(ledger[j], i) => ResolvingCommand(ledger[j].origin)
  PROVE  Balance(totals, a) = Total([i \in OpenReservations |-> ledger[i].credits[a]])
<1> DEFINE D == DOMAIN ledger
           in == CreditsOf(ledger, a)
           out == DebitsOf(ledger, a)
           Open == OpenReservations
           Taking == {j \in D : out[j] # 0}
           taken == [j \in D |-> ledger[j].related]
           Taken == {taken[j] : j \in Taking}
<1>1. a \in Accounts /\ a \notin DebitNormal /\ ledger \in Seq(Rows)
  BY AccountsAssumption DEF TypeOK
<1>2. IsFiniteSet(D) /\ IntOn(in, D) /\ IntOn(out, D)
  BY <1>1, EntriesAreAmounts
<1>3. Balance(totals, a) = Total(in) - Total(out)
  BY <1>1 DEF Balance, BooksInv, Reconcilable, DebitsOf, CreditsOf
<1>4. \A i \in D : ledger[i] \in Rows /\ in[i] = ledger[i].credits[a]
                   /\ out[i] = ledger[i].debits[a] /\ in[i] \in Nat /\ out[i] \in Nat
  <2> TAKE i \in D
  <2>1. ledger[i] \in Rows
    BY <1>1
  <2> QED
    BY <1>1, <2>1 DEF CreditsOf, DebitsOf, Rows
<1>5. Open \in SUBSET D
  BY DEF OpenReservations
<1>6. ASSUME NEW j \in Taking
      PROVE  /\ taken[j] \in D \ Open /\ in[taken[j]] = out[j]
             /\ Resolves(ledger[j], taken[j])
  <2>1. j \in D /\ out[j] > 0 /\ ResolvingCommand(ledger[j].origin)
    BY <1>4
  <2>2. /\ taken[j] \in D /\ ledger[j].type \in ResolutionTypes
        /\ ledger[taken[j]].type \in ReserveTypes
        /\ ledger[taken[j]].origin.op = "reserve_funds" =>
             ledger[j].debits = ledger[taken[j]].credits
    BY <2>1, ResolutionsAreWhole DEF BooksInv
  <2>3. Resolves(ledger[j], taken[j])
    BY <2>1, <2>2 DEF Resolves
  <2>4. taken[j] \notin Open
    BY <2>1, <2>3 DEF OpenReservations
  <2>5. ledger[taken[j]].origin.op = "reserve_funds"
    <3>1. PICK p \in ReservationEntries(ledger[taken[j]]) :
            ledger[j].debits = [x \in Accounts |-> IF x = p[2]
                                 THEN ledger[taken[j]].debits[p[1]] ELSE 0]
      <4>1. ledger[j].origin \in PostingCommands
            /\ ledger[j] \in RowsFor(ledger[j].origin, ledger)
        BY <2>1 DEF BooksInv, Provenance
      <4>2. Resolution(ledger[j], ledger[ledger[j].related])
        BY <2>1, <4>1, ResolvingRow
      <4> QED
        BY <2>1, <4>2 DEF Resolution
    <3>2. p[2] = a
      BY <1>1, <1>4, <2>1, <3>1
    <3>3. ledger[taken[j]].credits[a] > 0
      BY <3>1, <3>2 DEF ReservationEntries, Credited
    <3> QED
      BY <2>2, <3>3
  <2> QED
    BY <1>4, <2>1, <2>2, <2>3, <2>4, <2>5
<1>7. \A i, j \in Taking : taken[i] = taken[j] => i = j
  <2> SUFFICES ASSUME NEW i \in Taking, NEW j \in Taking, taken[i] = taken[j]
               PROVE  i = j
    OBVIOUS
  <2>1. Resolves(ledger[i], taken[i]) /\ Resolves(ledger[j], taken[i])
    BY <1>6
  <2>2. IndexConflict(ledger[i], ledger[j])
    BY <2>1 DEF IndexConflict, Resolves
  <2> QED
    BY <2>2 DEF SingleResolution
<1>8. \A i \in (D \ Open) \ Taken : in[i] = 0
  <2> SUFFICES ASSUME NEW i \in D \ Open, in[i] # 0
               PROVE  i \in Taken
    OBVIOUS
  <2>1. in[i] > 0 /\ ledger[i].origin.op = "reserve_funds"
    BY <1>4
  <2>2. ledger[i].origin \in PostingCommands /\ ledger[i] \in RowsFor(ledger[i].origin, ledger)
    BY DEF BooksInv, Provenance
  <2>3. ledger[i].type \in ReserveTypes
    BY <2>1, <2>2, ReserveRow
  <2>4. PICK j \in D : Resolves(ledger[j], i)
    BY <2>3 DEF OpenReservations
  <2>5. ResolvingCommand(ledger[j].origin) /\ ledger[j].related = i
    BY <1>4, <2>1, <2>4 DEF Resolves
  <2>6. ledger[j].debits = ledger[i].credits
    BY <2>1, <2>5, ResolutionsAreWhole DEF BooksInv
  <2>7. j \in Taking
    BY <1>4, <2>1, <2>6
  <2> QED
    BY <2>5, <2>7
<1>9. Taken \in SUBSET (D \ Open) /\ Taking \in SUBSET D
  BY <1>6
<1>10. /\ \A j \in D \ Taking : out[j] = 0
       /\ \A j \in Taking : in[taken[j]] = out[j]
  BY <1>6
<1>11. Total(in) = Sum(in, D) /\ Total(out) = Sum(out, D)
  BY DEF Sum, CreditsOf, DebitsOf
<1>12. Total([i \in Open |-> ledger[i].credits[a]]) = Sum(in, Open)
  <2>1. [i \in Open |-> ledger[i].credits[a]] = [i \in Open |-> in[i]]
    BY <1>4, <1>5
  <2> QED
    BY <2>1 DEF Sum
<1> HIDE DEF D, in, out, Open, Taking, taken
<1>13. IsFiniteSet(Open) /\ IsFiniteSet(D \ Open) /\ IsFiniteSet(Taking)
  BY <1>2, <1>5, <1>9, FS_Subset, FS_Difference
<1>14. IntOn(in, Open \cup (D \ Open)) /\ Open \cup (D \ Open) = D
       /\ IntOn(in, D \ Open) /\ IntOn(in, Open) /\ IntOn(out, Taking)
  BY <1>2, <1>5, <1>9 DEF IntOn
<1>15. Sum(in, D) = Sum(in, Open) + Sum(in, D \ Open)
  <2>1. Open \cap (D \ Open) = {}
    OBVIOUS
  <2> QED
    BY <1>13, <1>14, <2>1, SumSplit
<1>16. Sum(in, D \ Open) = Sum(in, Taken)
  <2> HIDE DEF Taken
  <2> QED
    BY <1>8, <1>9, <1>13, <1>14, SumRelevant
<1>17. Sum(out, D) = Sum(out, Taking)
  BY <1>2, <1>9, <1>10, SumRelevant
<1>18. Sum(out, Taking) = Sum(in, Taken)
  BY <1>7, <1>10, <1>13, <1>14, SumImage
<1>19. Sum(in, Open) \in Int /\ Sum(in, D \ Open) \in Int
  BY <1>13, <1>14, SumInt
<1>20. Total(in) - Total(out) = Sum(in, Open)
  <2> HIDE DEF Taken
  <2> QED
    BY <1>11, <1>15, <1>16, <1>17, <1>18, <1>19
<1> QED
  BY <1>3, <1>12, <1>20 DEF in, out, Open

\* BooksAgree: balances agree with entries, resolutions with what they resolve,
\* and reserve accounts with the reservations still open.
THEOREM BooksAlwaysAgree == Spec => []BooksAgree
<1>1. TypeOK /\ BooksInv /\ SingleResolution => BooksAgree
  <2> SUFFICES ASSUME TypeOK, BooksInv, SingleResolution
               PROVE  BooksAgree
    OBVIOUS
  <2>1. Reconcilable /\ WholeResolution
    BY WholeIfProvenance DEF BooksInv
  <2>2. ReservesCovered
    BY ReservesAreCovered DEF ReservesCovered
  <2> QED
    BY <2>1, <2>2 DEF BooksAgree
<1> QED
  BY <1>1, TypeCorrect, BooksInvariant, ReservationsResolveOnce, PTL
=============================================================================
