----------------------------- MODULE Discrepancies -----------------------------
(***************************************************************************)
(* The operators' list of discrepancies (OperationsService).  A scan asks  *)
(* the detectors what is wrong, outside any transaction, and then writes   *)
(* all it found in one transaction, one issue after the other, each under  *)
(* the lock of its key.  Operators work on the list at the same time: a    *)
(* discrepancy is locked, read, moved to another status, and a line of its *)
(* history says from which status to which.                                *)
(*                                                                         *)
(* A lock stands for the advisory lock of a key and for the lock of its    *)
(* row.  What a scan writes is seen when it commits, so that a scan only   *)
(* remembers which keys it has locked.  Of its time the model keeps which  *)
(* scans began before it.  Severities, payloads, audit events and the      *)
(* operators' roles and reasons are left out.                              *)
(***************************************************************************)
EXTENDS Naturals, FiniteSets

CONSTANTS
  NumKeys,   \* the issues there may be, numbered as the detectors list them
  Scans,     \* scans that may run at the same time
  Operators, \* operators, each with one command at a time
  Nobody     \* no discrepancy is being worked on

Keys == 1 .. NumKeys

ASSUME DiscrepanciesAssumption == NumKeys \in Nat /\ Nobody \notin Keys

Closed == {"resolved", "suppressed"}
Working == {"open", "acknowledged", "in_progress"}
Statuses == Working \cup Closed

VARIABLES
  present,  \* the issues that are there, for the detectors to see
  status,   \* operational_discrepancies, by dedupe key: none before it exists
  scan,     \* what each scan is doing
  work      \* what each operator is doing

vars == <<present, status, scan, work>>

NoScan == [at |-> "idle", unread |-> {}, found |-> {}, locked |-> {},
           late |-> {}, before |-> {}]

ScanStates ==
  [at: {"idle", "detecting", "writing"}, unread: SUBSET Keys, found: SUBSET Keys,
   locked: SUBSET Keys, late: SUBSET Keys, before: SUBSET Scans]

NoWork == [key |-> Nobody, previous |-> "none", new |-> "none"]

Jobs == [key: Keys, previous: Statuses, new: Statuses] \cup {NoWork}

-----------------------------------------------------------------------------
(* Scans *)

Locked(k) ==
  \/ \E s \in Scans : k \in scan[s].locked
  \/ \E o \in Operators : work[o].key = k

\* Something goes wrong in the deposits, withdrawals or balances, or is mended.
Toggle(k) ==
  /\ present' = IF k \in present THEN present \ {k} ELSE present \cup {k}
  /\ UNCHANGED <<status, scan, work>>

\* A scan takes its time.
Begin(s) ==
  /\ scan[s].at = "idle"
  /\ scan' = [scan EXCEPT ![s] =
       [NoScan EXCEPT !.at = "detecting", !.unread = Keys,
                      !.before = {t \in Scans : scan[t].at # "idle"}]]
  /\ UNCHANGED <<present, status, work>>

\* A detector looks for an issue.
Detect(s, k) ==
  /\ k \in scan[s].unread
  /\ scan' = [scan EXCEPT ![s].unread = @ \ {k},
                          ![s].found = IF k \in present THEN @ \cup {k} ELSE @,
                          ![s].at = IF scan[s].unread = {k} THEN "writing" ELSE @]
  /\ UNCHANGED <<present, status, work>>

\* A scan that ends is before no other, and makes what it opened too late for
\* those that began before it.
Ended(s, opened) ==
  [t \in Scans |->
     IF t = s THEN NoScan
     ELSE [scan[t] EXCEPT !.before = @ \ {s},
                          !.late = IF t \in scan[s].before THEN @ \cup opened ELSE @]]

\* Nothing of a scan is kept that fails.
Fail(s) ==
  /\ scan[s].at # "idle"
  /\ scan' = Ended(s, {})
  /\ UNCHANGED <<present, status, work>>

LockNext_AnyOrder(s) ==
  /\ scan[s].at = "writing"
  /\ \E k \in scan[s].found \ scan[s].locked :
       /\ ~Locked(k)
       /\ scan' = IF k \in scan[s].late THEN Ended(s, {})
                  ELSE [scan EXCEPT ![s].locked = @ \cup {k}]
  /\ UNCHANGED <<present, status, work>>

\* materializeDiscrepancy waits for the lock of the next issue.  A row that was
\* opened after the scan's time must not be given that time as its last: the
\* constraint on the two fails the whole scan.
LockNext(s) ==
  /\ scan[s].at = "writing"
  /\ \E k \in scan[s].found \ scan[s].locked :
       /\ \A j \in scan[s].found \ scan[s].locked : k <= j
       /\ ~Locked(k)
       /\ scan' = IF k \in scan[s].late THEN Ended(s, {})
                  ELSE [scan EXCEPT ![s].locked = @ \cup {k}]
  /\ UNCHANGED <<present, status, work>>

Materialized_KeepsSuppressed(k) ==
  IF status[k] \in {"none", "resolved"} THEN "open" ELSE status[k]

\* An issue that is new or was closed is open, any other keeps its status.
Materialized(k) == IF status[k] \in Closed \cup {"none"} THEN "open" ELSE status[k]

Commit(s) ==
  /\ scan[s].at = "writing" /\ scan[s].locked = scan[s].found
  /\ status' = [k \in Keys |-> IF k \in scan[s].found THEN Materialized(k) ELSE status[k]]
  /\ scan' = Ended(s, {k \in scan[s].found : status[k] = "none"})
  /\ UNCHANGED <<present, work>>

-----------------------------------------------------------------------------
(* The workflow of the operators *)

\* acknowledge, assign, resolve, suppress and reopen go to one status each.
ValidTransition(current, next) ==
  CASE current = "open"         -> next \in {"acknowledged", "in_progress"} \cup Closed
    [] current = "acknowledged" -> next \in {"in_progress", "open"} \cup Closed
    [] current = "in_progress"  -> next \in {"open"} \cup Closed
    [] current \in Closed       -> next = "open"
    [] OTHER                    -> FALSE

Read_WithoutLock(o, k, next) ==
  /\ work[o] = NoWork
  /\ ValidTransition(status[k], next)
  /\ work' = [work EXCEPT ![o] = [key |-> k, previous |-> status[k], new |-> next]]
  /\ UNCHANGED <<present, status, scan>>

\* An operator locks and reads a discrepancy; a transition that is not allowed
\* changes nothing.
Read(o, k, next) ==
  /\ work[o] = NoWork /\ ~Locked(k)
  /\ ValidTransition(status[k], next)
  /\ work' = [work EXCEPT ![o] = [key |-> k, previous |-> status[k], new |-> next]]
  /\ UNCHANGED <<present, status, scan>>

\* The row and the line of the history, from the status that was read to the
\* new one, are written and committed together.
Write(o) ==
  /\ work[o] # NoWork
  /\ status' = [status EXCEPT ![work[o].key] = work[o].new]
  /\ work' = [work EXCEPT ![o] = NoWork]
  /\ UNCHANGED <<present, scan>>

\* Or the transaction breaks off.
GiveUp(o) ==
  /\ work[o] # NoWork
  /\ work' = [work EXCEPT ![o] = NoWork]
  /\ UNCHANGED <<present, status, scan>>

-----------------------------------------------------------------------------

Init ==
  /\ present = {}
  /\ status = [k \in Keys |-> "none"]
  /\ scan = [s \in Scans |-> NoScan]
  /\ work = [o \in Operators |-> NoWork]

Next ==
  \/ \E k \in Keys : Toggle(k)
  \/ \E s \in Scans : 
       \/ \E k \in Keys : Detect(s, k)
       \/ Begin(s) \/ LockNext(s) \/ Commit(s) \/ Fail(s)
  \/ \E o \in Operators :
       \/ \E k \in Keys, next \in Statuses : Read(o, k, next)
       \/ Write(o) \/ GiveUp(o)

Spec == Init /\ [][Next]_vars

-----------------------------------------------------------------------------
(* Properties *)

\* Types, and that a key is locked by one transaction at a time: two scans, a
\* scan and an operator, or two operators never hold the same discrepancy.
TypeOK ==
  /\ present \subseteq Keys
  /\ status \in [Keys -> Statuses \cup {"none"}]
  /\ scan \in [Scans -> ScanStates]
  /\ work \in [Operators -> Jobs]
  /\ \A s \in Scans : scan[s].locked \subseteq scan[s].found
  /\ \A s, t \in Scans : s # t => scan[s].locked \cap scan[t].locked = {}
  /\ \A o, p \in Operators : o # p /\ work[o] # NoWork => work[o].key # work[p].key
  /\ \A s \in Scans, o \in Operators : work[o].key \notin scan[s].locked

\* The line that an operator is about to add to the history of a discrepancy
\* says the status that the change is really from: no scan and no other
\* operator changes it between the operator's read and commit.
HistoryIsTrue ==
  \A o \in Operators : work[o] # NoWork => status[work[o].key] = work[o].previous

\* Two scans never wait for each other: all that one still has to lock is not
\* held by another that waits for it.
NoWaitCycle ==
  \A s, t \in Scans :
    LET Blocked(x, y) == /\ scan[x].found \ scan[x].locked # {}
                         /\ scan[x].found \ scan[x].locked \subseteq scan[y].locked
    IN  ~(scan[s].at = "writing" /\ scan[t].at = "writing" /\ Blocked(s, t) /\ Blocked(t, s))

\* An issue that stays cannot be closed for good: as long as scans complete, it
\* is to be worked on again and again.
IssuesComeBack ==
  \A k \in Keys :
    /\ <>[](k \in present)
    /\ []<><<\E s \in Scans : Commit(s)>>_vars
    => []<>(status[k] \in Working)
=============================================================================
