--------------------------- MODULE OperationsProofs ---------------------------
(***************************************************************************)
(* What TLAPS proves of the work that goes on beside the requests.         *)
(*                                                                         *)
(* Discrepancies, for any number of issues, scans and operators: a key is  *)
(* locked once, the history says what happened, and scans do not wait for  *)
(* each other in a circle.                                                 *)
(*                                                                         *)
(* BalanceRebuild, for any accounts, postings, connections and   *)
(* bounds: committed balances are the sums of the committed entries.  What *)
(* makes it inductive is that no two transactions have written the same    *)
(* row (Exclusive), so that a rebuild which has inserted every row keeps   *)
(* every posting from committing: the entries it was computed from, and    *)
(* verified against, are still the entries when it commits.                *)
(*                                                                         *)
(* EvidenceDelivery, for any events and workers: an attempt has *)
(* one worker, and what has ended stays so.                                *)
(***************************************************************************)
EXTENDS Discrepancies, BalanceRebuild, EvidenceDelivery, TLAPS

USE DiscrepanciesAssumption DEF Keys

\* Only a scan that writes has locks, and it took those of the issues that come
\* first.
LocksInOrder ==
  \A s \in Scans :
    /\ scan[s].unread # {} => scan[s].at # "writing"
    /\ scan[s].at # "writing" => scan[s].locked = {}
    /\ \A k \in scan[s].locked, j \in scan[s].found \ scan[s].locked : k < j

DInv == TypeOK /\ HistoryIsTrue /\ LocksInOrder

\* Nobody is not a key that could be locked: a job has a key or is none.
LEMMA JobHasKey ==
  ASSUME TypeOK, NEW o \in Operators, work[o] # NoWork
  PROVE  work[o] \in Jobs /\ work[o].key \in Keys
BY DEF TypeOK, Jobs

\* A scan that ends leaves the others their locks.
LEMMA EndStep ==
  ASSUME DInv, NEW s \in Scans, NEW opened \in SUBSET Keys,
         scan' = Ended(s, opened), status' \in [Keys -> Statuses \cup {"none"}],
         \A k \in Keys : k \notin scan[s].locked => status'[k] = status[k],
         UNCHANGED <<present, work>>
  PROVE  DInv'
<1>1. \A t \in Scans : scan[t] \in ScanStates
  BY DEF DInv, TypeOK
<1>2. NoScan \in ScanStates /\ NoScan.locked = {} /\ NoScan.found = {} /\ NoScan.unread = {}
  BY DEF NoScan, ScanStates
<1>3. \A t \in Scans : scan'[t] = IF t = s THEN NoScan
        ELSE [scan[t] EXCEPT !.before = @ \ {s},
                             !.late = IF t \in scan[s].before THEN @ \cup opened ELSE @]
  BY DEF Ended
<1>4. \A t \in Scans : /\ scan'[t] \in ScanStates
                       /\ t = s => /\ scan'[t].locked = {} /\ scan'[t].found = {}
                                   /\ scan'[t].unread = {}
                       /\ t # s => /\ scan'[t].locked = scan[t].locked
                                   /\ scan'[t].found = scan[t].found
                                   /\ scan'[t].at = scan[t].at
                                   /\ scan'[t].unread = scan[t].unread
  <2> TAKE t \in Scans
  <2>1. CASE t = s
    BY <2>1, <1>2, <1>3
  <2>2. CASE t # s
    <3> DEFINE late == IF t \in scan[s].before THEN scan[t].late \cup opened ELSE scan[t].late
    <3>1. late \in SUBSET Keys /\ scan[t].before \ {s} \in SUBSET Scans
      BY <1>1 DEF ScanStates
    <3>2. scan'[t] = [scan[t] EXCEPT !.before = @ \ {s}, !.late = late]
      BY <2>2, <1>3
    <3> HIDE DEF late
    <3> QED BY <2>2, <3>1, <3>2, <1>1 DEF ScanStates
  <2> QED BY <2>1, <2>2
<1>5. scan' \in [Scans -> ScanStates]
  <2>1. DOMAIN scan' = Scans /\ scan' = [t \in Scans |-> scan'[t]]
    BY DEF Ended
  <2> QED BY <2>1, <1>4
<1>6. TypeOK'
  <2>1. \A t \in Scans : scan'[t].locked \subseteq scan'[t].found
    BY <1>4 DEF DInv, TypeOK
  <2>2. \A t, u \in Scans : t # u => scan'[t].locked \cap scan'[u].locked = {}
    BY <1>4 DEF DInv, TypeOK
  <2>3. \A t \in Scans, o \in Operators : work[o].key \notin scan'[t].locked
    BY <1>4 DEF DInv, TypeOK
  <2> QED BY <1>5, <2>1, <2>2, <2>3 DEF DInv, TypeOK
<1>7. HistoryIsTrue'
  <2> SUFFICES ASSUME NEW o \in Operators, work[o] # NoWork
               PROVE  status'[work[o].key] = work[o].previous
    BY DEF HistoryIsTrue
  <2>1. work[o].key \in Keys /\ work[o].key \notin scan[s].locked
    BY JobHasKey DEF DInv, TypeOK
  <2> QED BY <2>1 DEF DInv, HistoryIsTrue
<1>8. LocksInOrder'
  BY <1>4 DEF DInv, LocksInOrder
<1> QED BY <1>6, <1>7, <1>8 DEF DInv

LEMMA BeginStep ==
  ASSUME DInv, NEW s \in Scans, Begin(s)
  PROVE  DInv'
<1> DEFINE x == [NoScan EXCEPT !.at = "detecting", !.unread = Keys,
                               !.before = {t \in Scans : scan[t].at # "idle"}]
<1>1. x \in ScanStates /\ x.locked = {} /\ x.found = {} /\ x.at = "detecting"
  BY DEF NoScan, ScanStates
<1>2. scan \in [Scans -> ScanStates] /\ scan' = [scan EXCEPT ![s] = x]
      /\ UNCHANGED <<present, status, work>>
  BY DEF Begin, DInv, TypeOK
<1> HIDE DEF x
<1>3. \A t \in Scans : scan'[t] = IF t = s THEN x ELSE scan[t]
  BY <1>2
<1>4. scan' \in [Scans -> ScanStates]
  BY <1>1, <1>2
<1>5. TypeOK'
  <2>1. \A t \in Scans : scan'[t].locked \subseteq scan'[t].found
    BY <1>1, <1>3 DEF DInv, TypeOK
  <2>2. \A t, u \in Scans : t # u => scan'[t].locked \cap scan'[u].locked = {}
    BY <1>1, <1>3 DEF DInv, TypeOK
  <2>3. \A t \in Scans, o \in Operators : work[o].key \notin scan'[t].locked
    BY <1>1, <1>3 DEF DInv, TypeOK
  <2> QED BY <1>2, <1>4, <2>1, <2>2, <2>3 DEF DInv, TypeOK
<1>6. LocksInOrder'
  BY <1>1, <1>3 DEF DInv, LocksInOrder
<1> QED BY <1>2, <1>5, <1>6 DEF DInv, HistoryIsTrue

LEMMA DetectStep ==
  ASSUME DInv, NEW s \in Scans, NEW k \in Keys, Detect(s, k)
  PROVE  DInv'
<1> DEFINE x == [scan[s] EXCEPT !.unread = @ \ {k},
                                !.found = IF k \in present THEN @ \cup {k} ELSE @,
                                !.at = IF scan[s].unread = {k} THEN "writing" ELSE @]
<1>1. scan \in [Scans -> ScanStates] /\ scan[s] \in ScanStates
  BY DEF DInv, TypeOK
<1>2. x \in ScanStates /\ x.locked = scan[s].locked /\ scan[s].found \subseteq x.found
      /\ x.unread = scan[s].unread \ {k} /\ x.at \in {"writing", scan[s].at}
      /\ (x.at = "writing" => scan[s].at = "writing" \/ x.unread = {})
  BY <1>1 DEF ScanStates
<1>3. scan' = [scan EXCEPT ![s] = x] /\ UNCHANGED <<present, status, work>>
  BY DEF Detect
<1> HIDE DEF x
<1>4. \A t \in Scans : scan'[t] = IF t = s THEN x ELSE scan[t]
  BY <1>1, <1>3
<1>5. scan' \in [Scans -> ScanStates]
  BY <1>1, <1>2, <1>3
<1>6. TypeOK'
  BY <1>2, <1>3, <1>4, <1>5 DEF DInv, TypeOK
<1>7. scan[s].locked = {} /\ scan[s].at # "writing"
  BY DEF Detect, DInv, LocksInOrder
<1>8. LocksInOrder'
  BY <1>2, <1>4, <1>7 DEF DInv, LocksInOrder
<1> QED BY <1>3, <1>6, <1>8 DEF DInv, HistoryIsTrue

LEMMA LockStep ==
  ASSUME DInv, NEW s \in Scans, LockNext(s)
  PROVE  DInv'
<1>1. PICK k \in scan[s].found \ scan[s].locked :
        /\ \A j \in scan[s].found \ scan[s].locked : k <= j
        /\ ~Locked(k)
        /\ scan' = IF k \in scan[s].late THEN Ended(s, {})
                   ELSE [scan EXCEPT ![s].locked = @ \cup {k}]
  BY DEF LockNext
<1>2. scan[s].at = "writing" /\ UNCHANGED <<present, status, work>>
  BY DEF LockNext
<1>3. scan \in [Scans -> ScanStates] /\ scan[s] \in ScanStates
  BY DEF DInv, TypeOK
<1>4. CASE k \in scan[s].late
  <2>1. scan' = Ended(s, {}) /\ status' \in [Keys -> Statuses \cup {"none"}]
    BY <1>1, <1>2, <1>4 DEF DInv, TypeOK
  <2> QED BY <2>1, <1>2, EndStep
<1>5. CASE k \notin scan[s].late
  <2> DEFINE x == [scan[s] EXCEPT !.locked = @ \cup {k}]
  <2>1. k \in Keys /\ scan[s].found \subseteq Keys /\ scan[s].locked \subseteq scan[s].found
    BY <1>3 DEF ScanStates, DInv, TypeOK
  <2>2. x \in ScanStates /\ x.locked = scan[s].locked \cup {k} /\ x.found = scan[s].found
        /\ x.at = "writing" /\ x.unread = scan[s].unread
    BY <1>2, <1>3, <2>1 DEF ScanStates
  <2>3. scan' = [scan EXCEPT ![s] = x]
    BY <1>1, <1>3, <1>5
  <2> HIDE DEF x
  <2>4. \A t \in Scans : scan'[t] = IF t = s THEN x ELSE scan[t]
    BY <1>3, <2>3
  <2>5. scan' \in [Scans -> ScanStates]
    BY <1>3, <2>2, <2>3
  <2>6. (\A t \in Scans : k \notin scan[t].locked) /\ (\A o \in Operators : work[o].key # k)
    BY <1>1 DEF Locked
  <2>7. TypeOK'
    <3>1. \A t \in Scans : scan'[t].locked \subseteq scan'[t].found
      BY <1>1, <2>1, <2>2, <2>4 DEF DInv, TypeOK
    <3>2. \A t, u \in Scans : t # u => scan'[t].locked \cap scan'[u].locked = {}
      BY <2>2, <2>4, <2>6 DEF DInv, TypeOK
    <3>3. \A t \in Scans, o \in Operators : work[o].key \notin scan'[t].locked
      BY <2>2, <2>4, <2>6 DEF DInv, TypeOK
    <3> QED BY <1>2, <2>5, <3>1, <3>2, <3>3 DEF DInv, TypeOK
  <2>8. LocksInOrder'
    <3>1. \A i \in scan'[s].locked, j \in scan'[s].found \ scan'[s].locked : i < j
      <4> TAKE i \in scan'[s].locked, j \in scan'[s].found \ scan'[s].locked
      <4>1. j \in scan[s].found \ scan[s].locked /\ j # k /\ j \in Nat /\ k \in Nat
        BY <2>1, <2>2, <2>4
      <4>2. CASE i = k
        BY <4>1, <4>2, <1>1
      <4>3. CASE i \in scan[s].locked
        BY <4>1, <4>3 DEF DInv, LocksInOrder
      <4> QED BY <4>2, <4>3, <2>2, <2>4
    <3> QED BY <3>1, <2>2, <2>4, <1>2 DEF DInv, LocksInOrder
  <2> QED BY <1>2, <2>7, <2>8 DEF DInv, HistoryIsTrue
<1> QED BY <1>4, <1>5

LEMMA CommitStep ==
  ASSUME DInv, NEW s \in Scans, Commit(s)
  PROVE  DInv'
<1> DEFINE opened == {k \in scan[s].found : status[k] = "none"}
<1>1. scan' = Ended(s, opened) /\ UNCHANGED <<present, work>>
      /\ scan[s].locked = scan[s].found /\ scan[s].found \subseteq Keys
  BY DEF Commit, DInv, TypeOK, ScanStates
<1>2. status' = [k \in Keys |-> IF k \in scan[s].found THEN Materialized(k) ELSE status[k]]
  BY DEF Commit
<1>3. \A k \in Keys : Materialized(k) \in Statuses \cup {"none"}
  BY DEF Materialized, Statuses, Working, DInv, TypeOK
<1>4. status' \in [Keys -> Statuses \cup {"none"}]
  BY <1>2, <1>3 DEF DInv, TypeOK
<1>5. \A k \in Keys : k \notin scan[s].locked => status'[k] = status[k]
  BY <1>1, <1>2
<1>6. opened \in SUBSET Keys
  BY <1>1
<1> HIDE DEF opened
<1> QED BY <1>1, <1>4, <1>5, <1>6, EndStep

LEMMA FailStep ==
  ASSUME DInv, NEW s \in Scans, Fail(s)
  PROVE  DInv'
<1>1. scan' = Ended(s, {}) /\ UNCHANGED <<present, status, work>>
      /\ status \in [Keys -> Statuses \cup {"none"}]
  BY DEF Fail, DInv, TypeOK
<1> QED BY <1>1, EndStep

-----------------------------------------------------------------------------
(* The operators *)

LEMMA ReadStep ==
  ASSUME DInv, NEW o \in Operators, NEW k \in Keys, NEW next \in Statuses, Read(o, k, next)
  PROVE  DInv'
<1> DEFINE x == [key |-> k, previous |-> status[k], new |-> next]
<1>1. ~Locked(k) /\ ValidTransition(status[k], next) /\ work' = [work EXCEPT ![o] = x]
      /\ UNCHANGED <<present, status, scan>> /\ work \in [Operators -> Jobs]
  BY DEF Read, DInv, TypeOK
<1>2. status[k] \in Statuses
  BY <1>1 DEF ValidTransition, Statuses, Working
<1>3. x \in Jobs /\ x.key = k /\ x.previous = status[k]
  BY <1>2 DEF Jobs
<1> HIDE DEF x
<1>4. \A p \in Operators : work'[p] = IF p = o THEN x ELSE work[p]
  BY <1>1
<1>5. TypeOK'
  <2>1. \A p, q \in Operators : p # q /\ work'[p] # NoWork => work'[p].key # work'[q].key
    BY <1>1, <1>3, <1>4 DEF DInv, TypeOK, Locked
  <2>2. \A t \in Scans, p \in Operators : work'[p].key \notin scan[t].locked
    BY <1>1, <1>3, <1>4 DEF DInv, TypeOK, Locked
  <2>3. work' \in [Operators -> Jobs]
    BY <1>1, <1>3
  <2> QED BY <1>1, <2>1, <2>2, <2>3 DEF DInv, TypeOK
<1>6. HistoryIsTrue'
  BY <1>1, <1>3, <1>4 DEF DInv, HistoryIsTrue
<1> QED BY <1>1, <1>5, <1>6 DEF DInv, LocksInOrder

\* An operator who is done has no key, so that no scan holds it.
LEMMA DoneStep ==
  ASSUME DInv, NEW o \in Operators, work[o] # NoWork,
         work' = [work EXCEPT ![o] = NoWork], UNCHANGED <<present, scan>>,
         status' \in [Keys -> Statuses \cup {"none"}],
         \A k \in Keys : k # work[o].key => status'[k] = status[k]
  PROVE  DInv'
<1>1. work \in [Operators -> Jobs] /\ NoWork \in Jobs /\ NoWork.key = Nobody
  BY DEF DInv, TypeOK, Jobs, NoWork
<1>2. \A p \in Operators : work'[p] = IF p = o THEN NoWork ELSE work[p]
  BY <1>1
<1>3. \A t \in Scans : scan[t].locked \subseteq Keys
  BY DEF DInv, TypeOK, ScanStates
<1>4. TypeOK'
  <2>1. \A p, q \in Operators : p # q /\ work'[p] # NoWork => work'[p].key # work'[q].key
    <3> SUFFICES ASSUME NEW p \in Operators, NEW q \in Operators, p # q, work'[p] # NoWork
                 PROVE  work'[p].key # work'[q].key
      OBVIOUS
    <3>1. work'[p] = work[p] /\ work[p].key \in Keys
      BY <1>2, JobHasKey DEF DInv
    <3> QED BY <1>1, <1>2, <3>1 DEF DInv, TypeOK
  <2>2. \A t \in Scans, p \in Operators : work'[p].key \notin scan[t].locked
    BY <1>1, <1>2, <1>3 DEF DInv, TypeOK
  <2>3. work' \in [Operators -> Jobs]
    BY <1>1
  <2> QED BY <2>1, <2>2, <2>3 DEF DInv, TypeOK
<1>5. HistoryIsTrue'
  <2> SUFFICES ASSUME NEW p \in Operators, work'[p] # NoWork
               PROVE  status'[work'[p].key] = work'[p].previous
    BY DEF HistoryIsTrue
  <2>1. p # o /\ work'[p] = work[p] /\ work[p].key \in Keys /\ work[p].key # work[o].key
    BY <1>2, JobHasKey DEF DInv, TypeOK
  <2> QED BY <2>1 DEF DInv, HistoryIsTrue
<1> QED BY <1>4, <1>5 DEF DInv, LocksInOrder

LEMMA WriteStep ==
  ASSUME DInv, NEW o \in Operators, Write(o)
  PROVE  DInv'
<1>1. work[o] \in Jobs /\ work[o].key \in Keys /\ work[o].new \in Statuses
  BY JobHasKey DEF Write, DInv, Jobs
<1>2. status' = [status EXCEPT ![work[o].key] = work[o].new]
      /\ status \in [Keys -> Statuses \cup {"none"}]
  BY DEF Write, DInv, TypeOK
<1>3. status' \in [Keys -> Statuses \cup {"none"}]
      /\ \A k \in Keys : k # work[o].key => status'[k] = status[k]
  BY <1>1, <1>2
<1> QED BY <1>3, DoneStep DEF Write

LEMMA GiveUpStep ==
  ASSUME DInv, NEW o \in Operators, GiveUp(o)
  PROVE  DInv'
<1>1. status \in [Keys -> Statuses \cup {"none"}] /\ status' = status
  BY DEF GiveUp, DInv, TypeOK
<1> QED BY <1>1, DoneStep DEF GiveUp

-----------------------------------------------------------------------------
(* The theorems *)

LEMMA DInit ==
  ASSUME Init
  PROVE  DInv
<1>1. NoScan \in ScanStates /\ NoScan.locked = {} /\ NoScan.unread = {} /\ NoWork \in Jobs
  BY DEF NoScan, ScanStates, Jobs
<1>2. /\ scan \in [Scans -> ScanStates] /\ \A s \in Scans : scan[s] = NoScan
      /\ work \in [Operators -> Jobs] /\ \A o \in Operators : work[o] = NoWork
  BY <1>1 DEF Init
<1> QED BY <1>1, <1>2 DEF Init, DInv, TypeOK, HistoryIsTrue, LocksInOrder

LEMMA DNext ==
  ASSUME DInv, [Next]_vars
  PROVE  DInv'
<1>1. ASSUME NEW k \in Keys, Toggle(k) PROVE DInv'
  <2>1. present' \subseteq Keys /\ UNCHANGED <<status, scan, work>>
    BY <1>1 DEF Toggle, DInv, TypeOK
  <2> QED BY <2>1 DEF DInv, TypeOK, HistoryIsTrue, LocksInOrder
<1>2. CASE UNCHANGED vars
  BY <1>2 DEF vars, DInv, TypeOK, HistoryIsTrue, LocksInOrder
<1> QED BY <1>1, <1>2, BeginStep, DetectStep, LockStep, CommitStep, FailStep,
           ReadStep, WriteStep, GiveUpStep DEF Next

\* The invariant of scans and operators at their locks.
THEOREM DInvHolds == Spec => []DInv
BY DInit, DNext, PTL DEF Spec

\* The locks of materializeDiscrepancy and transitionDiscrepancy keep every key
\* to one transaction.
THEOREM KeysLockedOnce == Spec => []TypeOK
<1>1. DInv => TypeOK
  BY DEF DInv
<1> QED BY <1>1, DInvHolds, PTL

\* The history of a discrepancy says what its status was really changed from.
THEOREM HistoryStaysTrue == Spec => []HistoryIsTrue
<1>1. DInv => HistoryIsTrue
  BY DEF DInv
<1> QED BY <1>1, DInvHolds, PTL

\* Scans that lock their issues in the order of the detectors never wait for
\* each other.
THEOREM ScansDoNotBlock == Spec => []NoWaitCycle
<1>1. DInv => NoWaitCycle
  <2> SUFFICES ASSUME DInv, NEW s \in Scans, NEW t \in Scans,
                      NEW j \in scan[s].found \ scan[s].locked,
                      NEW k \in scan[t].found \ scan[t].locked,
                      j \in scan[t].locked, k \in scan[s].locked
               PROVE  FALSE
    BY DEF NoWaitCycle
  <2>1. k < j /\ j < k
    BY DEF DInv, LocksInOrder
  <2>2. j \in Nat /\ k \in Nat
    BY DEF DInv, TypeOK, ScanStates
  <2> QED BY <2>1, <2>2
<1> QED BY <1>1, DInvHolds, PTL

-----------------------------------------------------------------------------
(* The rebuild of the balances *)

\* The rows of account_balances that a transaction has written and holds.
Written(r) ==
  CASE r.op = "posting"  -> r.written
    [] r.op = "deleting" -> r.deleted
    [] r.op \in {"inserting", "verifying"} -> r.deleted \cup r.inserted
    [] OTHER -> {}

Exclusive ==
  \A s, t \in Sessions : s # t => Written(session[s]) \cap Written(session[t]) = {}

\* A rebuild that was verified has every row, and the entries have not changed.
Verified ==
  \A s \in Sessions : session[s].op = "verifying" =>
    session[s].inserted = Accounts /\ session[s].values = derived

BInv == RebuildTypeOK /\ Exclusive /\ Verified /\ BalancesMatchEntries

-----------------------------------------------------------------------------
(* What a transaction may be *)

PostingStates == [op: {"posting"}, posting: Postings, written: SUBSET Accounts]
DeletingStates ==
  [op: {"deleting"}, seen: [Accounts -> Nat], deleted: SUBSET Accounts, left: SUBSET Accounts]
InsertingStates ==
  [op: {"inserting", "verifying"}, deleted: SUBSET Accounts,
   values: [Accounts -> Int], inserted: SUBSET Accounts]

\* The operation tells which kind of transaction it is, and no other is known.
LEMMA KindByOp ==
  ASSUME NEW r \in SessionStates
  PROVE  /\ r.op \in {"idle", "posting", "deleting", "inserting", "verifying"}
         /\ r.op = "idle" => r = NoSession
         /\ r.op = "posting" => r \in PostingStates
         /\ r.op = "deleting" => r \in DeletingStates
         /\ r.op \in {"inserting", "verifying"} => r \in InsertingStates
<1>1. CASE r = NoSession
  BY <1>1 DEF NoSession
<1>2. CASE r \in PostingStates
  BY <1>2 DEF PostingStates
<1>3. CASE r \in DeletingStates
  BY <1>3 DEF DeletingStates
<1>4. CASE r \in InsertingStates
  BY <1>4 DEF InsertingStates
<1> QED BY <1>1, <1>2, <1>3, <1>4
        DEF SessionStates, PostingStates, DeletingStates, InsertingStates

\* A row without a writer among the others is in nobody else's written rows.
LEMMA WritersAreWritten ==
  ASSUME RebuildTypeOK, NEW s \in Sessions, NEW a \in Accounts, WrittenBy(s, a) = {},
         NEW t \in Sessions, t # s
  PROVE  a \notin Written(session[t])
<1>1. session[t] \in SessionStates
  BY DEF RebuildTypeOK
<1>2. t \notin WrittenBy(s, a)
  OBVIOUS
<1> QED BY <1>1, <1>2, KindByOp DEF WrittenBy, Others, Written

\* A step that only moves transaction s keeps the invariant, if its rows stay
\* exclusive and it is not thereby verified wrongly.
LEMMA StepOfOne ==
  ASSUME BInv, NEW s \in Sessions, NEW r \in SessionStates, Become(s, r),
         UNCHANGED <<derived, balance, drifted, counters>>,
         \A a \in Written(r) \ Written(session[s]) :
           a \in Accounts /\ WrittenBy(s, a) = {},
         r.op = "verifying" => r.inserted = Accounts /\ r.values = derived
  PROVE  BInv'
<1>1. session' = [session EXCEPT ![s] = r] /\ session \in [Sessions -> SessionStates]
  BY DEF Become, BInv, RebuildTypeOK
<1>2. RebuildTypeOK'
  BY <1>1 DEF BInv, RebuildTypeOK, counters
<1>3. \A t \in Sessions : t # s => Written(r) \cap Written(session[t]) = {}
  BY WritersAreWritten DEF BInv, Exclusive
<1>4. Exclusive'
  BY <1>1, <1>3 DEF BInv, Exclusive
<1>5. Verified'
  BY <1>1 DEF BInv, Verified
<1>6. BalancesMatchEntries'
  BY DEF BInv, BalancesMatchEntries
<1> QED BY <1>2, <1>4, <1>5, <1>6 DEF BInv

-----------------------------------------------------------------------------
(* One lemma per action *)

LEMMA FailKeeps ==
  ASSUME BInv, NEW s \in Sessions, RollBack(s)
  PROVE  BInv'
<1>1. NoSession \in SessionStates
  BY DEF SessionStates
<1>2. Written(NoSession) = {} /\ NoSession.op # "verifying"
  BY DEF Written, NoSession
<1> QED BY <1>1, <1>2, StepOfOne DEF RollBack

LEMMA BeginPostingKeeps ==
  ASSUME BInv, NEW s \in Sessions, BeginPosting(s)
  PROVE  BInv'
<1>1. PICK p \in Postings : Become(s, [op |-> "posting", posting |-> p, written |-> {}])
  BY DEF BeginPosting
<1> DEFINE r == [op |-> "posting", posting |-> p, written |-> {}]
<1>2. r \in SessionStates
  BY DEF SessionStates
<1>3. Written(r) = {} /\ r.op # "verifying"
  BY DEF Written
<1> QED BY <1>1, <1>2, <1>3, StepOfOne DEF BeginPosting

LEMMA UpsertKeeps ==
  ASSUME BInv, NEW s \in Sessions, Upsert(s)
  PROVE  BInv'
<1>1. PICK a \in Unwritten(s) :
        WrittenBy(s, a) = {} /\ Become(s, [session[s] EXCEPT !.written = @ \cup {a}])
  BY DEF Upsert
<1> DEFINE r == [session[s] EXCEPT !.written = @ \cup {a}]
<1>2. session[s] \in SessionStates /\ session[s].op = "posting"
  BY DEF BInv, RebuildTypeOK, Upsert
<1>3. session[s] \in PostingStates
  BY <1>2, KindByOp
<1>4. a \in Accounts
  BY <1>3, RebuildAssumption DEF Unwritten, PostingStates
<1>5. r \in PostingStates /\ r.op = "posting" /\ r.written = session[s].written \cup {a}
  BY <1>3, <1>4 DEF PostingStates
<1>6. r \in SessionStates
  BY <1>5 DEF SessionStates, PostingStates
<1>7. \A b \in Written(r) \ Written(session[s]) : b = a
  BY <1>2, <1>5 DEF Written
<1> HIDE DEF r
<1> QED BY <1>1, <1>4, <1>5, <1>6, <1>7, StepOfOne DEF Upsert, r

LEMMA BeginRebuildKeeps ==
  ASSUME BInv, NEW s \in Sessions, BeginRebuild(s)
  PROVE  BInv'
<1> DEFINE r == [op |-> "deleting", seen |-> [a \in Accounts |-> balance[a].row],
                 deleted |-> {}, left |-> {a \in Accounts : HasRow(a)}]
<1>1. \A a \in Accounts : balance[a].row \in Nat
  BY DEF BInv, RebuildTypeOK, Rows
<1>2. r \in SessionStates
  BY <1>1 DEF SessionStates
<1>3. Written(r) = {} /\ r.op # "verifying"
  BY DEF Written
<1>4. Become(s, r) /\ UNCHANGED <<derived, balance, drifted, counters>>
  BY DEF BeginRebuild
<1> HIDE DEF r
<1> QED BY <1>2, <1>3, <1>4, StepOfOne

LEMMA DeleteRowKeeps ==
  ASSUME BInv, NEW s \in Sessions, DeleteRow(s)
  PROVE  BInv'
<1> DEFINE r(a) == [session[s] EXCEPT
               !.left = @ \ {a},
               !.deleted = IF balance[a].row = session[s].seen[a] THEN @ \cup {a} ELSE @]
<1>1. PICK a \in session[s].left : WrittenBy(s, a) = {} /\ Become(s, r(a))
  BY DEF DeleteRow
<1>2. session[s] \in SessionStates /\ session[s].op = "deleting"
  BY DEF BInv, RebuildTypeOK, DeleteRow
<1>3. session[s] \in DeletingStates
  BY <1>2, KindByOp
<1>4. a \in Accounts
  BY <1>3 DEF DeletingStates
<1>5. /\ r(a) \in DeletingStates /\ r(a).op = "deleting"
      /\ r(a).deleted \subseteq session[s].deleted \cup {a}
  BY <1>3, <1>4 DEF DeletingStates
<1> HIDE DEF r
<1>6. r(a) \in SessionStates
  BY <1>5 DEF SessionStates, DeletingStates
<1>7. \A b \in Written(r(a)) \ Written(session[s]) : b = a
  BY <1>2, <1>5 DEF Written
<1>8. UNCHANGED <<derived, balance, drifted, counters>>
  BY DEF DeleteRow
<1> QED BY <1>1, <1>4, <1>5, <1>6, <1>7, <1>8, StepOfOne

LEMMA BeginInsertKeeps ==
  ASSUME BInv, NEW s \in Sessions, BeginInsert(s)
  PROVE  BInv'
<1> DEFINE r == [op |-> "inserting", deleted |-> session[s].deleted,
                 values |-> derived, inserted |-> {}]
<1>1. session[s] \in SessionStates /\ session[s].op = "deleting"
  BY DEF BInv, RebuildTypeOK, BeginInsert
<1>2. session[s] \in DeletingStates
  BY <1>1, KindByOp
<1>3. r \in SessionStates
  BY <1>2 DEF SessionStates, DeletingStates, BInv, RebuildTypeOK
<1>4. Written(r) = Written(session[s]) /\ r.op # "verifying"
  BY <1>1 DEF Written
<1>5. Become(s, r) /\ UNCHANGED <<derived, balance, drifted, counters>>
  BY DEF BeginInsert
<1> HIDE DEF r
<1> QED BY <1>3, <1>4, <1>5, StepOfOne

LEMMA InsertNextKeeps ==
  ASSUME BInv, NEW s \in Sessions, InsertNext(s)
  PROVE  BInv'
<1> DEFINE r(a) == [session[s] EXCEPT !.inserted = @ \cup {a}]
<1>1. PICK a \in Accounts : WrittenBy(s, a) = {} /\ InsertRow(s, a)
  BY DEF InsertNext
<1>2. session[s] \in SessionStates /\ session[s].op = "inserting"
  BY DEF BInv, RebuildTypeOK, InsertNext
<1>3. session[s] \in InsertingStates
  BY <1>2, KindByOp
<1>4. UNCHANGED <<derived, balance, drifted, counters>>
  BY DEF InsertNext
<1>5. CASE Become(s, NoSession)
  BY <1>4, <1>5, FailKeeps DEF RollBack
<1>6. CASE Become(s, r(a))
  <2>1. /\ r(a) \in InsertingStates /\ r(a).op = "inserting"
        /\ r(a).deleted = session[s].deleted
        /\ r(a).inserted = session[s].inserted \cup {a}
    BY <1>2, <1>3 DEF InsertingStates
  <2> HIDE DEF r
  <2>2. r(a) \in SessionStates
    BY <2>1 DEF SessionStates, InsertingStates
  <2>3. \A b \in Written(r(a)) \ Written(session[s]) : b = a
    BY <1>2, <2>1 DEF Written
  <2> QED BY <1>1, <1>4, <1>6, <2>1, <2>2, <2>3, StepOfOne
<1> QED BY <1>1, <1>5, <1>6 DEF InsertRow

LEMMA VerifyKeeps ==
  ASSUME BInv, NEW s \in Sessions, Verify(s)
  PROVE  BInv'
<1> DEFINE r == [session[s] EXCEPT !.op = "verifying"]
<1>1. session[s] \in SessionStates /\ session[s].op = "inserting"
  BY DEF BInv, RebuildTypeOK, Verify
<1>2. session[s] \in InsertingStates
  BY <1>1, KindByOp
<1>3. UNCHANGED <<derived, balance, drifted, counters>>
  BY DEF Verify
<1>4. CASE Become(s, NoSession)
  BY <1>3, <1>4, FailKeeps DEF RollBack
<1>5. CASE session[s].values = derived /\ Become(s, r)
  <2>1. /\ r \in InsertingStates /\ r.op = "verifying"
        /\ r.deleted = session[s].deleted /\ r.inserted = session[s].inserted
        /\ r.values = session[s].values
    BY <1>2 DEF InsertingStates
  <2> HIDE DEF r
  <2>2. r \in SessionStates
    BY <2>1 DEF SessionStates, InsertingStates
  <2>3. Written(r) = Written(session[s])
    BY <1>1, <2>1 DEF Written
  <2>4. session[s].inserted = Accounts
    BY DEF Verify
  <2> QED BY <1>3, <1>5, <2>1, <2>2, <2>3, <2>4, StepOfOne
<1> QED BY <1>4, <1>5 DEF Verify

\* While a rebuild is verified no posting of an account can commit.
LEMMA CommitPostingKeeps ==
  ASSUME BInv, NEW s \in Sessions, CommitPosting(s)
  PROVE  BInv'
<1> DEFINE p == session[s].posting
<1>1. session[s] \in SessionStates /\ session[s].op = "posting"
  BY DEF BInv, RebuildTypeOK, CommitPosting
<1>2. session[s] \in PostingStates
  BY <1>1, KindByOp
<1>3. /\ p \in Postings /\ DOMAIN p \subseteq Accounts
      /\ \A a \in DOMAIN p : p[a] \in Int
  BY <1>2, RebuildAssumption DEF PostingStates
<1>4. DOMAIN p \subseteq Written(session[s])
  BY <1>1 DEF CommitPosting, Unwritten, Written
<1> HIDE DEF p
<1>5. derived' = [a \in Accounts |-> derived[a] + IF a \in DOMAIN p THEN p[a] ELSE 0]
  BY DEF CommitPosting, p
<1>6. balance' = [a \in Accounts |->
          IF a \notin DOMAIN p THEN balance[a]
          ELSE [row |-> IF HasRow(a) THEN balance[a].row ELSE 1,
                value |-> balance[a].value + p[a]]]
  BY DEF CommitPosting, p
<1>7. session' = [session EXCEPT ![s] = NoSession] /\ session \in [Sessions -> SessionStates]
  BY DEF CommitPosting, Become, BInv, RebuildTypeOK
<1>8. \A a \in Accounts : derived[a] \in Int /\ balance[a] \in Rows
  BY DEF BInv, RebuildTypeOK
<1>9. derived' \in [Accounts -> Int]
  BY <1>3, <1>5, <1>8
<1>10. balance' \in [Accounts -> Rows]
  BY <1>3, <1>6, <1>8 DEF Rows
<1>11. NoSession \in SessionStates /\ Written(NoSession) = {} /\ NoSession.op # "verifying"
  BY DEF SessionStates, Written, NoSession
<1>12. RebuildTypeOK'
  BY <1>7, <1>9, <1>10, <1>11 DEF BInv, RebuildTypeOK, CommitPosting
<1>13. Exclusive'
  BY <1>7, <1>11 DEF BInv, Exclusive
<1>14. ASSUME NEW t \in Sessions, session[t].op = "verifying" PROVE derived' = derived
  <2>1. t # s /\ session[t].inserted = Accounts
    BY <1>1, <1>14 DEF BInv, Verified
  <2>2. Accounts \subseteq Written(session[t])
    BY <1>14, <2>1 DEF Written
  <2>3. DOMAIN p = {}
    BY <1>3, <1>4, <2>1, <2>2 DEF BInv, Exclusive
  <2>4. derived' = [a \in Accounts |-> derived[a] + 0]
    BY <1>5, <2>3
  <2> QED BY <1>8, <2>4 DEF BInv, RebuildTypeOK
<1>15. Verified'
  BY <1>7, <1>11, <1>14 DEF BInv, Verified
<1>16. ASSUME ~drifted, NEW a \in Accounts PROVE balance'[a].value = derived'[a]
  BY <1>3, <1>5, <1>6, <1>8, <1>16 DEF BInv, BalancesMatchEntries, Rows
<1>17. BalancesMatchEntries'
  BY <1>16 DEF BalancesMatchEntries, CommitPosting
<1> QED BY <1>12, <1>13, <1>15, <1>17 DEF BInv

LEMMA CommitRebuildKeeps ==
  ASSUME BInv, NEW s \in Sessions, CommitRebuild(s)
  PROVE  BInv'
<1>1. session[s].values = derived /\ derived \in [Accounts -> Int]
  BY DEF CommitRebuild, BInv, Verified, RebuildTypeOK
<1>2. balance' = [a \in Accounts |-> [row |-> balance[a].row + 1, value |-> derived[a]]]
  BY <1>1 DEF CommitRebuild
<1>3. session' = [session EXCEPT ![s] = NoSession] /\ session \in [Sessions -> SessionStates]
  BY DEF CommitRebuild, Become, BInv, RebuildTypeOK
<1>4. NoSession \in SessionStates /\ Written(NoSession) = {} /\ NoSession.op # "verifying"
  BY DEF SessionStates, Written, NoSession
<1>5. balance' \in [Accounts -> Rows]
  BY <1>1, <1>2 DEF BInv, RebuildTypeOK, Rows
<1>6. RebuildTypeOK'
  <2>1. session' \in [Sessions -> SessionStates]
    BY <1>3, <1>4
  <2>2. UNCHANGED <<derived, posted, drifts>> /\ drifted' = FALSE /\ rebuilds' \in Nat
    BY DEF CommitRebuild, BInv, RebuildTypeOK
  <2> QED BY <1>5, <2>1, <2>2 DEF BInv, RebuildTypeOK
<1>7. Exclusive'
  BY <1>3, <1>4 DEF BInv, Exclusive
<1>8. Verified'
  BY <1>3, <1>4 DEF BInv, Verified, CommitRebuild
<1>9. BalancesMatchEntries'
  BY <1>2 DEF BalancesMatchEntries, CommitRebuild
<1> QED BY <1>6, <1>7, <1>8, <1>9 DEF BInv

LEMMA DriftKeeps ==
  ASSUME BInv, NEW a \in Accounts, Drift(a)
  PROVE  BInv'
<1>1. balance' \in [Accounts -> Rows]
  <2>1. balance \in [Accounts -> Rows] /\ balance[a].value + 1 \in Int
    BY DEF BInv, RebuildTypeOK, Rows
  <2>2. [balance[a] EXCEPT !.value = @ + 1] \in Rows
    BY <2>1 DEF Rows
  <2>3. balance' = [balance EXCEPT ![a] = [balance[a] EXCEPT !.value = @ + 1]]
    BY DEF Drift
  <2> QED BY <2>1, <2>2, <2>3
<1>2. RebuildTypeOK'
  BY <1>1, RebuildAssumption DEF Drift, BInv, RebuildTypeOK
<1> QED BY <1>2 DEF Drift, BInv, Exclusive, Verified, BalancesMatchEntries

-----------------------------------------------------------------------------
(* The theorems *)

LEMMA BInvInit == InitRebuild => BInv
<1> SUFFICES ASSUME InitRebuild PROVE BInv
  OBVIOUS
<1>1. \A s \in Sessions : session[s] = NoSession
  BY DEF InitRebuild
<1>2. NoSession \in SessionStates /\ Written(NoSession) = {} /\ NoSession.op # "verifying"
  BY DEF SessionStates, Written, NoSession
<1>3. NoRow \in Rows /\ 0 \in 0..MaxDrifts
  BY RebuildAssumption DEF Rows, NoRow
<1>4. RebuildTypeOK
  <2>1. derived \in [Accounts -> Int] /\ balance \in [Accounts -> Rows]
    BY <1>3 DEF InitRebuild
  <2>2. session \in [Sessions -> SessionStates]
    BY <1>2 DEF InitRebuild
  <2> QED BY <1>3, <2>1, <2>2 DEF InitRebuild, RebuildTypeOK
<1> QED BY <1>1, <1>2, <1>4 DEF InitRebuild, BInv, Exclusive, Verified, BalancesMatchEntries, NoRow

LEMMA BInvStep == BInv /\ [RebuildNext]_rebuildVars => BInv'
<1> SUFFICES ASSUME BInv, [RebuildNext]_rebuildVars PROVE BInv'
  OBVIOUS
<1>1. ASSUME NEW s \in Sessions, BeginPosting(s) PROVE BInv'
  BY <1>1, BeginPostingKeeps
<1>2. ASSUME NEW s \in Sessions, BeginRebuild(s) PROVE BInv'
  BY <1>2, BeginRebuildKeeps
<1>3. ASSUME NEW s \in Sessions, Continue(s) PROVE BInv'
  BY <1>3, UpsertKeeps, CommitPostingKeeps, DeleteRowKeeps, BeginInsertKeeps,
     InsertNextKeeps, VerifyKeeps, CommitRebuildKeeps, FailKeeps DEF Continue, BreakDeadlock
<1>4. ASSUME NEW s \in Sessions, Crash(s) PROVE BInv'
  BY <1>4, FailKeeps DEF Crash
<1>5. ASSUME NEW a \in Accounts, Drift(a) PROVE BInv'
  BY <1>5, DriftKeeps
<1>6. CASE UNCHANGED rebuildVars
  BY <1>6 DEF rebuildVars, counters, BInv, RebuildTypeOK, Exclusive, Verified, BalancesMatchEntries
<1> QED BY <1>1, <1>2, <1>3, <1>4, <1>5, <1>6 DEF RebuildNext

\* The invariant of rebuilds beside postings.
THEOREM BInvHolds == RebuildSpec => []BInv
<1> QED BY BInvInit, BInvStep, PTL DEF RebuildSpec

\* The tables and transactions keep their types.
THEOREM BalancesTyped == RebuildSpec => []RebuildTypeOK
<1>1. BInv => RebuildTypeOK
  BY DEF BInv
<1> QED BY <1>1, BInvHolds, PTL

\* Whatever postings and rebuilds run into each other, a committed balance is the
\* sum of the committed entries of its account, as long as nobody outside the
\* program changed a row that no rebuild has repaired.
THEOREM BalancesStayTrue == RebuildSpec => []BalancesMatchEntries
<1>1. BInv => BalancesMatchEntries
  BY DEF BInv
<1> QED BY <1>1, BInvHolds, PTL

-----------------------------------------------------------------------------
(* The delivery of security evidence *)

USE EvidenceAssumption

\* An attempt is made by one worker: a lease that has ended and was given to
\* another has another number.
OneWorkerPerAttempt ==
  \A v, w \in Workers :
    v # w /\ worker[v] # Idle /\ worker[v].event = worker[w].event
      => worker[v].attempt # worker[w].attempt

\* A worker's attempt was counted, and is its own.
EInv ==
  /\ DeliveryTypeOK
  /\ \A w \in Workers : worker[w] # Idle =>
       /\ worker[w].event \in Events
       /\ worker[w].attempt \in 1 .. attempts[worker[w].event]
  /\ OneWorkerPerAttempt

LEMMA IdleWorker ==
  /\ Idle \in WorkerStates
  /\ Idle.event = 0 /\ 0 \notin Events
  /\ Idle.reply = "none" /\ Idle.attempt = 0
BY DEF Idle, WorkerStates, Events

\* A worker that goes on with its event, or leaves it.
LEMMA WorkerMoves ==
  ASSUME EInv, NEW w \in Workers, NEW r \in WorkerStates,
         worker' = [worker EXCEPT ![w] = r], UNCHANGED attempts,
         \/ r = Idle
         \/ /\ worker[w] # Idle
            /\ r.event = worker[w].event /\ r.attempt = worker[w].attempt
  PROVE  /\ worker' \in [Workers -> WorkerStates]
         /\ \A v \in Workers : worker'[v] # Idle =>
              /\ worker'[v].event \in Events
              /\ worker'[v].attempt \in 1 .. attempts'[worker'[v].event]
         /\ OneWorkerPerAttempt'
<1>1. worker \in [Workers -> WorkerStates]
  BY DEF EInv, DeliveryTypeOK
<1>2. \A v \in Workers : worker'[v] = IF v = w THEN r ELSE worker[v]
  BY <1>1
<1>3. \A v \in Workers :
        \/ worker'[v] = Idle
        \/ /\ worker[v] # Idle
           /\ worker'[v].event = worker[v].event /\ worker'[v].attempt = worker[v].attempt
  BY <1>2
<1>4. OneWorkerPerAttempt'
  <2> SUFFICES ASSUME NEW u \in Workers, NEW v \in Workers, u # v,
                      worker'[u] # Idle, worker'[u].event = worker'[v].event
               PROVE  worker'[u].attempt # worker'[v].attempt
    BY DEF OneWorkerPerAttempt, Idle
  <2>1. worker[u] # Idle /\ worker'[u].event = worker[u].event
        /\ worker'[u].attempt = worker[u].attempt /\ worker[u].event \in Events
    BY <1>3 DEF EInv
  <2>2. worker'[v] # Idle
    BY <2>1, IdleWorker
  <2> QED
    BY <1>3, <2>1, <2>2 DEF EInv, OneWorkerPerAttempt
<1> QED
  BY <1>1, <1>3, <1>4 DEF EInv

LEMMA LeaseStep ==
  ASSUME EInv, NEW w \in Workers, Lease(w)
  PROVE  EInv'
<1>1. PICK e \in Events :
        /\ attempts' = [attempts EXCEPT ![e] = @ + 1]
        /\ lease' = [lease EXCEPT ![e] = attempts[e] + 1]
        /\ due' = due \ {e}
        /\ worker' = [worker EXCEPT ![w] =
                        [event |-> e, attempt |-> attempts[e] + 1, reply |-> "none"]]
  BY DEF Lease, Ready, EInv, DeliveryTypeOK
<1>2. /\ worker \in [Workers -> WorkerStates]
      /\ attempts \in [Events -> Nat] /\ lease \in [Events -> Nat]
      /\ worker[w] = Idle /\ UNCHANGED <<delivery, faults>>
  BY DEF EInv, DeliveryTypeOK, Lease
<1>3. PICK n \in Nat : n = attempts[e] + 1
  BY <1>2
<1> DEFINE r == [event |-> e, attempt |-> n, reply |-> "none"]
<1>4. r \in WorkerStates /\ r.event = e /\ r.attempt = n
  BY DEF WorkerStates, Events
<1>5. \A v \in Workers : worker'[v] = IF v = w THEN r ELSE worker[v]
  BY <1>1, <1>2, <1>3
<1>6. /\ worker' \in [Workers -> WorkerStates]
      /\ attempts' \in [Events -> Nat] /\ lease' \in [Events -> Nat]
      /\ attempts'[e] = n /\ \A f \in Events : f # e => attempts'[f] = attempts[f]
  BY <1>1, <1>2, <1>3, <1>4
<1> HIDE DEF r
<1>7. \A v \in Workers : worker[v] # Idle =>
        /\ worker[v].event \in Events /\ worker[v].attempt \in Nat
        /\ worker[v].attempt >= 1 /\ worker[v].attempt <= attempts[worker[v].event]
  BY <1>2 DEF EInv, WorkerStates
<1>8. \A v \in Workers : worker'[v] # Idle =>
        /\ worker'[v].event \in Events
        /\ worker'[v].attempt \in 1 .. attempts'[worker'[v].event]
  <2> SUFFICES ASSUME NEW v \in Workers, worker'[v] # Idle
               PROVE  /\ worker'[v].event \in Events
                      /\ worker'[v].attempt \in 1 .. attempts'[worker'[v].event]
    OBVIOUS
  <2>1. CASE v = w
    BY <1>2, <1>3, <1>4, <1>5, <1>6, <2>1
  <2>2. CASE v # w
    <3>1. worker'[v] = worker[v]
      BY <1>5, <2>2
    <3>2. attempts[worker[v].event] <= attempts'[worker[v].event]
          /\ attempts[worker[v].event] \in Nat /\ attempts'[worker[v].event] \in Nat
      BY <1>2, <1>3, <1>6, <1>7, <3>1
    <3> QED
      BY <1>7, <3>1, <3>2
  <2> QED
    BY <2>1, <2>2
<1>9. \A v \in Workers : v # w /\ worker[v] # Idle /\ worker[v].event = e
        => worker[v].attempt # n
  BY <1>2, <1>3, <1>7
<1>10. OneWorkerPerAttempt'
  <2> SUFFICES ASSUME NEW u \in Workers, NEW v \in Workers, u # v,
                      worker'[u] # Idle, worker'[u].event = worker'[v].event
               PROVE  worker'[u].attempt # worker'[v].attempt
    BY DEF OneWorkerPerAttempt, Idle
  <2>1. worker'[v] # Idle
    BY <1>8, IdleWorker
  <2> QED
    BY <1>4, <1>5, <1>9, <2>1 DEF EInv, OneWorkerPerAttempt
<1>11. due' \subseteq Events
  BY <1>1 DEF EInv, DeliveryTypeOK
<1> QED
  BY <1>2, <1>6, <1>8, <1>10, <1>11 DEF EInv, DeliveryTypeOK

LEMMA OutcomeIsStatus ==
  ASSUME NEW w
  PROVE  Outcome(w) \in Open \cup Final
BY DEF Outcome, Open, Final

LEMMA WorkerStep ==
  ASSUME EInv, NEW w \in Workers,
         \/ Post(w) \/ Settle(w) \/ Mistake(w) \/ Die(w)
  PROVE  EInv'
<1>1. /\ worker[w] \in WorkerStates /\ UNCHANGED attempts
      /\ worker \in [Workers -> WorkerStates]
  BY DEF EInv, DeliveryTypeOK, Post, Settle, Mistake, Die
<1>2. worker[w] # Idle
  BY IdleWorker DEF Post, Settle, Mistake, Die
<1>3. PICK r \in WorkerStates :
        /\ worker' = [worker EXCEPT ![w] = r]
        /\ \/ r = Idle
           \/ r.event = worker[w].event /\ r.attempt = worker[w].attempt
  <2>1. CASE Settle(w) \/ Die(w)
    BY <2>1, IdleWorker DEF Settle, Die
  <2>2. ASSUME NEW reply \in Replies, worker' = [worker EXCEPT ![w].reply = reply]
        PROVE  \E r \in WorkerStates :
                 /\ worker' = [worker EXCEPT ![w] = r]
                 /\ r.event = worker[w].event /\ r.attempt = worker[w].attempt
    <3> DEFINE r == [worker[w] EXCEPT !.reply = reply]
    <3>1. r \in WorkerStates
          /\ r.event = worker[w].event /\ r.attempt = worker[w].attempt
      BY <1>1 DEF WorkerStates
    <3>2. worker' = [worker EXCEPT ![w] = r]
      BY <2>2
    <3> HIDE DEF r
    <3> QED
      BY <3>1, <3>2
  <2>3. CASE Post(w)
    BY <2>2, <2>3 DEF Post
  <2>4. CASE Mistake(w)
    BY <2>2, <2>4 DEF Mistake, Replies
  <2> QED
    BY <2>1, <2>3, <2>4
<1>4. /\ worker' \in [Workers -> WorkerStates]
      /\ \A v \in Workers : worker'[v] # Idle =>
           /\ worker'[v].event \in Events
           /\ worker'[v].attempt \in 1 .. attempts'[worker'[v].event]
      /\ OneWorkerPerAttempt'
  BY <1>1, <1>2, <1>3, WorkerMoves
<1>5. /\ delivery' \in [Events -> Open \cup Final \cup {"none"}]
      /\ due' \subseteq Events /\ lease' \in [Events -> Nat]
      /\ faults' \in 0 .. MaxFaults
  <2>1. CASE UNCHANGED <<delivery, due, lease>>
    <3>1. faults' \in 0 .. MaxFaults
      <4>1. faults' = faults \/ (faults < MaxFaults /\ faults' = faults + 1)
        BY DEF Post, Settle, Mistake, Die
      <4> QED
        BY <4>1 DEF EInv, DeliveryTypeOK
    <3> QED
      BY <2>1, <3>1 DEF EInv, DeliveryTypeOK
  <2>2. CASE Settle(w) /\ StillLeased(w)
    BY <2>2, OutcomeIsStatus DEF Settle, EInv, DeliveryTypeOK
  <2> QED
    BY <2>1, <2>2 DEF Post, Settle, Mistake, Die
<1> QED
  BY <1>1, <1>4, <1>5 DEF EInv, DeliveryTypeOK

LEMMA EventStep ==
  ASSUME EInv, NEW e \in Events,
         Record(e) \/ Pass(e)
  PROVE  EInv'
<1>1. UNCHANGED <<attempts, lease, worker>> /\ due' \subseteq Events
  BY DEF Record, Pass, EInv, DeliveryTypeOK
<1>2. delivery' \in [Events -> Open \cup Final \cup {"none"}]
  BY DEF Record, Pass, EInv, DeliveryTypeOK, Open
<1>3. faults' \in 0 .. MaxFaults
  <2>1. faults' = faults \/ (faults < MaxFaults /\ faults' = faults + 1)
    BY DEF Record, Pass
  <2> QED
    BY <2>1 DEF EInv, DeliveryTypeOK
<1> QED
  BY <1>1, <1>2, <1>3 DEF EInv, DeliveryTypeOK, OneWorkerPerAttempt

\* What the workers of the outbox know: of which attempt each of them is.
THEOREM EInvHolds ==
  DeliverySpec => []EInv
<1>1. InitDelivery => EInv
  BY IdleWorker DEF InitDelivery, EInv, DeliveryTypeOK,
                    OneWorkerPerAttempt
<1>2. EInv /\ [DeliveryNext]_deliveryVars => EInv'
  <2> SUFFICES ASSUME EInv, [DeliveryNext]_deliveryVars PROVE EInv'
    OBVIOUS
  <2>1. CASE UNCHANGED deliveryVars
    BY <2>1 DEF deliveryVars, EInv, DeliveryTypeOK, OneWorkerPerAttempt
  <2> QED
    BY <2>1, LeaseStep, WorkerStep, EventStep DEF DeliveryNext
<1> QED
  BY <1>1, <1>2, PTL DEF DeliverySpec

\* The answer of a worker whose lease is over changes nothing that has ended
\* (the UPDATE's condition on the lease token and the status).
THEOREM EndsStayHolds ==
  DeliverySpec => EndsStay
<1> DEFINE A == \A e \in Events :
                  delivery[e] \in Final => delivery'[e] = delivery[e]
<1>1. ASSUME EInv, [DeliveryNext]_deliveryVars
      PROVE  A
  <2>0. /\ delivery \in [Events -> Open \cup Final \cup {"none"}]
        /\ Open \cap Final = {} /\ "none" \notin Final
    BY <1>1 DEF EInv, DeliveryTypeOK, Open, Final
  <2>1. CASE UNCHANGED delivery
    BY <2>1
  <2>2. ASSUME NEW e \in Events, Record(e)
        PROVE  A
    BY <2>0, <2>2 DEF Record
  <2>3. ASSUME NEW w \in Workers, Settle(w)
        PROVE  A
    BY <2>0, <2>3 DEF Settle, StillLeased
  <2>4. \/ UNCHANGED delivery
        \/ \E e \in Events : Record(e)
        \/ \E w \in Workers : Settle(w)
    BY <1>1 DEF DeliveryNext, Pass, Lease, Post, Mistake,
                Die, deliveryVars
  <2> HIDE DEF A
  <2> QED
    BY <2>1, <2>2, <2>3, <2>4
<1> QED
  BY <1>1, EInvHolds, PTL DEF DeliverySpec, EndsStay

\* Two workers never act for the same attempt, also when a lease has ended under
\* the first of them (lease_token).
THEOREM AttemptsHaveOneWorker ==
  DeliverySpec => []OneWorkerPerAttempt
<1>1. EInv => OneWorkerPerAttempt
  BY DEF EInv
<1> QED
  BY <1>1, EInvHolds, PTL
=============================================================================
