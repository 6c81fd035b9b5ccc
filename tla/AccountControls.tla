---------------------------- MODULE AccountControls ----------------------------
(***************************************************************************)
(* The controls of one player account: restrictions, suspensions and       *)
(* freezes (AccountControlService), and the operators' risk controls that  *)
(* are made of them (OperationsService).                                   *)
(*                                                                         *)
(* A command is one transaction that reads the player and his controls     *)
(* without locking anything and writes at the end: the two ledger accounts *)
(* first, for a freeze, then the control, then the player.  Every command  *)
(* takes these locks in that order, so that its writes and its commit are  *)
(* one step.  The queries of a snapshot are one step too: whether a        *)
(* command goes through depends on the query of its own kind alone.        *)
(*                                                                         *)
(* A command has the number of its start, which is also its time: the time *)
(* is read before the tables are.  It inserts one control at most, which   *)
(* has its number.  Audit records, reasons and answers are left out.       *)
(***************************************************************************)
EXTENDS AccountRules, Integers, FiniteSets

CONSTANTS
  MaxCommands,  \* how many commands run
  Connections,  \* of the database pool: one transaction each
  DirectOps,    \* what each command may be that is sent to the service itself
  Operators,    \* operators of the risk controls, with one request at a time
  RiskRequests, \* what they may ask for
  NoTarget      \* of a command that has nothing to lift

Ops == Applications \cup Lifts
FreezeOps == {"apply_freeze", "lift_freeze"}

ASSUME ControlsAssumption ==
  /\ MaxCommands \in Nat /\ Connections \in Nat
  /\ DirectOps \in [1 .. MaxCommands -> SUBSET Ops]
  /\ RiskRequests \subseteq {"freeze_withdrawals", "freeze_account", "unfreeze"}
  /\ NoTarget \notin Nat

Commands == 1 .. MaxCommands

VARIABLES
  controls,   \* the rows of the three tables of controls
  lifted,     \* the controls that have lifted_at
  expired,    \* those whose expires_at has passed
  available, reserved,  \* accounts: the status of the two linked accounts
  statusAt,   \* player_accounts.status_changed_at
  started,    \* how many commands have started
  cmd,        \* what each command is doing
  request,    \* what each operator's request is doing
  raced       \* history: a freeze command overtook another's reads

tables == <<controls, lifted, available, reserved, statusAt>>
vars == <<tables, expired, started, cmd, request, raced>>

Rows == [id: Commands, kind: {"restriction", "suspension", "freeze"},
         risk: BOOLEAN, expires: BOOLEAN]

Command(op, risk, expires, past, at, target) ==
  [op |-> op, risk |-> risk, expires |-> expires, past |-> past, at |-> at,
   target |-> target, statusAt |-> 0, changes |-> FALSE]

NoCommand == Command("none", FALSE, FALSE, {}, "new", NoTarget)

CommandStates ==
  [op: Ops \cup {"none"}, risk: BOOLEAN, expires: BOOLEAN, past: SUBSET Commands,
   at: {"new", "begun", "found", "checked", "committed", "failed"},
   target: Commands \cup {NoTarget}, statusAt: 0 .. MaxCommands, changes: BOOLEAN]

Listed == {"restriction", "freeze"}

Steps == [op: Ops, target: Commands \cup {NoTarget}]

NoRequest ==
  [ask |-> "none", at |-> "idle", risk |-> [k \in Listed |-> {}], unread |-> {},
   todo |-> {}, current |-> NoTarget]

RequestStates ==
  [ask: {"none", "freeze_withdrawals", "freeze_account", "unfreeze"},
   at: {"idle", "listing", "acting", "done", "failed"},
   risk: [Listed -> SUBSET Commands], unread: SUBSET Listed,
   todo: SUBSET Steps, current: Commands \cup {NoTarget}]

-----------------------------------------------------------------------------
(* What the queries see *)

OfKind(kind) == {r \in controls : r.kind = kind /\ r.id \notin lifted}

\* The controls that are active at the time of a command.
ActiveAt(c, kind) == {r \in OfKind(kind) : r.id \notin cmd[c].past}

ActiveFreezes == OfKind("freeze")

\* ORDER BY created_at DESC LIMIT 1
Latest(rows) == {r \in rows : \A q \in rows : q.id <= r.id}

\* A snapshot shows a freeze whatever the time.
Snapshot(c) ==
  Controls(Cardinality(ActiveAt(c, "restriction")), ActiveAt(c, "suspension") # {},
           ActiveFreezes # {})

InFlight == {c \in Commands : cmd[c].at \in {"begun", "found", "checked"}}

-----------------------------------------------------------------------------
(* The commands of AccountControlService *)

\* A command gets a connection and begins: it takes its time.
Begin(op, risk, expires, target) ==
  /\ started < MaxCommands /\ Cardinality(InFlight) < Connections
  /\ started' = started + 1
  /\ cmd' = [cmd EXCEPT ![started + 1] =
               Command(op, risk, expires, expired, "begun", target)]

\* A restriction is lifted by its id, the others by asking for the active one.
BeginDirect(op, expires) ==
  /\ started < MaxCommands /\ op \in DirectOps[started + 1]
  /\ expires => op \in {"apply_restriction", "apply_suspension"}
  /\ IF op = "lift_restriction"
     THEN \E r \in controls : r.kind = "restriction" /\ Begin(op, FALSE, expires, r.id)
     ELSE Begin(op, FALSE, expires, NoTarget)
  /\ UNCHANGED <<tables, expired, request, raced>>

Move(c, x) ==
  /\ cmd' = [cmd EXCEPT ![c] = x]
  /\ UNCHANGED <<tables, expired, started, request, raced>>

\* What remains of a command when its transaction ends.
Ended(c, at) == Command(cmd[c].op, FALSE, FALSE, {}, at, NoTarget)

\* A command is refused, or its transaction breaks off: nothing is written.
Roll(c) == Move(c, Ended(c, "failed"))

Fail_OwnTransaction(c) ==
  /\ c \in InFlight
  /\ cmd' = [cmd EXCEPT ![c] = Ended(c, "failed")]
  /\ IF cmd[c].op = "apply_freeze" /\ cmd[c].at = "checked"
     THEN available' = "frozen" /\ reserved' = "frozen"
     ELSE UNCHANGED <<available, reserved>>
  /\ UNCHANGED <<controls, lifted, statusAt, expired, started, request, raced>>

Fail(c) ==
  /\ c \in InFlight
  /\ Roll(c)

\* requireRestriction, requireActiveSuspension, requireActiveFreeze
FindTargetOf(c) ==
  CASE cmd[c].op = "lift_restriction" ->
         {r \in ActiveAt(c, "restriction") : r.id = cmd[c].target}
    [] cmd[c].op = "lift_suspension" -> Latest(ActiveAt(c, "suspension"))
    [] cmd[c].op = "lift_freeze" -> Latest(ActiveFreezes)

\* It reads the player, and what it is to lift, which must be active.
Find(c) ==
  /\ cmd[c].at = "begun"
  /\ LET found == [cmd[c] EXCEPT !.at = "found", !.statusAt = statusAt]
     IN  \/ /\ cmd[c].op \in Applications
            /\ Move(c, found)
         \/ /\ cmd[c].op \in Lifts
            /\ \E r \in FindTargetOf(c) : Move(c, [found EXCEPT !.target = r.id])
         \/ /\ cmd[c].op \in Lifts
            /\ FindTargetOf(c) = {}
            /\ Roll(c)

\* It reads the controls and asks the state machine.
Check(c) ==
  /\ cmd[c].at = "found"
  /\ IF TransitionAllowed(Snapshot(c), cmd[c].op)
     THEN Move(c, [cmd[c] EXCEPT !.at = "checked",
                                 !.changes = ChangesStatus(Snapshot(c), cmd[c].op)])
     ELSE Roll(c)

\* The new status_changed_at must not be later than the command itself, and
\* nothing is lifted before it was created.
InTimeOrder(c) ==
  /\ ~cmd[c].changes => cmd[c].statusAt <= c
  /\ cmd[c].op \in Lifts => cmd[c].target <= c

\* Another freeze command has read the controls and not written yet.
Overtakes(c) ==
  /\ cmd[c].op \in FreezeOps
  /\ \E d \in Commands \ {c} : cmd[d].op \in FreezeOps /\ cmd[d].at \in {"found", "checked"}

\* What each operation writes: for a freeze the linked accounts, whatever they
\* are, and the row of its table.
Insert(c, kind) ==
  /\ controls' = controls \cup {[id |-> c, kind |-> kind, risk |-> cmd[c].risk,
                                 expires |-> cmd[c].expires]}
  /\ UNCHANGED lifted

Lift(c) ==
  /\ lifted' = lifted \cup {cmd[c].target}
  /\ UNCHANGED controls

SyncLinkedAccounts(status) == available' = status /\ reserved' = status

AccountsStay == UNCHANGED <<available, reserved>>

ApplyRestriction(c) ==
  cmd[c].op = "apply_restriction" /\ Insert(c, "restriction") /\ AccountsStay

LiftRestriction(c) == cmd[c].op = "lift_restriction" /\ Lift(c) /\ AccountsStay

ApplySuspension(c) ==
  cmd[c].op = "apply_suspension" /\ Insert(c, "suspension") /\ AccountsStay

LiftSuspension(c) == cmd[c].op = "lift_suspension" /\ Lift(c) /\ AccountsStay

ApplyFreeze(c) ==
  cmd[c].op = "apply_freeze" /\ SyncLinkedAccounts("frozen") /\ Insert(c, "freeze")

LiftFreeze(c) ==
  cmd[c].op = "lift_freeze" /\ SyncLinkedAccounts("active") /\ Lift(c)

Write(c) ==
  \/ ApplyRestriction(c) \/ LiftRestriction(c)
  \/ ApplySuspension(c) \/ LiftSuspension(c)
  \/ ApplyFreeze(c) \/ LiftFreeze(c)

\* The player row follows, and COMMIT.
Commit(c) ==
  /\ cmd[c].at = "checked"
  /\ InTimeOrder(c)
  /\ Write(c)
  /\ statusAt' = IF cmd[c].changes THEN c ELSE cmd[c].statusAt
  /\ cmd' = [cmd EXCEPT ![c] = Ended(c, "committed")]
  /\ raced' = (raced \/ Overtakes(c))
  /\ UNCHANGED <<expired, started, request>>

\* Time passes the end of a control.
Expire(r) ==
  /\ r \in controls /\ r.expires
  /\ r.id \notin expired
  /\ expired' = expired \cup {r.id}
  /\ UNCHANGED <<tables, started, cmd, request, raced>>

-----------------------------------------------------------------------------
(* The risk controls of OperationsService *)

Become(o, x) == request' = [request EXCEPT ![o] = x]

Alone == UNCHANGED <<tables, expired, started, cmd, raced>>

Ask(o, ask) ==
  /\ request[o].at \in {"idle", "done", "failed"}
  /\ Become(o, [NoRequest EXCEPT !.ask = ask, !.at = "listing", !.unread = Listed])
  /\ Alone

\* Which risk controls are there: two queries at once, outside any transaction,
\* that do not look at the time.
List(o, kind) ==
  /\ request[o].at = "listing" /\ kind \in request[o].unread
  /\ Become(o, [request[o] EXCEPT
                  !.risk[kind] = {r.id : r \in {q \in OfKind(kind) : q.risk}},
                  !.unread = @ \ {kind}])
  /\ Alone

\* A control is applied unless one like it is listed.  All restrictions that
\* are listed are lifted, and if freezes are, the active one.
Todo(x) ==
  {s \in Steps :
     \/ /\ x.ask = "freeze_withdrawals" /\ x.risk["restriction"] = {}
        /\ s = [op |-> "apply_restriction", target |-> NoTarget]
     \/ /\ x.ask = "freeze_account" /\ x.risk["freeze"] = {}
        /\ s = [op |-> "apply_freeze", target |-> NoTarget]
     \/ /\ x.ask = "unfreeze"
        /\ \/ s.op = "lift_restriction" /\ s.target \in x.risk["restriction"]
           \/ x.risk["freeze"] # {} /\ s = [op |-> "lift_freeze", target |-> NoTarget]}

Plan(o) ==
  /\ request[o].at = "listing" /\ request[o].unread = {}
  /\ Become(o, [request[o] EXCEPT !.at = "acting", !.todo = Todo(request[o])])
  /\ Alone

\* The next command of a request; the freeze comes last.
Send(o) ==
  /\ request[o].at = "acting" /\ request[o].current = NoTarget
  /\ \E s \in request[o].todo :
       /\ s.op = "lift_freeze" => request[o].todo = {s}
       /\ Begin(s.op, TRUE, FALSE, s.target)
       /\ Become(o, [request[o] EXCEPT !.todo = @ \ {s}, !.current = started + 1])
  /\ UNCHANGED <<tables, expired, raced>>

Receive_IgnoresErrors(o) ==
  /\ request[o].at = "acting" /\ request[o].current # NoTarget
  /\ cmd[request[o].current].at \in {"committed", "failed"}
  /\ Become(o, [request[o] EXCEPT !.current = NoTarget])
  /\ Alone

\* Its answer: an error ends the request, whatever it has done already.
Receive(o) ==
  /\ request[o].at = "acting" /\ request[o].current # NoTarget
  /\ \/ /\ cmd[request[o].current].at = "committed"
        /\ Become(o, [request[o] EXCEPT !.current = NoTarget])
     \/ /\ cmd[request[o].current].at = "failed"
        /\ Become(o, [request[o] EXCEPT !.current = NoTarget, !.at = "failed"])
  /\ Alone

Finish(o) ==
  /\ request[o].at = "acting" /\ request[o].current = NoTarget /\ request[o].todo = {}
  /\ Become(o, [request[o] EXCEPT !.at = "done"])
  /\ Alone

-----------------------------------------------------------------------------

Init ==
  /\ controls = {} /\ lifted = {} /\ expired = {}
  /\ available = "active" /\ reserved = "active"
  /\ statusAt = 0 /\ started = 0
  /\ cmd = [c \in Commands |-> NoCommand]
  /\ request = [o \in Operators |-> NoRequest]
  /\ raced = FALSE

CommandStep(c) == Find(c) \/ Check(c) \/ Commit(c) \/ Fail(c)

RequestStep(o) ==
  \/ \E ask \in RiskRequests : Ask(o, ask)
  \/ \E kind \in Listed : List(o, kind)
  \/ Plan(o) \/ Send(o) \/ Receive(o) \/ Finish(o)

Next ==
  \/ \E op \in Ops, expires \in BOOLEAN : BeginDirect(op, expires)
  \/ \E c \in Commands : CommandStep(c)
  \/ \E o \in Operators : RequestStep(o)
  \/ \E r \in controls : Expire(r)

Spec == Init /\ [][Next]_vars

-----------------------------------------------------------------------------
(* Properties *)

\* Types, and that a control is written by the command that has its number,
\* and lifted by one that was sent for its kind.
TypeOK ==
  /\ controls \subseteq Rows
  /\ lifted \subseteq {r.id : r \in controls}
  /\ expired \subseteq Commands
  /\ available \in {"active", "frozen"} /\ reserved \in {"active", "frozen"}
  /\ statusAt \in 0 .. MaxCommands /\ started \in 0 .. MaxCommands
  /\ cmd \in [Commands -> CommandStates]
  /\ request \in [Operators -> RequestStates]
  /\ raced \in BOOLEAN
  /\ \A r \in controls : cmd[r.id].at = "committed" /\ KindOf(cmd[r.id].op) = r.kind

\* A player is never left locked out: the two linked accounts have one status,
\* and if they are frozen there is an active freeze that can still be lifted,
\* however commands overtake each other.
NoStrandedFreeze ==
  /\ available = reserved
  /\ available = "frozen" => ActiveFreezes # {}

\* A freeze holds: unless one freeze command overtook the reads of another, the
\* accounts are frozen as long as a freeze is active, and there is one at most.
FreezeHolds ==
  raced \/ /\ ActiveFreezes # {} => available = "frozen"
           /\ \A r, q \in ActiveFreezes : r = q

\* When a request to unfreeze an account is answered, nothing of what it found
\* is left: every restriction that it listed is lifted, and so is every freeze,
\* unless freeze commands overtook each other.
UnfreezeClears ==
  \A o \in Operators :
    request[o].ask = "unfreeze" /\ request[o].at = "done" =>
      /\ request[o].risk["restriction"] \subseteq lifted
      /\ raced \/ request[o].risk["freeze"] \subseteq lifted
=============================================================================
