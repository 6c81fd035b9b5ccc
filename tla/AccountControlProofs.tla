------------------------- MODULE AccountControlProofs -------------------------
(***************************************************************************)
(* What TLAPS proves of AccountControls for any number of commands,        *)
(* connections and operators: nobody is left locked out, an unfreeze       *)
(* lifts what it listed, and a freeze holds unless freeze commands         *)
(* overtake each other.                                                    *)
(***************************************************************************)
EXTENDS AccountControls, TLAPS

USE ControlsAssumption DEF Commands

-----------------------------------------------------------------------------
(* The inductive invariant *)

\* Commands start in the order of their numbers.
Fresh == \A c \in Commands : c > started => cmd[c].at = "new"

Reading(c) == cmd[c].at \in {"found", "checked"}

\* What a command is about to lift is a control of its kind.
TargetsExist ==
  \A c \in Commands :
    /\ cmd[c].at # "new" => cmd[c].op \in Ops
    /\ Reading(c) /\ cmd[c].op \in Lifts =>
         \E r \in controls : r.id = cmd[c].target /\ r.kind = KindOf(cmd[c].op)

\* What freeze commands have read is still so, unless one overtook another: no
\* freeze is active for one that applies, none but its own for one that lifts.
ViewsHold ==
  raced \/ \A c \in Commands :
    /\ cmd[c].op = "apply_freeze" /\ cmd[c].at = "checked" => ActiveFreezes = {}
    /\ cmd[c].op = "lift_freeze" /\ Reading(c) =>
         \A r \in ActiveFreezes : r.id = cmd[c].target

CInv == TypeOK /\ Fresh /\ TargetsExist /\ NoStrandedFreeze /\ FreezeHolds /\ ViewsHold

-----------------------------------------------------------------------------
(* What does not concern the freezes *)

LEMMA FreezesStay ==
  ASSUME UNCHANGED <<controls, lifted>>
  PROVE  ActiveFreezes' = ActiveFreezes
BY DEF ActiveFreezes, OfKind

\* A step of an operator that sends no command.
LEMMA OperatorStep ==
  ASSUME CInv, NEW o \in Operators, NEW x \in RequestStates, Become(o, x), Alone
  PROVE  CInv'
<1>1. UNCHANGED <<controls, lifted, available, reserved, statusAt, expired, started, cmd, raced>>
  BY DEF Alone, tables
<1>2. ActiveFreezes' = ActiveFreezes
  BY <1>1, FreezesStay
<1>3. request' \in [Operators -> RequestStates]
  BY DEF CInv, TypeOK, Become
<1>4. TypeOK'
  BY <1>1, <1>3 DEF CInv, TypeOK
<1>5. (Fresh /\ TargetsExist /\ NoStrandedFreeze /\ FreezeHolds /\ ViewsHold)'
  BY <1>1, <1>2 DEF CInv, Fresh, TargetsExist, Reading, NoStrandedFreeze, FreezeHolds, ViewsHold
<1> QED BY <1>4, <1>5 DEF CInv

\* A command begins.
LEMMA BeginStep ==
  ASSUME CInv, NEW op \in Ops, NEW risk \in BOOLEAN, NEW expires \in BOOLEAN,
         NEW target \in Commands \cup {NoTarget}, Begin(op, risk, expires, target),
         UNCHANGED <<tables, expired, raced>>,
         request' \in [Operators -> RequestStates]
  PROVE  CInv'
<1> DEFINE n == started + 1
           x == Command(op, risk, expires, expired, "begun", target)
<1>1. /\ n \in Commands /\ n > started
      /\ started' = n /\ cmd' = [cmd EXCEPT ![n] = x]
      /\ UNCHANGED <<controls, lifted, available, reserved, statusAt, expired, raced>>
  BY DEF Begin, CInv, TypeOK, tables
<1>2. x \in CommandStates /\ x.at = "begun" /\ x.op = op
  <2>1. expired \in SUBSET Commands /\ 0 \in 0 .. MaxCommands
    BY DEF CInv, TypeOK
  <2> QED BY <2>1 DEF Command, CommandStates
<1>3. cmd[n].at = "new"
  BY <1>1 DEF CInv, Fresh
<1>4. cmd \in [Commands -> CommandStates]
  BY DEF CInv, TypeOK
<1> HIDE DEF n, x
<1>5. \A c \in Commands : cmd'[c] = IF c = n THEN x ELSE cmd[c]
  BY <1>1, <1>4
<1>6. ActiveFreezes' = ActiveFreezes
  BY <1>1, FreezesStay
<1>7. \A r \in controls : r.id \in Commands /\ r.id # n
  BY <1>3 DEF CInv, TypeOK, Rows
<1>8. TypeOK'
  <2>1. cmd' \in [Commands -> CommandStates]
    BY <1>1, <1>2, <1>4
  <2>2. \A r \in controls' : cmd'[r.id].at = "committed" /\ KindOf(cmd'[r.id].op) = r.kind
    BY <1>1, <1>5, <1>7 DEF CInv, TypeOK
  <2>3. started' \in 0 .. MaxCommands
    BY <1>1 DEF CInv, TypeOK
  <2> QED BY <1>1, <2>1, <2>2, <2>3 DEF CInv, TypeOK
<1>9. Fresh'
  <2> SUFFICES ASSUME NEW c \in Commands, c > started' PROVE cmd'[c].at = "new"
    BY DEF Fresh
  <2>1. c > started /\ c # n
    BY <1>1 DEF CInv, TypeOK, n
  <2> QED BY <2>1, <1>5 DEF CInv, Fresh
<1>10. TargetsExist'
  BY <1>1, <1>2, <1>5 DEF CInv, TargetsExist, Reading
<1>11. (NoStrandedFreeze /\ FreezeHolds)'
  BY <1>1, <1>6 DEF CInv, NoStrandedFreeze, FreezeHolds
<1>12. ViewsHold'
  BY <1>1, <1>2, <1>5, <1>6 DEF CInv, ViewsHold, Reading
<1> QED BY <1>8, <1>9, <1>10, <1>11, <1>12 DEF CInv

-----------------------------------------------------------------------------
(* A command on its way *)

\* A command in flight moves on, or ends, without writing anything.
LEMMA MoveStep ==
  ASSUME CInv, NEW c \in InFlight, NEW x \in CommandStates, Move(c, x),
         x.op = cmd[c].op, x.at \notin {"new", "committed"},
         x.at \in {"found", "checked"} /\ x.op \in Lifts =>
           \E r \in controls : r.id = x.target /\ r.kind = KindOf(x.op),
         raced \/ (x.op = "apply_freeze" /\ x.at = "checked" => ActiveFreezes = {}),
         raced \/ (x.op = "lift_freeze" /\ x.at \in {"found", "checked"} =>
                     \A r \in ActiveFreezes : r.id = x.target)
  PROVE  CInv'
<1>1. /\ cmd' = [cmd EXCEPT ![c] = x] /\ c \in Commands /\ cmd[c].at \notin {"new", "committed"}
      /\ UNCHANGED <<controls, lifted, available, reserved, statusAt, expired, started, request, raced>>
  BY DEF Move, tables, InFlight
<1>2. cmd \in [Commands -> CommandStates]
  BY DEF CInv, TypeOK
<1>3. \A d \in Commands : cmd'[d] = IF d = c THEN x ELSE cmd[d]
  BY <1>1, <1>2
<1>4. ActiveFreezes' = ActiveFreezes
  BY <1>1, FreezesStay
<1>5. TypeOK'
  <2>1. cmd' \in [Commands -> CommandStates]
    BY <1>1, <1>2
  <2>2. \A r \in controls' : cmd'[r.id].at = "committed" /\ KindOf(cmd'[r.id].op) = r.kind
    BY <1>1, <1>3 DEF CInv, TypeOK, Rows
  <2> QED BY <1>1, <2>1, <2>2 DEF CInv, TypeOK
<1>6. Fresh'
  BY <1>1, <1>3 DEF CInv, Fresh
<1>7. TargetsExist'
  BY <1>1, <1>3 DEF CInv, TargetsExist, Reading
<1>8. (NoStrandedFreeze /\ FreezeHolds)'
  BY <1>1, <1>4 DEF CInv, NoStrandedFreeze, FreezeHolds
<1>9. ViewsHold'
  BY <1>1, <1>3, <1>4 DEF CInv, ViewsHold, Reading
<1> QED BY <1>5, <1>6, <1>7, <1>8, <1>9 DEF CInv

LEMMA RollStep ==
  ASSUME CInv, NEW c \in InFlight, Roll(c)
  PROVE  CInv'
<1>1. c \in Commands /\ cmd[c] \in CommandStates
  BY DEF InFlight, CInv, TypeOK
<1>2. Ended(c, "failed") \in CommandStates /\ Ended(c, "failed").op = cmd[c].op
      /\ Ended(c, "failed").at = "failed"
  <2>1. cmd[c].op \in Ops \cup {"none"} /\ 0 \in 0 .. MaxCommands
    BY <1>1 DEF CommandStates
  <2> QED BY <2>1 DEF Ended, Command, CommandStates
<1> QED BY <1>2, MoveStep DEF Roll

\* What is to be lifted is a control, of the kind of the command.
LEMMA FoundIsControl ==
  ASSUME CInv, NEW c \in Commands, cmd[c].op \in Lifts, NEW r \in FindTargetOf(c)
  PROVE  r \in controls /\ r.kind = KindOf(cmd[c].op) /\ r.id \in Commands
<1>1. r \in controls /\ r.kind = KindOf(cmd[c].op)
  BY DEF FindTargetOf, Lifts, KindOf, ActiveAt, ActiveFreezes, OfKind, Latest
<1> QED BY <1>1 DEF CInv, TypeOK, Rows

LEMMA FindStep ==
  ASSUME CInv, NEW c \in Commands, Find(c)
  PROVE  CInv'
<1> DEFINE f == [cmd[c] EXCEPT !.at = "found", !.statusAt = statusAt]
<1>1. c \in InFlight /\ cmd[c] \in CommandStates /\ cmd[c].at = "begun"
  BY DEF Find, InFlight, CInv, TypeOK
<1>2. f \in CommandStates /\ f.op = cmd[c].op /\ f.at = "found"
  BY <1>1 DEF CommandStates, CInv, TypeOK
<1>3. CASE cmd[c].op \in Applications /\ Move(c, f)
  <2>1. cmd[c].op \notin Lifts /\ cmd[c].op # "lift_freeze"
    BY <1>3 DEF Applications, Lifts
  <2> HIDE DEF f
  <2> QED BY <1>1, <1>2, <1>3, <2>1, MoveStep
<1>4. ASSUME cmd[c].op \in Lifts, NEW r \in FindTargetOf(c),
             Move(c, [f EXCEPT !.target = r.id])
      PROVE  CInv'
  <2> DEFINE x == [f EXCEPT !.target = r.id]
  <2>1. r \in controls /\ r.kind = KindOf(cmd[c].op) /\ r.id \in Commands
    BY <1>4, FoundIsControl
  <2>2. x \in CommandStates /\ x.op = cmd[c].op /\ x.at = "found" /\ x.target = r.id
    BY <1>1, <1>2, <2>1 DEF CommandStates
  <2>3. ASSUME cmd[c].op = "lift_freeze", ~raced, NEW q \in ActiveFreezes
        PROVE  q.id = r.id
    <3>1. r \in ActiveFreezes
      BY <1>4, <2>3 DEF FindTargetOf, Latest
    <3> QED BY <2>3, <3>1 DEF CInv, FreezeHolds
  <2>4. Move(c, x)
    BY <1>4
  <2> HIDE DEF x
  <2> QED BY <1>1, <2>1, <2>2, <2>3, <2>4, MoveStep
<1>5. CASE Roll(c)
  BY <1>1, <1>5, RollStep
<1> QED BY <1>3, <1>4, <1>5 DEF Find

LEMMA CheckStep ==
  ASSUME CInv, NEW c \in Commands, Check(c)
  PROVE  CInv'
<1> DEFINE x == [cmd[c] EXCEPT !.at = "checked",
                               !.changes = ChangesStatus(Snapshot(c), cmd[c].op)]
<1>1. c \in InFlight /\ cmd[c] \in CommandStates /\ cmd[c].at = "found"
  BY DEF Check, InFlight, CInv, TypeOK
<1>2. ChangesStatus(Snapshot(c), cmd[c].op) \in BOOLEAN
  BY DEF ChangesStatus
<1>3. x \in CommandStates /\ x.op = cmd[c].op /\ x.at = "checked" /\ x.target = cmd[c].target
  BY <1>1, <1>2 DEF CommandStates
<1>4. CASE TransitionAllowed(Snapshot(c), cmd[c].op) /\ Move(c, x)
  <2>1. cmd[c].op = "apply_freeze" => ActiveFreezes = {}
    BY <1>4 DEF TransitionAllowed, Snapshot, Controls
  <2>2. cmd[c].op \in Lifts =>
          \E r \in controls : r.id = cmd[c].target /\ r.kind = KindOf(cmd[c].op)
    BY <1>1 DEF CInv, TargetsExist, Reading
  <2>3. raced \/ (cmd[c].op = "lift_freeze" => \A r \in ActiveFreezes : r.id = cmd[c].target)
    BY <1>1 DEF CInv, ViewsHold, Reading
  <2>4. Move(c, x)
    BY <1>4
  <2> HIDE DEF x
  <2> QED BY <1>1, <1>3, <2>1, <2>2, <2>3, <2>4, MoveStep
<1>5. CASE Roll(c)
  BY <1>1, <1>5, RollStep
<1> QED BY <1>4, <1>5 DEF Check

-----------------------------------------------------------------------------
(* A command commits *)

\* The status of a command that commits: it keeps its operation alone.
LEMMA EndedIsState ==
  ASSUME CInv, NEW c \in Commands
  PROVE  /\ Ended(c, "committed") \in CommandStates
         /\ Ended(c, "committed").op = cmd[c].op /\ Ended(c, "committed").at = "committed"
<1>1. cmd[c].op \in Ops \cup {"none"} /\ 0 \in 0 .. MaxCommands
  BY DEF CommandStates, CInv, TypeOK
<1> QED BY <1>1 DEF Ended, Command, CommandStates

\* What a commit leaves to show, once it is known what it writes.
LEMMA CommitStep ==
  ASSUME CInv, NEW c \in Commands, Commit(c),
         controls' \subseteq Rows,
         lifted' \subseteq {r.id : r \in controls'},
         controls \subseteq controls',
         \A r \in controls' \ controls : r.id = c /\ r.kind = KindOf(cmd[c].op),
         available' \in {"active", "frozen"}, reserved' \in {"active", "frozen"},
         NoStrandedFreeze', FreezeHolds',
         raced' \/ cmd[c].op \in FreezeOps \/ ActiveFreezes' = ActiveFreezes
  PROVE  CInv'
<1> DEFINE x == Ended(c, "committed")
<1>1. /\ cmd' = [cmd EXCEPT ![c] = x] /\ cmd[c].at = "checked"
      /\ raced' = (raced \/ Overtakes(c))
      /\ UNCHANGED <<expired, started, request>>
  BY DEF Commit
<1>2. x \in CommandStates /\ x.op = cmd[c].op /\ x.at = "committed"
  BY EndedIsState
<1>3. cmd \in [Commands -> CommandStates]
  BY DEF CInv, TypeOK
<1> HIDE DEF x
<1>4. \A d \in Commands : cmd'[d] = IF d = c THEN x ELSE cmd[d]
  BY <1>1, <1>3
<1>5. TypeOK'
  <2>1. cmd' \in [Commands -> CommandStates]
    BY <1>1, <1>2, <1>3
  <2>2. \A r \in controls' : cmd'[r.id].at = "committed" /\ KindOf(cmd'[r.id].op) = r.kind
    BY <1>2, <1>4 DEF CInv, TypeOK, Rows
  <2>3. statusAt' \in 0 .. MaxCommands
    BY <1>3 DEF Commit, CInv, TypeOK, CommandStates
  <2>4. raced' \in BOOLEAN
    BY <1>1 DEF CInv, TypeOK, Overtakes
  <2>5. expired' \subseteq Commands /\ started' \in 0 .. MaxCommands
        /\ request' \in [Operators -> RequestStates]
    BY <1>1 DEF CInv, TypeOK
  <2> QED BY <2>1, <2>2, <2>3, <2>4, <2>5 DEF TypeOK
<1>6. Fresh'
  BY <1>1, <1>4 DEF CInv, Fresh
<1>7. TargetsExist'
  BY <1>1, <1>2, <1>4 DEF CInv, TargetsExist, Reading
<1>8. ViewsHold'
  <2>1. CASE cmd[c].op \in FreezeOps
    <3> SUFFICES ASSUME ~raced', NEW d \in Commands, cmd'[d].op \in FreezeOps
                 PROVE  cmd'[d].at \notin {"found", "checked"}
      BY DEF ViewsHold, Reading, FreezeOps
    <3>1. CASE d = c
      BY <3>1, <1>2, <1>4
    <3>2. CASE d # c
      <4>1. cmd'[d] = cmd[d] /\ ~Overtakes(c)
        BY <3>2, <1>1, <1>4
      <4> QED BY <2>1, <3>2, <4>1 DEF Overtakes
    <3> QED BY <3>1, <3>2
  <2>2. CASE ~raced' /\ ActiveFreezes' = ActiveFreezes
    <3> DEFINE View(d) ==
          /\ cmd[d].op = "apply_freeze" /\ cmd[d].at = "checked" => ActiveFreezes = {}
          /\ cmd[d].op = "lift_freeze" /\ Reading(d) =>
               \A r \in ActiveFreezes : r.id = cmd[d].target
    <3>1. \A d \in Commands : View(d)
      BY <2>2, <1>1 DEF CInv, ViewsHold
    <3>2. ASSUME NEW d \in Commands PROVE View(d)'
      <4>1. CASE d = c
        BY <4>1, <1>2, <1>4 DEF Reading
      <4>2. CASE d # c
        <5>1. cmd'[d] = cmd[d]
          BY <4>2, <1>4
        <5> QED BY <5>1, <3>1, <2>2 DEF Reading
      <4> QED BY <4>1, <4>2
    <3> QED BY <3>2 DEF ViewsHold
  <2>3. CASE raced'
    BY <2>3 DEF ViewsHold
  <2> QED BY <2>1, <2>2, <2>3
<1> QED BY <1>5, <1>6, <1>7, <1>8 DEF CInv

\* A new control of a command that has not committed.
LEMMA InsertRows ==
  ASSUME CInv, NEW c \in Commands, cmd[c].at = "checked",
         NEW kind \in {"restriction", "suspension", "freeze"}, kind = KindOf(cmd[c].op),
         Insert(c, kind)
  PROVE  /\ controls' \subseteq Rows /\ controls \subseteq controls'
         /\ lifted' \subseteq {r.id : r \in controls'}
         /\ \A r \in controls' \ controls : r.id = c /\ r.kind = KindOf(cmd[c].op)
         /\ \A r \in controls : r.id # c
         /\ c \notin lifted
<1>1. cmd[c] \in CommandStates
  BY DEF CInv, TypeOK
<1>2. [id |-> c, kind |-> kind, risk |-> cmd[c].risk, expires |-> cmd[c].expires] \in Rows
  BY <1>1 DEF CommandStates, Rows
<1>3. \A r \in controls : r.id # c
  BY DEF CInv, TypeOK
<1> QED BY <1>2, <1>3 DEF Insert, CInv, TypeOK

\* A control that is lifted.
LEMMA LiftRows ==
  ASSUME CInv, NEW c \in Commands, cmd[c].at = "checked", cmd[c].op \in Lifts, Lift(c)
  PROVE  /\ controls' = controls
         /\ lifted' = lifted \cup {cmd[c].target}
         /\ lifted' \subseteq {r.id : r \in controls}
         /\ \A r \in controls : r.id = cmd[c].target => r.kind = KindOf(cmd[c].op)
<1>1. PICK q \in controls : q.id = cmd[c].target /\ q.kind = KindOf(cmd[c].op)
  BY DEF CInv, TargetsExist, Reading
<1>2. \A r \in controls : r.id = q.id => r.kind = q.kind
  BY DEF CInv, TypeOK
<1> QED BY <1>1, <1>2 DEF Lift, CInv, TypeOK

\* Restrictions and suspensions leave the freezes as they are.
LEMMA OtherControls ==
  ASSUME CInv, NEW c \in Commands, Commit(c), UNCHANGED <<available, reserved>>,
         cmd[c].op \notin FreezeOps,
         ActiveFreezes' = ActiveFreezes
  PROVE  (NoStrandedFreeze /\ FreezeHolds)'
<1>1. raced => raced'
  BY DEF Commit
<1> QED BY <1>1 DEF CInv, NoStrandedFreeze, FreezeHolds

LEMMA ApplyOther ==
  ASSUME CInv, NEW c \in Commands, Commit(c), AccountsStay,
         \/ cmd[c].op = "apply_restriction" /\ Insert(c, "restriction")
         \/ cmd[c].op = "apply_suspension" /\ Insert(c, "suspension")
  PROVE  CInv'
<1>1. PICK kind \in {"restriction", "suspension"} : kind = KindOf(cmd[c].op) /\ Insert(c, kind)
  BY DEF KindOf
<1>2. cmd[c].at = "checked" /\ cmd[c].op \notin FreezeOps
  BY DEF Commit, FreezeOps
<1>3. /\ controls' \subseteq Rows /\ controls \subseteq controls'
      /\ lifted' \subseteq {r.id : r \in controls'}
      /\ \A r \in controls' \ controls : r.id = c /\ r.kind = KindOf(cmd[c].op)
  BY <1>1, <1>2, InsertRows
<1>4. ActiveFreezes' = ActiveFreezes
  BY <1>1 DEF Insert, ActiveFreezes, OfKind
<1>5. UNCHANGED <<available, reserved>>
  BY DEF AccountsStay
<1> QED BY <1>2, <1>3, <1>4, <1>5, OtherControls, CommitStep DEF CInv, TypeOK

LEMMA LiftOther ==
  ASSUME CInv, NEW c \in Commands, Commit(c), AccountsStay, Lift(c),
         cmd[c].op \in {"lift_restriction", "lift_suspension"}
  PROVE  CInv'
<1>1. cmd[c].at = "checked" /\ cmd[c].op \in Lifts /\ cmd[c].op \notin FreezeOps
      /\ KindOf(cmd[c].op) # "freeze"
  BY DEF Commit, Lifts, FreezeOps, KindOf
<1>2. /\ controls' = controls
      /\ lifted' = lifted \cup {cmd[c].target}
      /\ lifted' \subseteq {r.id : r \in controls}
      /\ \A r \in controls : r.id = cmd[c].target => r.kind = KindOf(cmd[c].op)
  BY <1>1, LiftRows
<1>3. ActiveFreezes' = ActiveFreezes
  BY <1>1, <1>2 DEF ActiveFreezes, OfKind
<1>4. UNCHANGED <<available, reserved>>
  BY DEF AccountsStay
<1> QED BY <1>1, <1>2, <1>3, <1>4, OtherControls, CommitStep DEF CInv, TypeOK

\* A new freeze is active and freezes both accounts; there was none unless a
\* freeze command was overtaken.
LEMMA ApplyFreezeStep ==
  ASSUME CInv, NEW c \in Commands, Commit(c), ApplyFreeze(c)
  PROVE  CInv'
<1>1. /\ cmd[c].at = "checked" /\ cmd[c].op = "apply_freeze" /\ Insert(c, "freeze")
      /\ available' = "frozen" /\ reserved' = "frozen" /\ (raced => raced')
  BY DEF Commit, ApplyFreeze, SyncLinkedAccounts
<1>2. KindOf(cmd[c].op) = "freeze" /\ cmd[c].op \in FreezeOps
  BY <1>1 DEF KindOf, FreezeOps
<1>3. /\ controls' \subseteq Rows /\ controls \subseteq controls'
      /\ lifted' \subseteq {r.id : r \in controls'}
      /\ \A r \in controls' \ controls : r.id = c /\ r.kind = KindOf(cmd[c].op)
      /\ \A r \in controls : r.id # c
      /\ c \notin lifted
  BY <1>1, <1>2, InsertRows
<1> DEFINE row == [id |-> c, kind |-> "freeze", risk |-> cmd[c].risk, expires |-> cmd[c].expires]
<1>4. ActiveFreezes' = ActiveFreezes \cup {row}
  BY <1>1, <1>3 DEF Insert, ActiveFreezes, OfKind
<1>5. NoStrandedFreeze'
  BY <1>1, <1>4 DEF NoStrandedFreeze
<1>6. FreezeHolds'
  <2>1. raced \/ ActiveFreezes = {}
    BY <1>1 DEF CInv, ViewsHold
  <2> HIDE DEF row
  <2> QED BY <1>1, <1>4, <2>1 DEF FreezeHolds
<1> QED BY <1>1, <1>2, <1>3, <1>5, <1>6, CommitStep

\* The lift of a freeze makes both accounts active; no freeze stays unless a
\* freeze command was overtaken.
LEMMA LiftFreezeStep ==
  ASSUME CInv, NEW c \in Commands, Commit(c), LiftFreeze(c)
  PROVE  CInv'
<1>1. /\ cmd[c].at = "checked" /\ cmd[c].op = "lift_freeze" /\ Lift(c)
      /\ available' = "active" /\ reserved' = "active" /\ (raced => raced')
  BY DEF Commit, LiftFreeze, SyncLinkedAccounts
<1>2. cmd[c].op \in Lifts /\ cmd[c].op \in FreezeOps
  BY <1>1 DEF Lifts, FreezeOps
<1>3. /\ controls' = controls
      /\ lifted' = lifted \cup {cmd[c].target}
      /\ lifted' \subseteq {r.id : r \in controls}
  BY <1>1, <1>2, LiftRows
<1>4. NoStrandedFreeze'
  BY <1>1 DEF NoStrandedFreeze
<1>5. FreezeHolds'
  <2>1. raced \/ \A r \in ActiveFreezes : r.id = cmd[c].target
    BY <1>1 DEF CInv, ViewsHold, Reading
  <2>2. ActiveFreezes' = {r \in ActiveFreezes : r.id # cmd[c].target}
    BY <1>3 DEF ActiveFreezes, OfKind
  <2> QED BY <1>1, <2>1, <2>2 DEF FreezeHolds
<1> QED BY <1>1, <1>2, <1>3, <1>4, <1>5, CommitStep DEF CInv, TypeOK

LEMMA CommitKeeps ==
  ASSUME CInv, NEW c \in Commands, Commit(c)
  PROVE  CInv'
<1>1. Write(c)
  BY DEF Commit
<1>2. CASE ApplyRestriction(c) \/ ApplySuspension(c)
  BY <1>2, ApplyOther DEF ApplyRestriction, ApplySuspension
<1>3. CASE LiftRestriction(c) \/ LiftSuspension(c)
  BY <1>3, LiftOther DEF LiftRestriction, LiftSuspension
<1>4. CASE ApplyFreeze(c)
  BY <1>4, ApplyFreezeStep
<1>5. CASE LiftFreeze(c)
  BY <1>5, LiftFreezeStep
<1> QED BY <1>1, <1>2, <1>3, <1>4, <1>5 DEF Write

-----------------------------------------------------------------------------
(* The other steps *)

LEMMA ExpireStep ==
  ASSUME CInv, NEW r \in controls, Expire(r)
  PROVE  CInv'
<1>1. UNCHANGED <<controls, lifted, available, reserved, statusAt, started, cmd, request, raced>>
      /\ expired' = expired \cup {r.id}
  BY DEF Expire, tables
<1>2. r.id \in Commands
  BY DEF CInv, TypeOK, Rows
<1>3. ActiveFreezes' = ActiveFreezes
  BY <1>1, FreezesStay
<1>4. TypeOK'
  BY <1>1, <1>2 DEF CInv, TypeOK
<1>5. (Fresh /\ TargetsExist /\ NoStrandedFreeze /\ FreezeHolds /\ ViewsHold)'
  BY <1>1, <1>3 DEF CInv, Fresh, TargetsExist, Reading, NoStrandedFreeze, FreezeHolds, ViewsHold
<1> QED BY <1>4, <1>5 DEF CInv

LEMMA BeginDirectStep ==
  ASSUME CInv, NEW op \in Ops, NEW expires \in BOOLEAN, BeginDirect(op, expires)
  PROVE  CInv'
<1>1. PICK target \in Commands \cup {NoTarget} : Begin(op, FALSE, expires, target)
  BY DEF BeginDirect, CInv, TypeOK, Rows
<1>2. UNCHANGED <<tables, expired, raced>> /\ request' \in [Operators -> RequestStates]
  BY DEF BeginDirect, CInv, TypeOK
<1> QED BY <1>1, <1>2, BeginStep

LEMMA SendStep ==
  ASSUME CInv, NEW o \in Operators, Send(o)
  PROVE  CInv'
<1>1. request[o] \in RequestStates
  BY DEF CInv, TypeOK
<1>2. PICK s \in request[o].todo :
        /\ Begin(s.op, TRUE, FALSE, s.target)
        /\ Become(o, [request[o] EXCEPT !.todo = @ \ {s}, !.current = started + 1])
  BY DEF Send
<1>3. s.op \in Ops /\ s.target \in Commands \cup {NoTarget} /\ started + 1 \in Commands
  BY <1>1, <1>2 DEF RequestStates, Steps, Begin, CInv, TypeOK
<1>4. [request[o] EXCEPT !.todo = @ \ {s}, !.current = started + 1] \in RequestStates
  BY <1>1, <1>3 DEF RequestStates
<1>5. request' \in [Operators -> RequestStates]
  BY <1>2, <1>4 DEF Become, CInv, TypeOK
<1>6. UNCHANGED <<tables, expired, raced>>
  BY DEF Send
<1> QED BY <1>2, <1>3, <1>5, <1>6, BeginStep

LEMMA RequestKeeps ==
  ASSUME CInv, NEW o \in Operators, RequestStep(o)
  PROVE  CInv'
<1> DEFINE q == request[o]
<1>1. q \in RequestStates
  BY DEF CInv, TypeOK
<1>2. ASSUME NEW ask \in RiskRequests, Ask(o, ask) PROVE CInv'
  <2> DEFINE x == [NoRequest EXCEPT !.ask = ask, !.at = "listing", !.unread = Listed]
  <2>1. x \in RequestStates
    BY DEF NoRequest, RequestStates, Listed
  <2> QED BY <1>2, <2>1, OperatorStep DEF Ask
<1>3. ASSUME NEW kind \in Listed, List(o, kind) PROVE CInv'
  <2> DEFINE ids == {r.id : r \in {p \in OfKind(kind) : p.risk}}
             x == [q EXCEPT !.risk[kind] = ids, !.unread = @ \ {kind}]
  <2>1. ids \in SUBSET Commands
    BY DEF OfKind, CInv, TypeOK, Rows
  <2>2. x \in RequestStates
    BY <1>1, <2>1 DEF RequestStates
  <2> QED BY <1>3, <2>2, OperatorStep DEF List
<1>4. CASE Plan(o)
  <2>1. Todo(q) \in SUBSET Steps
    BY DEF Todo
  <2>2. [q EXCEPT !.at = "acting", !.todo = Todo(q)] \in RequestStates
    BY <1>1, <2>1 DEF RequestStates
  <2> QED BY <1>4, <2>2, OperatorStep DEF Plan
<1>5. CASE Send(o)
  BY <1>5, SendStep
<1>6. CASE Receive(o)
  <2>1. [q EXCEPT !.current = NoTarget] \in RequestStates
        /\ [q EXCEPT !.current = NoTarget, !.at = "failed"] \in RequestStates
    BY <1>1 DEF RequestStates
  <2> QED BY <1>6, <2>1, OperatorStep DEF Receive
<1>7. CASE Finish(o)
  <2>1. [q EXCEPT !.at = "done"] \in RequestStates
    BY <1>1 DEF RequestStates
  <2> QED BY <1>7, <2>1, OperatorStep DEF Finish
<1> QED BY <1>2, <1>3, <1>4, <1>5, <1>6, <1>7 DEF RequestStep

LEMMA CommandKeeps ==
  ASSUME CInv, NEW c \in Commands, CommandStep(c)
  PROVE  CInv'
<1>1. CASE Fail(c)
  BY <1>1, RollStep DEF Fail
<1> QED BY <1>1, FindStep, CheckStep, CommitKeeps DEF CommandStep

-----------------------------------------------------------------------------
(* The theorems *)

LEMMA CInit ==
  ASSUME Init
  PROVE  CInv
<1>1. NoCommand \in CommandStates /\ NoCommand.at = "new" /\ NoCommand.op = "none"
  BY DEF NoCommand, Command, CommandStates
<1>2. NoRequest \in RequestStates
  BY DEF NoRequest, RequestStates
<1>3. cmd \in [Commands -> CommandStates] /\ request \in [Operators -> RequestStates]
      /\ \A c \in Commands : cmd[c] = NoCommand
  BY <1>1, <1>2 DEF Init
<1>4. TypeOK
  <2>1. 0 \in 0 .. MaxCommands /\ controls = {} /\ lifted = {} /\ expired = {}
    BY DEF Init
  <2>2. controls \subseteq Rows /\ lifted \subseteq {r.id : r \in controls}
        /\ expired \subseteq Commands /\ \A r \in controls :
             cmd[r.id].at = "committed" /\ KindOf(cmd[r.id].op) = r.kind
    BY <2>1
  <2>3. available \in {"active", "frozen"} /\ reserved \in {"active", "frozen"}
        /\ statusAt = 0 /\ started = 0 /\ raced \in BOOLEAN
    BY DEF Init
  <2> QED BY <2>1, <2>2, <2>3, <1>3 DEF TypeOK
<1>5. ActiveFreezes = {}
  BY DEF Init, ActiveFreezes, OfKind
<1>6. Fresh /\ TargetsExist /\ ViewsHold
  BY <1>1, <1>3, <1>5 DEF Fresh, TargetsExist, ViewsHold, Reading
<1>7. NoStrandedFreeze /\ FreezeHolds
  BY <1>5 DEF Init, NoStrandedFreeze, FreezeHolds
<1> QED BY <1>4, <1>6, <1>7 DEF CInv

LEMMA CNext ==
  ASSUME CInv, [Next]_vars
  PROVE  CInv'
<1>1. CASE UNCHANGED vars
  <2>1. UNCHANGED <<controls, lifted, available, reserved, statusAt, expired, started,
                    cmd, request, raced>>
    BY <1>1 DEF vars, tables
  <2>2. ActiveFreezes' = ActiveFreezes
    BY <2>1, FreezesStay
  <2> QED BY <2>1, <2>2 DEF CInv, TypeOK, Fresh, TargetsExist, Reading, NoStrandedFreeze,
                            FreezeHolds, ViewsHold
<1>2. CASE Next
  BY <1>2, BeginDirectStep, CommandKeeps, RequestKeeps, ExpireStep DEF Next
<1> QED BY <1>1, <1>2

\* The invariant of the control commands (AccountControlService).
THEOREM CInvHolds == Spec => []CInv
BY CInit, CNext, PTL DEF Spec

\* Every control has the kind of the command that wrote it, and only controls
\* are lifted (the tables of AccountControlService).
THEOREM ControlsTyped == Spec => []TypeOK
<1>1. CInv => TypeOK
  BY DEF CInv
<1> QED BY <1>1, CInvHolds, PTL

\* Accounts that are frozen have an active freeze that can be lifted, however
\* applyFreeze and liftFreeze overtake each other.
THEOREM NobodyLockedOut == Spec => []NoStrandedFreeze
<1>1. CInv => NoStrandedFreeze
  BY DEF CInv
<1> QED BY <1>1, CInvHolds, PTL

\* Unless freeze commands overtake each other, an active freeze is the only one
\* and the accounts are frozen.
THEOREM FreezesHold == Spec => []FreezeHolds
<1>1. CInv => FreezeHolds
  BY DEF CInv
<1> QED BY <1>1, CInvHolds, PTL

-----------------------------------------------------------------------------
(* What a request to unfreeze has listed *)

\* The command that lifts it is yet to be sent, or was sent and has not committed.
OnItsWay(x, op, k) ==
  \/ [op |-> op, target |-> k] \in x.todo
  \/ /\ x.current # NoTarget
     /\ cmd[x.current].op = op /\ cmd[x.current].at # "committed"
     /\ op = "lift_restriction" /\ x.current \in InFlight => cmd[x.current].target = k

FreezeIds == {r.id : r \in {q \in controls : q.kind = "freeze"}}

RequestOK(x) ==
  /\ x.current # NoTarget => x.current <= started
  /\ x.risk["freeze"] \subseteq FreezeIds
  /\ x.ask = "unfreeze" /\ x.at = "acting" =>
       /\ \A k \in x.risk["restriction"] : k \in lifted \/ OnItsWay(x, "lift_restriction", k)
       /\ \/ raced \/ x.risk["freeze"] \subseteq lifted
          \/ OnItsWay(x, "lift_freeze", NoTarget)
  /\ x.ask = "unfreeze" /\ x.at = "done" =>
       /\ x.risk["restriction"] \subseteq lifted
       /\ raced \/ x.risk["freeze"] \subseteq lifted

UInv == \A o \in Operators : RequestOK(request[o])

\* What the step of a command may do to what requests wait for.
Advances(c) ==
  /\ cmd'[c].op = cmd[c].op
  /\ cmd'[c].at = "committed" /\ cmd[c].at # "committed" =>
       /\ cmd[c].op = "lift_restriction" => c \in InFlight /\ cmd[c].target \in lifted'
       /\ cmd[c].op = "lift_freeze" => raced' \/ FreezeIds \subseteq lifted'
  /\ cmd'[c].at \in {"begun", "found", "checked"} =>
       /\ cmd[c].at \in {"begun", "found", "checked"}
       /\ cmd[c].op = "lift_restriction" => cmd'[c].target = cmd[c].target

Onward ==
  /\ controls \subseteq controls' /\ lifted \subseteq lifted' /\ (raced => raced')
  /\ started' \in Nat /\ started <= started'
  /\ \A c \in Commands : c <= started => Advances(c)

\* A request that does nothing itself stays in order.
LEMMA RequestStays ==
  ASSUME CInv, Onward
  PROVE  \A x \in RequestStates : RequestOK(x) => RequestOK(x)'
<1> SUFFICES ASSUME NEW x \in RequestStates, RequestOK(x) PROVE RequestOK(x)'
  OBVIOUS
<1>1. /\ x.current \in Commands \cup {NoTarget} /\ started \in Nat
      /\ x.current # NoTarget => x.current \in Commands /\ x.current <= started
  BY DEF RequestStates, CInv, TypeOK, RequestOK
<1>2. x.current # NoTarget => x.current <= started'
  BY <1>1 DEF Onward
<1>3. FreezeIds \subseteq FreezeIds'
  BY DEF FreezeIds, Onward
<1>4. x.risk["freeze"] \subseteq FreezeIds /\ x.risk["freeze"] \subseteq FreezeIds'
  BY <1>3 DEF RequestOK
<1>5. ASSUME NEW k, OnItsWay(x, "lift_restriction", k)
      PROVE  k \in lifted' \/ OnItsWay(x, "lift_restriction", k)'
  <2>1. CASE [op |-> "lift_restriction", target |-> k] \in x.todo
    BY <2>1 DEF OnItsWay
  <2>2. CASE [op |-> "lift_restriction", target |-> k] \notin x.todo
    <3> DEFINE c == x.current
    <3>1. c # NoTarget /\ c \in Commands /\ Advances(c)
      BY <1>1, <1>5, <2>2 DEF OnItsWay, Onward
    <3>2. /\ cmd[c].op = "lift_restriction" /\ cmd[c].at # "committed"
          /\ c \in InFlight => cmd[c].target = k
      BY <1>5, <2>2 DEF OnItsWay
    <3>3. CASE cmd'[c].at = "committed"
      BY <3>1, <3>2, <3>3 DEF Advances
    <3>4. CASE cmd'[c].at # "committed"
      <4>1. c \in InFlight' => cmd'[c].target = k
        BY <3>1, <3>2 DEF Advances, InFlight
      <4> QED BY <3>1, <3>2, <3>4, <4>1 DEF OnItsWay, Advances
    <3> QED BY <3>3, <3>4
  <2> QED BY <2>1, <2>2
<1>6. ASSUME OnItsWay(x, "lift_freeze", NoTarget)
      PROVE  raced' \/ x.risk["freeze"] \subseteq lifted' \/ OnItsWay(x, "lift_freeze", NoTarget)'
  <2>1. CASE [op |-> "lift_freeze", target |-> NoTarget] \in x.todo
    BY <2>1 DEF OnItsWay
  <2>2. CASE [op |-> "lift_freeze", target |-> NoTarget] \notin x.todo
    <3> DEFINE c == x.current
    <3>1. c # NoTarget /\ c \in Commands /\ Advances(c)
      BY <1>1, <1>6, <2>2 DEF OnItsWay, Onward
    <3>2. cmd[c].op = "lift_freeze" /\ cmd[c].at # "committed"
      BY <1>6, <2>2 DEF OnItsWay
    <3>3. CASE cmd'[c].at = "committed"
      BY <1>4, <3>1, <3>2, <3>3 DEF Advances
    <3>4. CASE cmd'[c].at # "committed"
      BY <3>1, <3>2, <3>4 DEF OnItsWay, Advances
    <3> QED BY <3>3, <3>4
  <2> QED BY <2>1, <2>2
<1>7. lifted \subseteq lifted' /\ (raced => raced')
  BY DEF Onward
<1>8. x.ask = "unfreeze" /\ x.at = "acting" =>
        /\ \A k \in x.risk["restriction"] : k \in lifted' \/ OnItsWay(x, "lift_restriction", k)'
        /\ \/ raced' \/ x.risk["freeze"] \subseteq lifted'
           \/ OnItsWay(x, "lift_freeze", NoTarget)'
  BY <1>5, <1>6, <1>7 DEF RequestOK
<1>9. x.ask = "unfreeze" /\ x.at = "done" =>
        /\ x.risk["restriction"] \subseteq lifted'
        /\ raced' \/ x.risk["freeze"] \subseteq lifted'
  BY <1>7 DEF RequestOK
<1> QED BY <1>2, <1>4, <1>8, <1>9 DEF RequestOK

LEMMA OthersStay ==
  ASSUME CInv, UInv, Onward, NEW o \in Operators, request'[o] = request[o]
  PROVE  RequestOK(request[o])'
<1>1. PICK x \in RequestStates : x = request[o] /\ RequestOK(x)
  BY DEF CInv, TypeOK, UInv
<1>2. RequestOK(x)'
  BY <1>1, RequestStays
<1>3. request'[o] = x
  BY <1>1
<1> QED BY <1>2, <1>3 DEF RequestOK, OnItsWay

\* A command that changes only itself, and not to committed.
LEMMA QuietOnward ==
  ASSUME CInv, UNCHANGED <<controls, lifted, raced>>, started' \in Nat, started <= started',
         \A c \in Commands : c <= started =>
           \/ cmd'[c] = cmd[c]
           \/ /\ cmd'[c].op = cmd[c].op /\ cmd'[c].at # "committed" /\ c \in InFlight
              /\ cmd[c].op = "lift_restriction" /\ cmd'[c].at \in {"found", "checked"} =>
                   cmd'[c].target = cmd[c].target
              /\ cmd'[c].at # "begun"
  PROVE  Onward
BY DEF Onward, Advances, InFlight

LEMMA StepQuiet ==
  ASSUME CInv, NEW c \in InFlight, NEW x, Move(c, x), x.op = cmd[c].op,
         x.at \in {"found", "checked", "failed"},
         cmd[c].op = "lift_restriction" /\ x.at # "failed" => x.target = cmd[c].target
  PROVE  Onward
<1>1. cmd' = [cmd EXCEPT ![c] = x] /\ UNCHANGED <<controls, lifted, raced, started>>
  BY DEF Move, tables
<1>2. cmd \in [Commands -> CommandStates] /\ started \in Nat /\ c \in Commands
  BY DEF CInv, TypeOK, InFlight
<1>3. \A d \in Commands : cmd'[d] = IF d = c THEN x ELSE cmd[d]
  BY <1>1, <1>2
<1> QED BY <1>1, <1>2, <1>3, QuietOnward

LEMMA RollOnward ==
  ASSUME CInv, NEW c \in InFlight, Roll(c)
  PROVE  Onward
<1>1. Ended(c, "failed").op = cmd[c].op /\ Ended(c, "failed").at = "failed"
  BY DEF Ended, Command
<1> QED BY <1>1, StepQuiet DEF Roll

LEMMA FindOnward ==
  ASSUME CInv, NEW c \in Commands, Find(c)
  PROVE  Onward
<1> DEFINE f == [cmd[c] EXCEPT !.at = "found", !.statusAt = statusAt]
<1>1. c \in InFlight /\ cmd[c] \in CommandStates
  BY DEF Find, InFlight, CInv, TypeOK
<1>2. f.op = cmd[c].op /\ f.at = "found" /\ f.target = cmd[c].target /\ f \in CommandStates
  BY <1>1 DEF CommandStates, CInv, TypeOK
<1>3. CASE Move(c, f)
  <2> HIDE DEF f
  <2> QED BY <1>1, <1>2, <1>3, StepQuiet
<1>4. ASSUME cmd[c].op \in Lifts, NEW r \in FindTargetOf(c), Move(c, [f EXCEPT !.target = r.id])
      PROVE  Onward
  <2> DEFINE x == [f EXCEPT !.target = r.id]
  <2>1. r.id \in Commands
    BY <1>4, FoundIsControl
  <2>2. x.op = cmd[c].op /\ x.at = "found" /\ x.target = r.id
    BY <1>1, <1>2, <2>1 DEF CommandStates
  <2>3. cmd[c].op = "lift_restriction" => r.id = cmd[c].target
    BY <1>4 DEF FindTargetOf
  <2>4. Move(c, x)
    BY <1>4
  <2> HIDE DEF x
  <2> QED BY <1>1, <2>2, <2>3, <2>4, StepQuiet
<1>5. CASE Roll(c)
  BY <1>1, <1>5, RollOnward
<1> QED BY <1>3, <1>4, <1>5 DEF Find

LEMMA CheckOnward ==
  ASSUME CInv, NEW c \in Commands, Check(c)
  PROVE  Onward
<1> DEFINE x == [cmd[c] EXCEPT !.at = "checked",
                               !.changes = ChangesStatus(Snapshot(c), cmd[c].op)]
<1>1. c \in InFlight /\ cmd[c] \in CommandStates
  BY DEF Check, InFlight, CInv, TypeOK
<1>2. x.op = cmd[c].op /\ x.at = "checked" /\ x.target = cmd[c].target
  BY <1>1 DEF CommandStates
<1>3. Move(c, x) \/ Roll(c)
  BY DEF Check
<1> HIDE DEF x
<1> QED BY <1>1, <1>2, <1>3, StepQuiet, RollOnward

\* What a command was sent to lift is lifted when it commits, and of a freeze
\* all that was there, unless freeze commands overtook each other.
LEMMA CommitOnward ==
  ASSUME CInv, NEW c \in Commands, Commit(c)
  PROVE  Onward
<1>1. /\ cmd[c].at = "checked" /\ c \in InFlight
      /\ cmd' = [cmd EXCEPT ![c] = Ended(c, "committed")]
      /\ started' = started /\ (raced => raced')
  BY DEF Commit, InFlight
<1>2. cmd \in [Commands -> CommandStates] /\ started \in Nat
  BY DEF CInv, TypeOK
<1>3. \A d \in Commands : d # c => cmd'[d] = cmd[d]
  BY <1>1, <1>2
<1>4. cmd'[c].op = cmd[c].op /\ cmd'[c].at = "committed"
  BY <1>1, <1>2, EndedIsState
<1>5. controls \subseteq controls' /\ lifted \subseteq lifted'
  BY DEF Commit, Write, ApplyRestriction, LiftRestriction, ApplySuspension, LiftSuspension,
         ApplyFreeze, LiftFreeze, Insert, Lift
<1>6. cmd[c].op = "lift_restriction" => cmd[c].target \in lifted'
  BY DEF Commit, Write, ApplyRestriction, LiftRestriction, ApplySuspension, LiftSuspension,
         ApplyFreeze, LiftFreeze, Lift
<1>7. ASSUME cmd[c].op = "lift_freeze", ~raced', NEW k \in FreezeIds
      PROVE  k \in lifted'
  <2>1. lifted' = lifted \cup {cmd[c].target}
    BY <1>7 DEF Commit, Write, ApplyRestriction, LiftRestriction, ApplySuspension,
                LiftSuspension, ApplyFreeze, LiftFreeze, Lift
  <2>2. PICK r \in controls : r.kind = "freeze" /\ r.id = k
    BY <1>7 DEF FreezeIds
  <2>3. CASE r.id \in lifted
    BY <2>1, <2>2, <2>3
  <2>4. CASE r.id \notin lifted
    <3>1. r \in ActiveFreezes
      BY <2>2, <2>4 DEF ActiveFreezes, OfKind
    <3>2. r.id = cmd[c].target
      BY <1>1, <1>7, <3>1 DEF CInv, ViewsHold, Reading
    <3> QED BY <2>1, <2>2, <3>2
  <2> QED BY <2>3, <2>4
<1>8. Advances(c)
  BY <1>1, <1>4, <1>6, <1>7 DEF Advances
<1>9. \A d \in Commands : d # c => Advances(d)
  BY <1>3 DEF Advances, InFlight
<1> QED BY <1>1, <1>2, <1>5, <1>8, <1>9 DEF Onward

LEMMA BeginOnward ==
  ASSUME CInv, NEW op, NEW risk, NEW expires, NEW target, Begin(op, risk, expires, target),
         UNCHANGED <<tables, raced>>
  PROVE  Onward
<1>1. /\ cmd' = [cmd EXCEPT ![started + 1] = Command(op, risk, expires, expired, "begun", target)]
      /\ started' = started + 1 /\ UNCHANGED <<controls, lifted, raced>>
  BY DEF Begin, tables
<1>2. cmd \in [Commands -> CommandStates] /\ started \in Nat
  BY DEF CInv, TypeOK
<1>3. \A c \in Commands : c <= started => cmd'[c] = cmd[c]
  BY <1>1, <1>2
<1> QED BY <1>1, <1>2, <1>3, QuietOnward

-----------------------------------------------------------------------------
(* The steps of a request *)

\* One request moves and no command does.
LEMMA RequestMoves ==
  ASSUME CInv, UInv, NEW o \in Operators, NEW x \in RequestStates, Become(o, x), Alone,
         RequestOK(x)
  PROVE  UInv'
<1>1. UNCHANGED <<controls, lifted, started, cmd, raced>>
  BY DEF Alone, tables
<1>2. \A p \in Operators : request'[p] = IF p = o THEN x ELSE request[p]
  BY DEF Become, CInv, TypeOK
<1>3. \A p \in Operators : RequestOK(request'[p])
  BY <1>2 DEF UInv
<1>4. InFlight' = InFlight /\ FreezeIds' = FreezeIds
  BY <1>1 DEF InFlight, FreezeIds
<1> QED BY <1>1, <1>3, <1>4 DEF UInv, RequestOK, OnItsWay

LEMMA ListKeepsOrder ==
  ASSUME CInv, UInv, NEW o \in Operators, NEW kind \in Listed, List(o, kind)
  PROVE  UInv'
<1> DEFINE q == request[o]
           ids == {r.id : r \in {p \in OfKind(kind) : p.risk}}
           x == [q EXCEPT !.risk[kind] = ids, !.unread = @ \ {kind}]
<1>1. q \in RequestStates /\ RequestOK(q) /\ q.at = "listing"
  BY DEF CInv, TypeOK, UInv, List
<1>2. ids \in SUBSET Commands
  BY DEF OfKind, CInv, TypeOK, Rows
<1>3. kind = "freeze" => ids \subseteq FreezeIds
  BY DEF OfKind, FreezeIds
<1>4. Become(o, x) /\ Alone
  BY DEF List
<1> HIDE DEF ids
<1>5. /\ x \in RequestStates /\ x.at = "listing" /\ x.current = q.current
      /\ x.risk["freeze"] \in {ids, q.risk["freeze"]}
      /\ kind # "freeze" => x.risk["freeze"] = q.risk["freeze"]
  BY <1>1, <1>2 DEF RequestStates, Listed
<1>6. RequestOK(x)
  <2> HIDE DEF x
  <2> QED BY <1>1, <1>3, <1>5 DEF RequestOK
<1> HIDE DEF x
<1> QED BY <1>4, <1>5, <1>6, RequestMoves

LEMMA PlanKeepsOrder ==
  ASSUME CInv, UInv, NEW o \in Operators, Plan(o)
  PROVE  UInv'
<1> DEFINE q == request[o]
           x == [q EXCEPT !.at = "acting", !.todo = Todo(q)]
<1>1. q \in RequestStates /\ RequestOK(q)
  BY DEF CInv, TypeOK, UInv
<1>2. Todo(q) \in SUBSET Steps
  BY DEF Todo
<1>3. /\ x \in RequestStates /\ x.at = "acting" /\ x.current = q.current /\ x.ask = q.ask
      /\ x.risk = q.risk /\ x.todo = Todo(q)
  BY <1>1, <1>2 DEF RequestStates
<1>4. ASSUME q.ask = "unfreeze", NEW k \in q.risk["restriction"]
      PROVE  [op |-> "lift_restriction", target |-> k] \in Todo(q)
  <2>1. k \in Commands
    BY <1>1, <1>4 DEF RequestStates, Listed
  <2>2. [op |-> "lift_restriction", target |-> k] \in Steps
    BY <2>1 DEF Steps, Ops, Lifts
  <2> QED BY <1>4, <2>2 DEF Todo
<1>5. ASSUME q.ask = "unfreeze", q.risk["freeze"] # {}
      PROVE  [op |-> "lift_freeze", target |-> NoTarget] \in Todo(q)
  <2>1. [op |-> "lift_freeze", target |-> NoTarget] \in Steps
    BY DEF Steps, Ops, Lifts
  <2> QED BY <1>5, <2>1 DEF Todo
<1>6. Become(o, x) /\ Alone
  BY DEF Plan
<1>7. RequestOK(x)
  <2> HIDE DEF x
  <2>1. x.ask = "unfreeze" => \A k \in x.risk["restriction"] : OnItsWay(x, "lift_restriction", k)
    BY <1>3, <1>4 DEF OnItsWay
  <2>2. x.ask = "unfreeze" /\ x.risk["freeze"] # {} => OnItsWay(x, "lift_freeze", NoTarget)
    BY <1>3, <1>5 DEF OnItsWay
  <2> QED BY <1>1, <1>3, <2>1, <2>2 DEF RequestOK
<1> HIDE DEF x
<1> QED BY <1>3, <1>6, <1>7, RequestMoves

LEMMA ReceiveKeepsOrder ==
  ASSUME CInv, UInv, NEW o \in Operators, Receive(o) \/ Finish(o)
  PROVE  UInv'
<1> DEFINE q == request[o]
<1>1. q \in RequestStates /\ RequestOK(q) /\ q.at = "acting"
  BY DEF CInv, TypeOK, UInv, Receive, Finish
<1>2. \/ /\ Become(o, [q EXCEPT !.current = NoTarget]) /\ Alone
         /\ cmd[q.current].at = "committed"
      \/ Become(o, [q EXCEPT !.current = NoTarget, !.at = "failed"]) /\ Alone
      \/ /\ Become(o, [q EXCEPT !.at = "done"]) /\ Alone
         /\ q.current = NoTarget /\ q.todo = {}
  BY DEF Receive, Finish
<1>3. CASE /\ Become(o, [q EXCEPT !.current = NoTarget]) /\ Alone
           /\ cmd[q.current].at = "committed"
  <2> DEFINE x == [q EXCEPT !.current = NoTarget]
  <2>1. /\ x \in RequestStates /\ x.ask = q.ask /\ x.risk = q.risk /\ x.todo = q.todo
        /\ x.at = "acting" /\ x.current = NoTarget
    BY <1>1 DEF RequestStates
  <2>2. Become(o, x) /\ Alone
    BY <1>3
  <2> HIDE DEF x
  <2>3. \A op, k : OnItsWay(q, op, k) => OnItsWay(x, op, k)
    BY <1>3, <2>1 DEF OnItsWay
  <2>4. RequestOK(x)
    BY <1>1, <2>1, <2>3 DEF RequestOK
  <2> QED BY <2>1, <2>2, <2>4, RequestMoves
<1>4. CASE Become(o, [q EXCEPT !.current = NoTarget, !.at = "failed"]) /\ Alone
  <2> DEFINE x == [q EXCEPT !.current = NoTarget, !.at = "failed"]
  <2>1. x \in RequestStates /\ x.risk = q.risk /\ x.at = "failed" /\ x.current = NoTarget
    BY <1>1 DEF RequestStates
  <2>2. Become(o, x) /\ Alone
    BY <1>4
  <2> HIDE DEF x
  <2>3. RequestOK(x)
    BY <1>1, <2>1 DEF RequestOK
  <2> QED BY <2>1, <2>2, <2>3, RequestMoves
<1>5. CASE /\ Become(o, [q EXCEPT !.at = "done"]) /\ Alone
           /\ q.current = NoTarget /\ q.todo = {}
  <2> DEFINE x == [q EXCEPT !.at = "done"]
  <2>1. /\ x \in RequestStates /\ x.ask = q.ask /\ x.risk = q.risk
        /\ x.at = "done" /\ x.current = NoTarget
    BY <1>1, <1>5 DEF RequestStates
  <2>2. Become(o, x) /\ Alone
    BY <1>5
  <2> HIDE DEF x
  <2>3. \A op, k : ~OnItsWay(q, op, k)
    BY <1>5 DEF OnItsWay
  <2>4. RequestOK(x)
    BY <1>1, <2>1, <2>3 DEF RequestOK
  <2> QED BY <2>1, <2>2, <2>4, RequestMoves
<1> QED BY <1>2, <1>3, <1>4, <1>5

LEMMA SendKeepsOrder ==
  ASSUME CInv, UInv, NEW o \in Operators, Send(o)
  PROVE  UInv'
<1> DEFINE n == started + 1
<1>1. PICK q \in RequestStates : q = request[o] /\ RequestOK(q)
  BY DEF CInv, TypeOK, UInv
<1>2. q.at = "acting" /\ q.current = NoTarget
  BY <1>1 DEF Send
<1>3. PICK s \in q.todo :
        /\ Begin(s.op, TRUE, FALSE, s.target)
        /\ Become(o, [q EXCEPT !.todo = @ \ {s}, !.current = n])
  BY <1>1 DEF Send
<1>4. UNCHANGED <<tables, expired, raced>>
  BY DEF Send
<1>5. Onward
  BY <1>3, <1>4, BeginOnward
<1>6. \A p \in Operators : p # o => request'[p] = request[p]
  BY <1>3 DEF Become, CInv, TypeOK
<1>7. PICK m \in Commands : m = started + 1 /\ m # NoTarget
  BY <1>3 DEF Begin, CInv, TypeOK
<1> DEFINE x == [q EXCEPT !.todo = @ \ {s}, !.current = m]
<1>8. s \in Steps /\ q.todo \in SUBSET Steps
  BY <1>3 DEF RequestStates
<1>9. /\ x.at = "acting" /\ x.current = m /\ x.ask = q.ask /\ x.risk = q.risk
      /\ x.todo = q.todo \ {s}
  BY <1>1, <1>2, <1>7, <1>8 DEF RequestStates
<1>10. cmd'[m].op = s.op /\ cmd'[m].at = "begun" /\ cmd'[m].target = s.target /\ started' = m
  BY <1>3, <1>7 DEF Begin, CInv, TypeOK, Command
<1>11. request'[o] = x
  BY <1>3, <1>7 DEF Become, CInv, TypeOK
<1> HIDE DEF x
<1>12. ASSUME NEW op, NEW k, OnItsWay(q, op, k)
       PROVE  OnItsWay(x, op, k)'
  <2>1. [op |-> op, target |-> k] \in q.todo
    BY <1>2, <1>12 DEF OnItsWay
  <2>2. CASE [op |-> op, target |-> k] = s
    <3>1. s.op = op /\ s.target = k
      BY <2>2
    <3> QED BY <1>7, <1>9, <1>10, <3>1 DEF OnItsWay
  <2>3. CASE [op |-> op, target |-> k] # s
    BY <1>9, <2>1, <2>3 DEF OnItsWay
  <2> QED BY <2>2, <2>3
<1>13. RequestOK(x)'
  <2>1. m <= started' /\ FreezeIds' = FreezeIds /\ lifted' = lifted /\ raced' = raced
    BY <1>4, <1>7, <1>10 DEF FreezeIds, tables, CInv, TypeOK
  <2> QED BY <1>1, <1>2, <1>9, <1>12, <2>1 DEF RequestOK
<1>14. RequestOK(request[o])'
  BY <1>11, <1>13 DEF RequestOK, OnItsWay
<1>15. \A p \in Operators : p # o => RequestOK(request[p])'
  BY <1>5, <1>6, OthersStay
<1> QED BY <1>14, <1>15 DEF UInv

LEMMA AskKeepsOrder ==
  ASSUME CInv, UInv, NEW o \in Operators, NEW ask \in RiskRequests, Ask(o, ask)
  PROVE  UInv'
<1> DEFINE x == [NoRequest EXCEPT !.ask = ask, !.at = "listing", !.unread = Listed]
<1>1. x \in RequestStates
  BY DEF NoRequest, RequestStates
<1>2. RequestOK(x)
  BY DEF RequestOK, NoRequest, Listed
<1>3. Become(o, x) /\ Alone
  BY DEF Ask
<1> HIDE DEF x
<1> QED BY <1>1, <1>2, <1>3, RequestMoves

LEMMA OnwardKeepsOrder ==
  ASSUME CInv, UInv, Onward, UNCHANGED request
  PROVE  UInv'
<1>1. ASSUME NEW o \in Operators
      PROVE  RequestOK(request[o])'
  BY OthersStay
<1> QED BY <1>1 DEF UInv

\* When a request to unfreeze a player is answered, the restrictions it had listed
\* are lifted, and unless freeze commands overtook each other so are the freezes
\* (unfreezePlayerAccount sends its commands one by one, the freeze last).
THEOREM UnfreezesClear == Spec => []UnfreezeClears
<1>1. Init => UInv
  BY DEF Init, UInv, RequestOK, NoRequest, Listed
<1>2. CInv /\ UInv /\ [Next]_vars => UInv'
  <2> SUFFICES ASSUME CInv, UInv, [Next]_vars PROVE UInv'
    OBVIOUS
  <2>1. CASE UNCHANGED vars
    <3>1. UNCHANGED <<controls, lifted, started, cmd, raced, request>>
      BY <2>1 DEF vars, tables
    <3> QED BY <3>1 DEF UInv, RequestOK, OnItsWay, FreezeIds, InFlight
  <2>2. ASSUME NEW op \in Ops, NEW expires \in BOOLEAN, BeginDirect(op, expires)
        PROVE  UInv'
    <3>1. PICK target : Begin(op, FALSE, expires, target)
      BY <2>2 DEF BeginDirect
    <3>2. UNCHANGED <<tables, request, raced>>
      BY <2>2 DEF BeginDirect
    <3> QED BY <3>1, <3>2, BeginOnward, OnwardKeepsOrder
  <2>3. ASSUME NEW c \in Commands, CommandStep(c)
        PROVE  UInv'
    <3>1. UNCHANGED request
      BY <2>3 DEF CommandStep, Find, Check, Commit, Fail, Roll, Move
    <3>2. Onward
      BY <2>3, FindOnward, CheckOnward, CommitOnward, RollOnward DEF CommandStep, Fail
    <3> QED BY <3>1, <3>2, OnwardKeepsOrder
  <2>4. ASSUME NEW o \in Operators, RequestStep(o)
        PROVE  UInv'
    BY <2>4, AskKeepsOrder, ListKeepsOrder, PlanKeepsOrder, SendKeepsOrder, ReceiveKeepsOrder
       DEF RequestStep
  <2>5. ASSUME NEW r \in controls, Expire(r)
        PROVE  UInv'
    <3>1. UNCHANGED <<controls, lifted, started, cmd, raced, request>>
      BY <2>5 DEF Expire, tables
    <3> QED BY <3>1 DEF UInv, RequestOK, OnItsWay, FreezeIds, InFlight
  <2> QED BY <2>1, <2>2, <2>3, <2>4, <2>5 DEF Next
<1>3. UInv => UnfreezeClears
  BY DEF UInv, RequestOK, UnfreezeClears
<1> QED BY <1>1, <1>2, <1>3, CInvHolds, PTL DEF Spec
=============================================================================
