----------------------------- MODULE AccountRules -----------------------------
(***************************************************************************)
(* The rules of the account domain that keep no state: which status a      *)
(* player's controls add up to, what a control command makes of them, and  *)
(* which actions a status permits.                                         *)
(***************************************************************************)
EXTENDS Naturals

\* What a snapshot of a player's controls says (restrictionCount,
\* hasSuspension, hasFreeze).
Controls(restrictions, suspended, frozen) ==
  [restrictions |-> restrictions, suspended |-> suspended, frozen |-> frozen]

\* The strictest control prevails.
EffectiveStatus(c) ==
  CASE c.frozen           -> "frozen"
    [] ~c.frozen /\ c.suspended -> "suspended"
    [] ~c.frozen /\ ~c.suspended /\ c.restrictions > 0 -> "restricted"
    [] OTHER              -> "active"

Applications == {"apply_restriction", "apply_suspension", "apply_freeze"}
Lifts == {"lift_restriction", "lift_suspension", "lift_freeze"}

\* The kind of control that an operation is about.
KindOf(op) ==
  CASE op \in {"apply_restriction", "lift_restriction"} -> "restriction"
    [] op \in {"apply_suspension", "lift_suspension"}   -> "suspension"
    [] OTHER                                            -> "freeze"

TransitionAllowed_FreezeTwice(c, op) ==
  /\ op = "apply_suspension" => ~c.suspended
  /\ op = "lift_restriction" => c.restrictions > 0
  /\ op = "lift_suspension"  => c.suspended
  /\ op = "lift_freeze"      => c.frozen

\* The state machine refuses a second suspension or freeze, and the lift of
\* what the snapshot does not show; restrictions may be many.
TransitionAllowed(c, op) ==
  /\ op = "apply_suspension" => ~c.suspended
  /\ op = "apply_freeze"     => ~c.frozen
  /\ op = "lift_restriction" => c.restrictions > 0
  /\ op = "lift_suspension"  => c.suspended
  /\ op = "lift_freeze"      => c.frozen

NextControls(c, op) ==
  CASE op = "apply_restriction" -> [c EXCEPT !.restrictions = @ + 1]
    [] op = "lift_restriction"  -> [c EXCEPT !.restrictions = @ - 1]
    [] op = "apply_suspension"  -> [c EXCEPT !.suspended = TRUE]
    [] op = "lift_suspension"   -> [c EXCEPT !.suspended = FALSE]
    [] op = "apply_freeze"      -> [c EXCEPT !.frozen = TRUE]
    [] op = "lift_freeze"       -> [c EXCEPT !.frozen = FALSE]

ChangesStatus(c, op) == EffectiveStatus(NextControls(c, op)) # EffectiveStatus(c)

PlayerActions == {"bet_reserve", "withdrawal_reserve", "deposit_credit", "settlement_payout"}

\* The rows of the rule matrix for the actions that move a player's money:
\* stakes and withdrawals need an active player, credits any that is not frozen.
AccessRule(action, status) ==
  CASE status = "frozen" -> "blocked"
    [] status = "active" -> "allowed"
    [] OTHER -> IF action \in {"deposit_credit", "settlement_payout"}
                THEN "allowed" ELSE "blocked"

\* What the rule allows also needs the linked ledger account to be active.
Authorized(action, c, coreActive) ==
  AccessRule(action, EffectiveStatus(c)) = "allowed" /\ coreActive
=============================================================================
