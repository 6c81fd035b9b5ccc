-------------------------- MODULE WithdrawalFunds --------------------------
(***************************************************************************)
(* What the withdrawal rails promise about a player's money: the amount of *)
(* a request is set aside once, only when it is there, and then either     *)
(* goes back to the player or is paid out, once and never both.  The       *)
(* request lifecycle with its provider and callbacks (module Withdrawals)  *)
(* implements it.                                                          *)
(***************************************************************************)
EXTENDS Integers

CONSTANTS
  Withdrawals,   \* withdrawal requests of one player
  Amount,        \* their amounts in minor units
  Funds          \* the player's available balance at the start

VARIABLES
  available,     \* balance of the player's available account
  held           \* what became of the amount of each request

fundsVars == <<available, held>>

FundsTypeOK ==
  /\ available \in Nat
  /\ held \in [Withdrawals -> {"none", "reserved", "returned", "paid"}]

Init ==
  /\ available = Funds
  /\ held = [w \in Withdrawals |-> "none"]

Reserve(w) ==
  /\ held[w] = "none"
  /\ Amount[w] <= available
  /\ available' = available - Amount[w]
  /\ held' = [held EXCEPT ![w] = "reserved"]

Return(w) ==
  /\ held[w] = "reserved"
  /\ available' = available + Amount[w]
  /\ held' = [held EXCEPT ![w] = "returned"]

PayOut(w) ==
  /\ held[w] = "reserved"
  /\ held' = [held EXCEPT ![w] = "paid"]
  /\ UNCHANGED available

Next == \E w \in Withdrawals : Reserve(w) \/ Return(w) \/ PayOut(w)

Spec == Init /\ [][Next]_fundsVars
=============================================================================
