------------------------------ MODULE MCLedger ------------------------------
(***************************************************************************)
(* A small instance of Ledger: a player's available account (1) and locked *)
(* account (2), the clearing account of the deposits (3).                  *)
(***************************************************************************)
EXTENDS Ledger, TLC

Deposit(key, amount) ==
  [op |-> "post_transaction", key |-> key, type |-> "deposit_confirmed_credit",
   debits |-> (1 :> 0) @@ (2 :> 0) @@ (3 :> amount),
   credits |-> (1 :> amount) @@ (2 :> 0) @@ (3 :> 0),
   related |-> None, override |-> FALSE]

Reserve(key, amount) ==
  [op |-> "reserve_funds", key |-> key, type |-> "bet_reserve",
   source |-> 1, reserve |-> 2, amount |-> amount]

ReserveWithdrawal(key, amount) ==
  [Reserve(key, amount) EXCEPT !.type = "withdrawal_reserve"]

Release(key, r) == [op |-> "release_reserved_funds", key |-> key, reservation |-> r]

Capture(key, r) ==
  [op |-> "capture_reserved_funds", key |-> key, reservation |-> r, destination |-> 3]

\* A release posted directly through POST /ledger/transactions.
DirectRelease(key, r) ==
  [op |-> "post_transaction", key |-> key, type |-> "bet_release",
   debits |-> (1 :> 0) @@ (2 :> 1) @@ (3 :> 0),
   credits |-> (1 :> 1) @@ (2 :> 0) @@ (3 :> 0),
   related |-> r, override |-> FALSE]

\* The same, but of money that is not the reservation's.
OtherRelease(key, r) == [Deposit(key, 1) EXCEPT !.type = "bet_release", !.related = r]

\* Entries that do not balance, and an adjustment without the override.
Unbalanced(key) == [Deposit(key, 2) EXCEPT !.debits[3] = 1]
Adjustment(key) == [Deposit(key, 2) EXCEPT !.type = "manual_adjustment"]

Freeze == [op |-> "freeze", account |-> 1]
Unfreeze == [op |-> "unfreeze", account |-> 1]

\* Deposits, one key with two payloads, overdrawing reservations, competing
\* resolutions of the second row, a freeze and postings that are refused.
CommandRequests ==
  {Deposit("k1", 2), Adjustment("k1"), Unbalanced("k2"),
   Reserve("k1", 1), ReserveWithdrawal("k2", 2),
   Release("k1", 2), Capture("k1", 2), DirectRelease("k2", 2),
   OtherRelease("k1", 2), Freeze, Unfreeze}
=============================================================================
