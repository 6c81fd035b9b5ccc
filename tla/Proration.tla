------------------------------- MODULE Proration -------------------------------
(***************************************************************************)
(* How a pool is divided (calculatePoolProration): the house takes its     *)
(* share of the stakes, never of what was carried over, and the rest goes  *)
(* to the bets on the winner in proportion to their stakes, or is carried  *)
(* over when nobody backed the winner.  Money is in minor units; a unit    *)
(* that does not divide goes to the bet with the largest remainder, the    *)
(* smaller bet id first.  Bet ids are numbers, for their order.            *)
(***************************************************************************)
EXTENDS Sums

BasisPoints == 10000

\* Stakes and payouts are functions on sets of bets.
HouseTake(stake, bps) == (Total(stake) * bps) \div BasisPoints

NetPool(stake, carried, bps) ==
  Total(stake) - HouseTake(stake, bps) + carried

StakesOn(stake, winners) == Total([w \in winners |-> stake[w]])

\* The share of a winning bet rounded down, and what the rounding leaves.
Base(stake, winners, net, b) ==
  (net * stake[b]) \div StakesOn(stake, winners)

Remainder(stake, winners, net, b) ==
  (net * stake[b]) % StakesOn(stake, winners)

Leftover(stake, winners, net) ==
  net - Total([w \in winners |-> Base(stake, winners, net, w)])

\* deterministicRemainderOrder
Before(stake, winners, net, b, c) ==
  \/ Remainder(stake, winners, net, b) > Remainder(stake, winners, net, c)
  \/ /\ Remainder(stake, winners, net, b) = Remainder(stake, winners, net, c)
     /\ b < c

Payout_SmallestFirst(stake, winners, net, b) ==
  LET ahead == {c \in winners : Before(stake, winners, net, b, c)}
  IN IF b \notin winners THEN 0
     ELSE Base(stake, winners, net, b)
          + (IF Cardinality(ahead) < Leftover(stake, winners, net) THEN 1 ELSE 0)

Payout(stake, winners, net, b) ==
  LET ahead == {c \in winners : Before(stake, winners, net, c, b)}
  IN IF b \notin winners THEN 0
     ELSE Base(stake, winners, net, b)
          + (IF Cardinality(ahead) < Leftover(stake, winners, net) THEN 1 ELSE 0)

\* The result of a settlement: the accepted bets and their stakes, what was
\* carried into the pool, and where it all goes.
Calculation(stake, winners, carried, bps) ==
  LET net == NetPool(stake, carried, bps)
  IN [stake |-> stake, winners |-> winners, carried |-> carried, bps |-> bps,
      houseTake |-> HouseTake(stake, bps), net |-> net,
      carryover |-> IF winners = {} THEN net ELSE 0,
      payout |-> [b \in DOMAIN stake |-> Payout(stake, winners, net, b)]]

-----------------------------------------------------------------------------
(* What a division should be, said without the steps that compute it *)

\* The house takes its share of the stakes, rounded down, and no more; nothing is
\* lost or made; each winner is within one unit of its exact share; a winner that
\* was rounded up had no smaller remainder than one that was not; the bets that
\* lost get nothing.
IsFairDivision(c) ==
  LET W == StakesOn(c.stake, c.winners)
      over(b) == c.payout[b] * W - c.net * c.stake[b]
  IN /\ c.houseTake * BasisPoints \in
          Total(c.stake) * c.bps - BasisPoints + 1 .. Total(c.stake) * c.bps
     /\ Total(c.stake) + c.carried = c.houseTake + c.carryover + Total(c.payout)
     /\ \A b \in c.winners : -W < over(b) /\ over(b) < W
     /\ \A b, d \in c.winners :
          over(b) > 0 /\ over(d) < 0 =>
            \/ over(b) < W + over(d)
            \/ over(b) = W + over(d) /\ b < d
     /\ \A b \in DOMAIN c.stake \ c.winners : c.payout[b] = 0
     /\ c.carryover > 0 => c.winners = {}
=============================================================================
