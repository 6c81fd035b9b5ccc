------------------------------- MODULE RacePools -------------------------------
(***************************************************************************)
(* Betting and settlement: BettingIntakeService takes bets into the pool   *)
(* of a race, FinancialCommandService divides a frozen pool, carries over  *)
(* what nobody won and lets operators put a pool aside.                    *)
(*                                                                         *)
(* A command looks at the tables outside any transaction, and then runs a  *)
(* transaction that looks again.  Every such transaction locks the row of  *)
(* its pool first, so that it is one step here, except for the application *)
(* of carryovers, which under that lock reads the other pools without one. *)
(* "settlement_running" and "settlement_pending" exist only within the     *)
(* transaction of a settlement.                                            *)
(*                                                                         *)
(* Races are numbers in the order in which they open for betting, races    *)
(* that open at one time in the order of their ids.  The ledger is the     *)
(* balances its postings leave (module Ledger has the postings).  A        *)
(* command sent again under its idempotency key changes nothing; only what *)
(* it answers to a bettor is modelled.                                     *)
(***************************************************************************)
EXTENDS Proration

CONSTANTS
  Races, Users, Selections, Bets,
  Registrations, \* the selections the backend registers
  Offers,        \* the bets that are placed, some of them under one bet id
  Refusable,     \* those that the betting window, the account controls or the
                 \* state of an account may refuse
  HouseTakes,    \* houseTakeBps of the settlement commands
  TakenApart,    \* races with a house take by a command of its own
  Reviewed,      \* races that an operator may put under review
  Released,      \* bets whose reservation the backend may release
  Funds,         \* what each user has to begin with
  Sessions,      \* database connections
  NoBet, NoSession

Statuses == {"active", "inactive"}

BetStatuses == {"accepted", "rejected", "settled_win", "settled_loss"}
BetRows == [offer: Offers, status: BetStatuses]

ASSUME PoolsAssumption ==
  /\ Races \subseteq Nat /\ Bets \subseteq Nat
  /\ IsFiniteSet(Bets) /\ IsFiniteSet(Races)
  /\ Registrations \subseteq [race: Races, selection: Selections, status: Statuses]
  /\ Offers \subseteq [bet: Bets, user: Users, race: Races,
                       selection: Selections, stake: Nat \ {0}]
  /\ Refusable \subseteq Offers
  /\ HouseTakes \subseteq 0 .. BasisPoints
  /\ TakenApart \subseteq Races /\ Reviewed \subseteq Races /\ Released \subseteq Bets
  /\ Funds \in [Users -> Nat]
  /\ NoBet \notin BetRows
  /\ NoSession \notin Sessions

VARIABLES
  pool,       \* race_pools: the status
  selection,  \* race_pool_selections
  bet,        \* financial_bets
  stakeOf,    \* the reservation of each bet: "none", or where its stake is
  run,        \* settlement_runs: the completed run and how it divided the pool,
              \* and the number of runs under review
  carryover,  \* settlement_carryovers: one per race that nobody won
  available, locked,  \* balances of user_available and user_locked
  clearing,   \* balances of settlement_clearing
  rollover,   \* balances of race_selection_pool:carryover
  taken,      \* house takes posted by a command of their own
  rowLock,    \* the row lock of a pool that a transaction holds between steps
  session     \* what each connection is doing

tables == <<pool, selection, bet, run, carryover>>
balances == <<stakeOf, available, locked, clearing, rollover, taken>>
vars == <<tables, balances, rowLock, session>>

PoolStates == {"absent", "open", "frozen", "settled", "voided", "manual_review"}
StakeStates == {"none", "locked", "released", "captured"}
CarryoverStates == {"none", "pending", "applied"}

Idle == [op |-> "idle"]

NoDivision == Calculation([b \in {} |-> 0], {}, 0, 0)

Unlocked(r) == rowLock[r] = NoSession

AcceptedBets(r) ==
  {b \in Bets : bet[b] # NoBet /\ bet[b].offer.race = r /\ bet[b].status = "accepted"}

Stakes(S) == [b \in S |-> bet[b].offer.stake]

CarryoversOf(S) == Total([q \in S |-> carryover[q].amount])

\* getAppliedCarryoverMinor
Carried(r) ==
  CarryoversOf({q \in Races : carryover[q].status = "applied" /\ carryover[q].target = r})

Init ==
  /\ pool = [r \in Races |-> "absent"]
  /\ selection = [r \in Races |-> [x \in Selections |-> "absent"]]
  /\ bet = [b \in Bets |-> NoBet]
  /\ stakeOf = [b \in Bets |-> "none"]
  /\ run = [r \in Races |-> [completed |-> FALSE, division |-> NoDivision,
                           review |-> 0]]
  /\ carryover = [r \in Races |-> [status |-> "none", amount |-> 0, target |-> r]]
  /\ available = Funds
  /\ locked = [u \in Users |-> 0]
  /\ clearing = [r \in Races |-> 0]
  /\ rollover = [r \in Races |-> 0]
  /\ taken = [r \in Races |-> 0]
  /\ rowLock = [r \in Races |-> NoSession]
  /\ session = [s \in Sessions |-> Idle]

-----------------------------------------------------------------------------
(* The pool before the race *)

CreateRacePool(r) ==
  /\ pool[r] = "absent"
  /\ pool' = [pool EXCEPT ![r] = "open"]
  /\ UNCHANGED <<selection, bet, run, carryover, balances, rowLock, session>>

RegisterPoolSelection(g) ==
  /\ selection[g.race][g.selection] = "absent"
  /\ pool[g.race] = "open" /\ Unlocked(g.race)
  /\ selection' = [selection EXCEPT ![g.race][g.selection] = g.status]
  /\ UNCHANGED <<pool, bet, run, carryover, balances, rowLock, session>>

\* A pool that is not open is returned as it is.
FreezePool(r) ==
  /\ pool[r] = "open" /\ Unlocked(r)
  /\ pool' = [pool EXCEPT ![r] = "frozen"]
  /\ UNCHANGED <<selection, bet, run, carryover, balances, rowLock, session>>

-----------------------------------------------------------------------------
(* Placing a bet *)

\* getRuleRejection, but for the clock: see Refusable.
RulesAllow(o) ==
  /\ pool[o.race] = "open"
  /\ selection[o.race][o.selection] = "active"

\* The first look, without a transaction: the rules, then the account controls.
PlaceBet(s, o, refused) ==
  /\ session[s] = Idle
  /\ ~RulesAllow(o) => refused
  /\ refused => ~RulesAllow(o) \/ o \in Refusable
  /\ session' = [session EXCEPT ![s] = [op |-> "place", offer |-> o, refused |-> refused]]
  /\ UNCHANGED <<tables, balances, rowLock>>

Answer(s, b, accepted) ==
  session' = [session EXCEPT ![s] = [op |-> "answered", bet |-> b, accepted |-> accepted]]

\* The command was carried out before: getPlaceBetResultFromSnapshot.
ReplayBet(s) ==
  /\ session[s].op = "place"
  /\ LET o == session[s].offer
     IN /\ bet[o.bet] # NoBet /\ bet[o.bet].offer = o
        /\ Answer(s, o.bet, bet[o.bet].status = "accepted")
  /\ UNCHANGED <<tables, balances, rowLock>>

\* Another bet has the bet id: everything is rolled back.
BetAlreadyExists(s) ==
  /\ session[s].op = "place"
  /\ LET o == session[s].offer
     IN bet[o.bet] # NoBet /\ bet[o.bet].offer # o /\ (session[s].refused \/ Unlocked(o.race))
  /\ session' = [session EXCEPT ![s] = Idle]
  /\ UNCHANGED <<tables, balances, rowLock>>

\* A bet that was refused at the first look is recorded without a look at the
\* pool; one that the second look refuses, for the rules, the window, the funds
\* or the state of an account, after it.
RecordRejectedBet(s) ==
  /\ session[s].op = "place"
  /\ LET o == session[s].offer
     IN /\ bet[o.bet] = NoBet
        /\ \/ session[s].refused
           \/ /\ Unlocked(o.race)
              /\ ~RulesAllow(o) \/ available[o.user] < o.stake \/ o \in Refusable
        /\ bet' = [bet EXCEPT ![o.bet] = [offer |-> o, status |-> "rejected"]]
        /\ Answer(s, o.bet, FALSE)
  /\ UNCHANGED <<pool, selection, run, carryover, balances, rowLock>>

\* The second look, under the lock of the pool; the stake is reserved and the
\* bet accepted in one transaction.
MayAccept_FirstLook(s, o) == ~session[s].refused /\ available[o.user] >= o.stake

MayAccept_AnyFunds(s, o) == ~session[s].refused /\ Unlocked(o.race) /\ RulesAllow(o)

MayAccept(s, o) ==
  /\ ~session[s].refused
  /\ Unlocked(o.race)
  /\ RulesAllow(o)
  /\ available[o.user] >= o.stake

AcceptBet(s) ==
  /\ session[s].op = "place"
  /\ LET o == session[s].offer
     IN /\ bet[o.bet] = NoBet
        /\ MayAccept(s, o)
        /\ bet' = [bet EXCEPT ![o.bet] = [offer |-> o, status |-> "accepted"]]
        /\ stakeOf' = [stakeOf EXCEPT ![o.bet] = "locked"]
        /\ available' = [available EXCEPT ![o.user] = @ - o.stake]
        /\ locked' = [locked EXCEPT ![o.user] = @ + o.stake]
        /\ Answer(s, o.bet, TRUE)
  /\ UNCHANGED <<pool, selection, run, carryover, clearing, rollover, taken, rowLock>>

Answered(s) ==
  /\ session[s].op = "answered"
  /\ session' = [session EXCEPT ![s] = Idle]
  /\ UNCHANGED <<tables, balances, rowLock>>

\* The backend gives a stake back by the id of its reservation.
ReleaseReservation(b) ==
  /\ stakeOf[b] = "locked"
  /\ LET o == bet[b].offer
     IN /\ available' = [available EXCEPT ![o.user] = @ + o.stake]
        /\ locked' = [locked EXCEPT ![o.user] = @ - o.stake]
  /\ stakeOf' = [stakeOf EXCEPT ![b] = "released"]
  /\ UNCHANGED <<tables, clearing, rollover, taken, rowLock, session>>

-----------------------------------------------------------------------------
(* Settling a race *)

\* assertPoolAndWinnerReadyForSettlement, and no completed run for the race.
ReadyToSettle(r, winner) ==
  /\ pool[r] = "frozen"
  /\ selection[r][winner] = "active"
  /\ ~run[r].completed

\* What the tables say now of how the pool divides.
Division(r, winner, bps) ==
  LET accepted == AcceptedBets(r)
      winners == {b \in accepted : bet[b].offer.selection = winner}
  IN Calculation(Stakes(accepted), winners, Carried(r), bps)

\* Outside the transaction: the division is computed and the accounts it needs
\* are made ready.  A session for which an account is not ready goes no further.
PrepareSettlement(s, r, winner, bps) ==
  /\ session[s] = Idle
  /\ ReadyToSettle(r, winner)
  /\ session' = [session EXCEPT ![s] =
       [op |-> "settle", race |-> r, winner |-> winner,
        expected |-> Division(r, winner, bps)]]
  /\ UNCHANGED <<tables, balances, rowLock>>

\* The bets of a user that a settlement divides.
BetsIn(c, u) == {b \in DOMAIN c.stake : bet[b].offer.user = u}

\* The stakes are captured into the clearing account of the race, whose balance
\* then pays the house, the carryover account and the winners.
CaptureStakes_Released(r, c) ==
  /\ stakeOf' = [b \in Bets |-> IF b \in DOMAIN c.stake THEN "captured" ELSE stakeOf[b]]
  /\ locked' = [u \in Users |-> locked[u]
       - Total([b \in {d \in BetsIn(c, u) : stakeOf[d] = "locked"} |-> c.stake[b]])]

CaptureStakes(r, c) ==
  /\ \A b \in DOMAIN c.stake : stakeOf[b] = "locked"
  /\ stakeOf' = [b \in Bets |-> IF b \in DOMAIN c.stake THEN "captured" ELSE stakeOf[b]]
  /\ locked' = [u \in Users |-> locked[u]
       - Total([b \in BetsIn(c, u) |-> c.stake[b]])]

PayOut(r, c) ==
  /\ available' = [u \in Users |-> available[u]
       + Total([b \in BetsIn(c, u) |-> c.payout[b]])]
  /\ clearing' = [clearing EXCEPT ![r] =
       @ + Total(c.stake) - c.houseTake - c.carryover - Total(c.payout)]

CarryOver(r, c) ==
  /\ rollover' = [rollover EXCEPT ![r] = @ + c.carryover]
  /\ carryover' = IF c.carryover > 0
                  THEN [carryover EXCEPT ![r] =
                         [status |-> "pending", amount |-> c.carryover, target |-> r]]
                  ELSE carryover

MarkBetsSettled_WinnersOnly(c) ==
  bet' = [b \in Bets |-> IF b \in c.winners THEN [bet[b] EXCEPT !.status = "settled_win"]
                         ELSE bet[b]]

MarkBetsSettled(c) ==
  bet' = [b \in Bets |->
    IF b \notin DOMAIN c.stake THEN bet[b]
    ELSE [bet[b] EXCEPT !.status = IF b \in c.winners THEN "settled_win" ELSE "settled_loss"]]

\* The transaction: all of it, if the race is still ready and still divides as
\* expected and every stake can be captured.
SettleRace(s) ==
  /\ session[s].op = "settle"
  /\ LET r == session[s].race
         c == session[s].expected
     IN /\ Unlocked(r)
        /\ ReadyToSettle(r, session[s].winner)
        /\ Division(r, session[s].winner, c.bps) = c
        /\ CaptureStakes(r, c)
        /\ PayOut(r, c)
        /\ CarryOver(r, c)
        /\ MarkBetsSettled(c)
        /\ pool' = [pool EXCEPT ![r] = "settled"]
        /\ run' = [run EXCEPT ![r].completed = TRUE, ![r].division = c]
  /\ session' = [session EXCEPT ![s] = Idle]
  /\ UNCHANGED <<selection, taken, rowLock>>

\* RACE_ALREADY_SETTLED, RACE_POOL_NOT_FROZEN, SETTLEMENT_INPUTS_CHANGED, or a
\* reservation that is no longer open.
SettlementFails(s) ==
  /\ session[s].op = "settle"
  /\ LET r == session[s].race
         c == session[s].expected
     IN /\ Unlocked(r)
        /\ \/ ~ReadyToSettle(r, session[s].winner)
           \/ Division(r, session[s].winner, c.bps) # c
           \/ \E b \in DOMAIN c.stake : stakeOf[b] # "locked"
  /\ session' = [session EXCEPT ![s] = Idle]
  /\ UNCHANGED <<tables, balances, rowLock>>

\* A house take of its own (POST /commands/apply-house-take) asks nothing of
\* the pool.  Bound: one of one unit per race.
ApplyHouseTake(r) ==
  /\ taken[r] = 0
  /\ taken' = [taken EXCEPT ![r] = 1]
  /\ clearing' = [clearing EXCEPT ![r] = @ - 1]
  /\ UNCHANGED <<tables, stakeOf, available, locked, rollover, rowLock, session>>

-----------------------------------------------------------------------------
(* Carrying over *)

MayReceive(seen, r) == seen[r] \in {"open", "frozen"}

\* nextEligiblePoolAfterSource
IsNextEligible(seen, source, target) ==
  /\ source < target
  /\ MayReceive(seen, target)
  /\ \A r \in Races : source < r /\ r < target => ~MayReceive(seen, r)

\* eligibleCarryoversForTarget
Eligible(seen, target) ==
  {q \in Races : carryover[q].status = "pending" /\ IsNextEligible(seen, q, target)}

\* The look before the transaction.
PrepareApplication(s, r) ==
  /\ session[s] = Idle
  /\ MayReceive(pool, r)
  /\ Eligible(pool, r) # {}
  /\ session' = [session EXCEPT ![s] = [op |-> "apply", race |-> r]]
  /\ UNCHANGED <<tables, balances, rowLock>>

\* getRacePoolForUpdate
LockRow_ReadOnly(r, s) == UNCHANGED rowLock

LockRow(r, s) == rowLock' = [rowLock EXCEPT ![r] = s]

\* The target is locked, the other pools are read.
LockTarget(s) ==
  /\ session[s].op = "apply"
  /\ LET r == session[s].race
     IN /\ Unlocked(r)
        /\ MayReceive(pool, r)
        /\ LockRow(r, s)
        /\ session' = [session EXCEPT ![s] = [op |-> "applying", race |-> r, seen |-> pool]]
  /\ UNCHANGED <<tables, balances>>

TargetNotEligible(s) ==
  /\ session[s].op = "apply"
  /\ Unlocked(session[s].race) /\ ~MayReceive(pool, session[s].race)
  /\ session' = [session EXCEPT ![s] = Idle]
  /\ UNCHANGED <<tables, balances, rowLock>>

Unlock(s) == rowLock' = [r \in Races |-> IF rowLock[r] = s THEN NoSession ELSE rowLock[r]]

\* The pending carryovers are locked, posted and marked; there may be none left.
ApplyCarryovers(s) ==
  /\ session[s].op = "applying"
  /\ LET r == session[s].race
         found == Eligible(session[s].seen, r)
     IN /\ clearing' = [clearing EXCEPT ![r] =
             @ + CarryoversOf(found)]
        /\ rollover' = [q \in Races |->
             IF q \in found THEN rollover[q] - carryover[q].amount ELSE rollover[q]]
        /\ carryover' = [q \in Races |->
             IF q \in found
             THEN [carryover[q] EXCEPT !.status = "applied", !.target = r]
             ELSE carryover[q]]
  /\ Unlock(s)
  /\ session' = [session EXCEPT ![s] = Idle]
  /\ UNCHANGED <<pool, selection, bet, run, stakeOf, available, locked, taken>>

-----------------------------------------------------------------------------
(* Manual review *)

\* A run under review is used again, otherwise one is created.
MarkManualReview(r) ==
  /\ pool[r] \notin {"absent", "settled", "voided"} /\ Unlocked(r)
  /\ pool' = [pool EXCEPT ![r] = "manual_review"]
  /\ run' = [run EXCEPT ![r].review = IF @ = 0 THEN 1 ELSE @]
  /\ UNCHANGED <<selection, bet, carryover, balances, rowLock, session>>

\* The run under review, if any, is marked failed.
LeaveManualReview(r, status) ==
  /\ pool[r] = "manual_review" /\ Unlocked(r)
  /\ pool' = [pool EXCEPT ![r] = status]
  /\ run' = [run EXCEPT ![r].review = IF @ = 0 THEN 0 ELSE @ - 1]
  /\ UNCHANGED <<selection, bet, carryover, balances, rowLock, session>>

ResolveManualReview(r) == LeaveManualReview(r, "frozen")

VoidPool(r) == LeaveManualReview(r, "voided")

-----------------------------------------------------------------------------

\* A connection breaks, a process stops, a deadlock is broken, an account is
\* not ready: the transaction, if there is one, is rolled back.
Fail(s) ==
  /\ session[s].op \in {"place", "settle", "apply", "applying"}
  /\ session' = [session EXCEPT ![s] = Idle]
  /\ Unlock(s)
  /\ UNCHANGED <<tables, balances>>

Finish(s) ==
  \/ ReplayBet(s) \/ BetAlreadyExists(s) \/ RecordRejectedBet(s) \/ AcceptBet(s)
  \/ Answered(s)
  \/ SettleRace(s) \/ SettlementFails(s)
  \/ LockTarget(s) \/ TargetNotEligible(s) \/ ApplyCarryovers(s)

Next ==
  \/ \E r \in Races : CreateRacePool(r) \/ FreezePool(r)
  \/ \E g \in Registrations : RegisterPoolSelection(g)
  \/ \E b \in Released : ReleaseReservation(b)
  \/ \E r \in TakenApart : ApplyHouseTake(r)
  \/ \E r \in Reviewed : MarkManualReview(r)
  \/ \E r \in Races : ResolveManualReview(r) \/ VoidPool(r)
  \/ \E s \in Sessions :
       \/ \E o \in Offers, refused \in BOOLEAN : PlaceBet(s, o, refused)
       \/ \E r \in Races, x \in Selections, bps \in HouseTakes : PrepareSettlement(s, r, x, bps)
       \/ \E r \in Races : PrepareApplication(s, r)
       \/ Fail(s) \/ Finish(s)

Spec == Init /\ [][Next]_vars

-----------------------------------------------------------------------------
(* Correctness *)

Idling == {Idle}
Placing == [op: {"place"}, offer: Offers, refused: BOOLEAN]
Answering == [op: {"answered"}, bet: Bets, accepted: BOOLEAN]
Applying == [op: {"apply"}, race: Races]
Locking == [op: {"applying"}, race: Races, seen: [Races -> PoolStates]]

IsDivision(c) ==
  /\ DOMAIN c.stake \subseteq Bets /\ c.stake \in [DOMAIN c.stake -> Nat]
  /\ c.winners \subseteq DOMAIN c.stake
  /\ c.payout \in [DOMAIN c.stake -> Nat]
  /\ c.bps \in 0 .. BasisPoints
  /\ c.carried \in Nat /\ c.houseTake \in Nat /\ c.net \in Nat /\ c.carryover \in Nat

\* Every variable holds values of its kind; balances of users are never negative.
TypeOK ==
  /\ pool \in [Races -> PoolStates]
  /\ selection \in [Races -> [Selections -> Statuses \cup {"absent"}]]
  /\ bet \in [Bets -> BetRows \cup {NoBet}]
  /\ stakeOf \in [Bets -> StakeStates]
  /\ \A r \in Races : /\ run[r].review \in {0, 1}
                      /\ run[r].completed \in BOOLEAN
                      /\ IsDivision(run[r].division)
  /\ carryover \in [Races -> [status: CarryoverStates, amount: Nat, target: Races]]
  /\ available \in [Users -> Nat] /\ locked \in [Users -> Nat]
  /\ clearing \in [Races -> Int] /\ rollover \in [Races -> Nat]
  /\ taken \in [Races -> Nat]
  /\ rowLock \in [Races -> Sessions \cup {NoSession}]
  /\ \A s \in Sessions :
       \/ session[s] \in Idling \cup Placing \cup Answering \cup Applying \cup Locking
       \/ /\ session[s].op = "settle"
          /\ session[s].race \in Races /\ session[s].winner \in Selections
          /\ IsDivision(session[s].expected)

Completed(r) == run[r].completed

BetsOf(u) == {b \in Bets : bet[b] # NoBet /\ bet[b].offer.user = u}

\* What a settlement left of the stake of a bet, over what was staked.
Gain(b) == run[bet[b].offer.race].division.payout[b] - bet[b].offer.stake

\* A user's money follows its bets: what is locked are the stakes of its bets
\* that are reserved, and beside them the user has what it began with, less the
\* stakes that were captured, plus what those won.  Two settlements, an overdraft
\* by two bets at once or a stake released and captured would show here.
BalancesFollowBets ==
  \A u \in Users :
    LET reserved == {b \in BetsOf(u) : stakeOf[b] = "locked"}
        captured == {b \in BetsOf(u) : stakeOf[b] = "captured"}
    IN /\ locked[u] = Total(Stakes(reserved))
       /\ available[u] + locked[u] = Funds[u] + Total([b \in captured |-> Gain(b)])

\* The accounts of a pool follow its record: until it is settled the clearing
\* account holds what was carried into the race, once it is settled nothing, but
\* for house takes posted apart; the carryover account holds a carryover while it
\* is pending, and there is one exactly for the races that nobody won.
PoolsAccounted ==
  \A r \in Races :
    /\ clearing[r] = (IF Completed(r) THEN 0 ELSE Carried(r)) - taken[r]
    /\ rollover[r] = IF carryover[r].status = "pending" THEN carryover[r].amount ELSE 0
    /\ carryover[r].amount = run[r].division.carryover
    /\ carryover[r].status = "none" <=> carryover[r].amount = 0

\* Every account holds what the records say: those of users and those of pools.
MoneyAccounted == BalancesFollowBets /\ PoolsAccounted

\* A completed settlement leaves no bet of the race behind: the pool is settled,
\* none of its bets is accepted, and the bets that were settled are those whose
\* stakes were captured and divided, each with the result of its selection.
SettledCompletely ==
  /\ \A r \in Races :
       /\ Completed(r) <=> pool[r] = "settled"
       /\ Completed(r) => AcceptedBets(r) = {}
  /\ \A b \in Bets :
       /\ stakeOf[b] = "captured" <=>
            bet[b] # NoBet /\ bet[b].status \in {"settled_win", "settled_loss"}
       /\ stakeOf[b] = "captured" =>
            LET c == run[bet[b].offer.race].division
            IN /\ Completed(bet[b].offer.race)
               /\ b \in DOMAIN c.stake /\ c.stake[b] = bet[b].offer.stake
               /\ bet[b].status = "settled_win" <=> b \in c.winners

\* Every settlement divided its pool fairly and to the last unit.
FairSettlement ==
  \A r \in Races : Completed(r) => IsFairDivision(run[r].division)

\* A carryover is applied once, to a later race whose pool is still to be
\* settled, and stays applied to it.
CarriedOnce ==
  [][\A q \in Races :
       /\ carryover[q].status = "applied" => carryover'[q] = carryover[q]
       /\ carryover'[q].status = "applied" /\ carryover[q].status # "applied" =>
            /\ q < carryover'[q].target
            /\ pool[carryover'[q].target] \in {"open", "frozen"}
            /\ carryover[q].status = "pending"]_vars

\* The bets of a pool that is not open are decided: none is added to those that
\* are accepted, however old the look at the pool on which the bet was let in.
ClosedPoolTakesNoBets ==
  [][\A r \in Races : pool[r] # "open" => AcceptedBets(r)' \subseteq AcceptedBets(r)]_vars
=============================================================================
