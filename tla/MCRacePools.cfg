SPECIFICATION Spec
CONSTANTS
  Races = {1, 2}
  Users = {"u", "v"}
  Selections = {"x", "y"}
  Bets = {1, 2, 3}
  Registrations <- TwoRaces
  Offers <- FourBets
  Refusable <- OneRefusable
  TakenApart = {2}
  Reviewed = {2}
  Released = {1}
  HouseTakes = {5000, 10000}
  Funds <- TwoPurses
  Sessions = {s1, s2}
  NoBet = NoBet
  NoSession = NoSession
SYMMETRY SessionSymmetry
INVARIANTS
  TypeOK
  MoneyAccounted
  SettledCompletely
  FairSettlement
  StuckMoneyIsReported
PROPERTIES
  CarriedOnce
  ClosedPoolTakesNoBets
