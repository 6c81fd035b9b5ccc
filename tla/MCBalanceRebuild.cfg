SPECIFICATION LiveSpec
CONSTANTS
  s1 = s1
  s2 = s2
  Accounts = {1, 2, 3}
  Postings <- ThreePostings
  Sessions = {s1, s2}
  MaxPosted = 2
  MaxRebuilds = 2
  MaxDrifts = 1
INVARIANTS
  BalancesMatchEntries
PROPERTIES
  AllFinish
CHECK_DEADLOCK FALSE
