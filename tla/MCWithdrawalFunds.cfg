SPECIFICATION LiveSpec
CONSTANTS
  w1 = w1
  w2 = w2
  s1 = s1
  s2 = s2
  n1 = n1
  n2 = n2
  Withdrawals = {w1, w2}
  Amount <- TwoAmounts
  Funds = 2
  ManualReview = {w2}
  ProviderStatuses <- FinalStatuses
  Nonces = {n1, n2}
  Shapes <- CrossedShapes
  Sessions = {s1, s2}
  CanCrash = TRUE
PROPERTIES
  FundsSpec
  CallbacksFinish
CHECK_DEADLOCK FALSE
