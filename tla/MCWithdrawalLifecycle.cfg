SPECIFICATION Spec
CONSTANTS
  w1 = w1
  w2 = w2
  s1 = s1
  s2 = s2
  n1 = n1
  n2 = n2
  Withdrawals = {w1}
  Amount <- OneAmount
  Funds = 1
  ManualReview = {}
  ProviderStatuses <- AllStatuses
  Nonces = {n1, n2}
  Shapes <- CoherentShapes
  Sessions = {s1, s2}
  CanCrash = TRUE
SYMMETRY SessionNonceSymmetry
INVARIANTS
  TypeOK
  RecordsAgree
  RepeatsCountOnce
  HeldMoneyIsReported
PROPERTIES
  CallbacksRespectOutcome
CHECK_DEADLOCK FALSE
