SPECIFICATION Spec
CONSTANTS
  i1 = i1
  i2 = i2
  e1 = e1
  e2 = e2
  p1 = p1
  p2 = p2
  s1 = s1
  s2 = s2
  NoIntent = NoIntent
  NoPayment = NoPayment
  Intents = {i1, i2}
  Events = {e1, e2}
  Payments = {p1}
  PaymentOf <- OnePayment
  Named <- OneNamed
  Fits <- FirstFits
  Sessions = {s1, s2}
  Webhook = {}
  Expiring = {i1}
  MayBlock = TRUE
  MayFail = TRUE
SYMMETRY SessionSymmetry
INVARIANTS
  PaymentCreditedOnce
  CreditedIsPosted
  ConfirmedIsCreditedOrReported
CHECK_DEADLOCK FALSE
