SPECIFICATION LiveSpec
CONSTANTS
  i1 = i1
  i2 = i2
  e1 = e1
  e2 = e2
  p1 = p1
  p2 = p2
  s1 = s1
  s2 = s2
  NoIntent = NoIntent
  NoPayment = NoPayment
  Intents = {i1}
  Events = {e1, e2}
  Payments = {p1, p2}
  PaymentOf <- TwoPayments
  Named <- SameIntent
  Fits <- AllFit
  Sessions = {s1, s2}
  Webhook = {e1}
  Expiring = {}
  MayBlock = FALSE
  MayFail = FALSE
PROPERTIES
  ConfirmedIsDecided
CHECK_DEADLOCK FALSE
