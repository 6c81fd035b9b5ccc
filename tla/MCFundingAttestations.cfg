SPECIFICATION Spec
CONSTANTS
  a1 = a1
  a2 = a2
  Callers = {d1, d2}
  Earlier = Earlier
  None = None
  Attestations = {a1, a2}
  SourceOf <- Source
  IntentOf <- Intent
  Requests = {r1, r2}
  Payloads = {p1, p2}
INVARIANTS
  TypeOK
  OnePlayerAccount
  DecidedOnce
  AnswersStand
PROPERTY LateStaysLate
SYMMETRY Alike
CHECK_DEADLOCK FALSE
