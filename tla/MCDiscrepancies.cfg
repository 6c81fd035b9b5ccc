SPECIFICATION Spec
CONSTANTS
  NumKeys = 2
  Scans = {s1, s2}
  Operators = {o1}
  Nobody = Nobody
INVARIANTS
  HistoryIsTrue
  NoWaitCycle
PROPERTIES
  IssuesComeBack
