SPECIFICATION LiveSpec
CONSTANTS
  Accounts = {1, 2, 3}
  UserAccounts = {1, 2}
  DebitNormal = {3}
  Keys = {"k1", "k2", "k3"}
  Requests <- CommandRequests
  Sessions = {s1, s2}
  MaxLedger = 4
  NoCommand = NoCommand
  NoRow = NoRow
INVARIANTS
  NonNegative
  EffectsOnce
  AnswersTheCommand
  BooksAgree
PROPERTIES
  SerialSpec
  NoPostingOnFrozen
  RequestsFinish
