SPECIFICATION Spec
CONSTANTS
  PaymentIds = {p1, p2, p3}
  TelegramIds = {m1}
  Refs = {r1}
  NoRef = NoRef
  SheetDates <- Spread
  ImportDates <- Balance
  InitialUsers = {m1}
  Panels = {a1}
  MaxCorrections = 2
  MaxImports = 1
SYMMETRY Symmetry
INVARIANT TypeOK
INVARIANT EveryClaimHasOneResult
INVARIANT ProcessingCreditsOnce
INVARIANT TermMatchesLedger
INVARIANT TermReplaysLedger
PROPERTY DeletionNeverExtends
PROPERTY DeletedForever
CHECK_DEADLOCK FALSE
