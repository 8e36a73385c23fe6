CONSTANTS
  Ids = {1, 2, 3}
  Candidates <- MCCandidates
  Symbols <- MCSymbols
  Quotes <- MCQuotes
  Hour = 2
  End = 8
  InitialCapital = 300
  PositionPct = 50
  MaxPositions = 2
  HoldingHours = 2
  FeePct = 20
  SlipPct = 25
SPECIFICATION Spec
CHECK_DEADLOCK FALSE
INVARIANTS
  UsableIsLoaded
  BooksBalance
  SkipsExplained
  TradesOnTime
  DrawdownIsWorst
