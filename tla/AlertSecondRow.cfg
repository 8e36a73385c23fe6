SPECIFICATION Spec
CONSTANTS
  Scans = {scheduled, manual}
  NoScan = NoScan
  Serial = FALSE
  Symbols <- MCSymbols
  Candidates <- MCCandidates
  MAX_DELIVERY_ATTEMPTS = 2
  HttpRetries = 0
  MaxSignals = 1
  MaxClock = 1
  MaxFaults = 0
  ScanLimit = 1
  Day = 3
  QuietStart = 2
  QuietEnd = 0
  Cooldown = 2
  EscalationJump = 10
INVARIANTS
  OneQueueRowPerSignal
