SPECIFICATION FairSpec
CONSTANTS
  Scans = {scan}
  NoScan = NoScan
  Serial = TRUE
  Symbols <- MCSymbols
  Candidates <- MCCandidates
  MAX_DELIVERY_ATTEMPTS = 2
  HttpRetries = 1
  MaxSignals = 1
  MaxClock = 4
  MaxFaults = 1
  ScanLimit = 1
  Day = 3
  QuietStart = 2
  QuietEnd = 0
  Cooldown = 2
  EscalationJump = 10
PROPERTIES
  EventuallySettled
