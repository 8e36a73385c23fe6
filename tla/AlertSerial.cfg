SPECIFICATION Spec
CONSTANTS
  Scans = {scan}
  NoScan = NoScan
  Serial = TRUE
  Symbols <- MCSymbols
  Candidates <- MCCandidates
  MAX_DELIVERY_ATTEMPTS = 2
  HttpRetries = 1
  MaxSignals = 2
  MaxClock = 2
  MaxFaults = 1
  ScanLimit = 1
  Day = 2
  QuietStart = 1
  QuietEnd = 0
  Cooldown = 2
  EscalationJump = 10
INVARIANTS
  TypeOK
  OneFatePerSignal
  DuplicatesHaveACause
  CooldownKept
PROPERTIES
  SendsAreDue
  ImplementsLifecycle
