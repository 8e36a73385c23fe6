SPECIFICATION Spec
CONSTANTS
  Scans = {scan}
  Maintenances = {nightly}
  Nobody = Nobody
  Signals = {signal}
  Buys = {buy}
  BootstrapLimit = 3
  IncrementalLimit = 3
  MaxCandles = 5
  Day = 2
  Week = 2
  Month = 3
  MaxClock = 6
  MakeHours = {1, 2}
  MaxFaults = 1
  RunLimit = 1
INVARIANTS
  NoHoles
PROPERTIES
  MeasuredBeforePruned
  MeasuredStays
