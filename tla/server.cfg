SPECIFICATION LiveSpec
CONSTANTS
  Clients = {k1, k2}
  Watched = k1
  Logins = {1, 2, 3, 4}
  NoLimiter = NoLimiter
  Rate = 1
  Burst = 2
  MaxTime = 1
  IsProd = FALSE
  MaxStarts = 2
  MaxSignals = 1
  MaxFaults = 1
INVARIANTS TypeOK StopsCleanly ReadyIsListening AdmissionsBounded
PROPERTIES RefusedAfterBurst EndsWhenAsked
