SPECIFICATION FairSpec
CONSTANTS
  r1 = r1  r2 = r2  n1 = n1  n2 = n2  long = long  e1 = e1  e2 = e2  k1 = k1  k2 = k2
  Registrations = {r1, r2}
  Deposits = {d1, d2, d3}
  Names = {n1, n2, long}
  Emails = {e1, e2}
  Keys = {k1, k2}
  LongNames = {long}
  Profiles <- Colliding
  DepositBodies <- Contending
  MaxBalance = 4
  MaxDbFaults = 1
INVARIANTS TypeOK AckedIsLogged BalanceIsLogged WalletPerUser
PROPERTIES CreditsAtomically RequestsAnswered
