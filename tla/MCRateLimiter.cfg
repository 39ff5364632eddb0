SPECIFICATION LimiterSpec
CONSTANTS
  r1 = r1
  r2 = r2
  r3 = r3
  r4 = r4
  alice = alice
  bob = bob
  NoBucket = NoBucket
  Requests <- MCRequests
  Tenants <- MCTenants
  Names <- MCNames
  Cut <- MCCut
  Header <- MCHeader
  Cap = 3
  Refill = 1
  Unit = 2
  MaxNow = 3
INVARIANTS LimiterTypeOK WindowBound Isolated
PROPERTIES SettledForever ImplementsEagerBucket
CHECK_DEADLOCK FALSE
