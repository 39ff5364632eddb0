SPECIFICATION LimiterSpec
CONSTANTS
  r1 = r1
  r2 = r2
  r3 = r3
  r4 = r4
  alice = alice
  bob = bob
  NoBucket = NoBucket
  Requests <- AliceRequests
  Tenants <- MCTenants
  Names <- MCNames
  Cut <- MCCut
  Header <- AliceHeader
  Cap = 2
  Refill = 0
  Unit = 1
  MaxNow = 1
INVARIANT TenantCapacity
CHECK_DEADLOCK FALSE
