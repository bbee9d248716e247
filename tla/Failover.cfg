CONSTANTS
  Conns = {k1, k2}
  None = None
  NumOwners = 2
  MaxCheckouts = 4
  MaxDeaths = 2
SPECIFICATION FairSpec
CHECK_DEADLOCK FALSE
INVARIANTS
  SessionCarriesParameters
PROPERTY
  CheckoutEndsOrSelfLock
