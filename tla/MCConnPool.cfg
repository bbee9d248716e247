CONSTANTS
  iNumConn = 2
  iMinConn = 1
  Clients = {boot, c1, c2, c3, c4}
  Boot = boot
  Banners <- MCBanners
SPECIFICATION ServicesSpec
CHECK_DEADLOCK FALSE
INVARIANTS
  PermitGuaranteesConnection
  NoLostWakeUp
PROPERTIES
  LendingSpec
  EveryLoanEnds
