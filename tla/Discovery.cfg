CONSTANTS
  Addresses = {s1, s2}
  Clients = {cl1}
  Registry = Registry
  NoProc = NoProc
  Timeout = 4
  Period = 1
  UpdateTimeout = 1
  MaxDelay = 1
  MaxFailing = 1
SPECIFICATION DiscoverySpec
PROPERTIES DeadVanish LiveListed HeartbeatsRelist
