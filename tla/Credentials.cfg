CONSTANTS
  Worker = {1, 2}
  Req = {r1}
  MaxExpiries = 1
  MaxLogins = 1
  MaxFaults = 1
  MaxFails = 3
SPECIFICATION FairSpec
INVARIANTS
  NewestLoginKept
  BrokerCurrent
PROPERTIES
  TokenRenewed
CHECK_DEADLOCK FALSE
