SPECIFICATION Spec
CONSTANTS
  Containers = {1, 2}
  Hosts <- MCHosts
  Sessions = {s1}
  None = None
  Inputs <- MCDialogs
  BalanceCountNumber = 9
  LivingTime = 1
  MaxWait = 0
  MaxMsgs = 2
  MaxNow = 1
PROPERTIES SessionAffinity
CHECK_DEADLOCK FALSE
