SPECIFICATION Spec
CONSTANTS
  Containers = {1, 2}
  Hosts <- MCHosts
  Sessions = {s1, s2}
  None = None
  Inputs <- MCNamed
  BalanceCountNumber = 9
  LivingTime = 1
  MaxWait = 0
  MaxMsgs = 4
  MaxNow = 3
PROPERTIES BindingIsKept ExpiredArePruned
CHECK_DEADLOCK FALSE
