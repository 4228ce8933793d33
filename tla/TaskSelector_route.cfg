SPECIFICATION FairSpec
CONSTANTS
  Containers = {1, 2}
  Hosts <- MCHosts
  Sessions = {}
  None = None
  Inputs <- MCPlain
  BalanceCountNumber = 1
  LivingTime = 1
  MaxWait = 3
  MaxMsgs = 4
  MaxNow = 0
INVARIANTS MsgHasOneOwner LoadIsEven
PROPERTIES RegisteredIsDelivered MessagesAreRouted
CHECK_DEADLOCK FALSE
