SPECIFICATION FairSpec
CONSTANTS Kinds = {TRUE, FALSE}  WaitMS = 1  SelectMS = 1  KeyMax = 2  AdoptsPara = FALSE
          Delays = {1, 2}  MaxTimers = 3  MaxMsgs = 1  MaxNow = 2
INVARIANTS TimerFate ParaFreedOnce TimeoutOrder
PROPERTIES CancelledNeverFires MessagesAreHandled TimersExpireOrBlock
CHECK_DEADLOCK FALSE
