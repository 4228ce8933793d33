SPECIFICATION FairSpec
CONSTANTS Kinds = {TRUE}  WaitMS = 2  SelectMS = 0  KeyMax = 2  AdoptsPara = FALSE
          Delays = {1}  MaxTimers = 1  MaxMsgs = 1  MaxNow = 3
PROPERTIES TimersExpire
CHECK_DEADLOCK FALSE
