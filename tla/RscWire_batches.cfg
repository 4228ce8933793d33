CONSTANTS
  a = a  b = b  t1 = t1  t2 = t2
  Nodes = {a, b}
  Msgs <- MCMsgs
  BindList <- MCBindList
  NoLink = NoLink  NoNet = NoNet  NoDest = NoDest  NoMsg = NoMsg
  FifoBatch = 1  RecvBatch = 1  MaxFaults = 1
SPECIFICATION Spec
INVARIANTS InOrderOverOneBind AtMostOnce
PROPERTIES ArrivesUnlessLost
