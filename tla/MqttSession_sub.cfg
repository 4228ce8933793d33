CONSTANTS
  pub = pub  sub = sub  t = t
  Clients = {pub, sub}
  Topics = {t}
  Requests <- MCRequests
  MaxAsk <- MCMaxAsk
  MaxResend <- MCMaxResend
  MaxIdle <- MCMaxIdle
  MaxSplit = 1
  NullMsg = NullMsg
SPECIFICATION Spec
INVARIANTS OneAnswerOwed SessionAgreement PublishedOnceInOrder WaitingIsTimed
CHECK_DEADLOCK FALSE
