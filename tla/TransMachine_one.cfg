SPECIFICATION FairSpec
CONSTANTS
  Trans = {t1}
  OneWay = {}
  Answers = {a1, a2}
  Keys = {k1, k2}
  NoKey = NoKey
  NoMsg = NoMsg
  None = None
  Timeout408 = Timeout408
  LivingTime = 0
  MaxDeliver = 2
INVARIANTS AtMostOneOutcome AtMostOnceDelivery AnswerIntegrity AnswerIsOwed ResendTimersSound SilentOnlyIfDelivered
PROPERTIES ImplementsRequestReply EventuallyAnswered ResendingStops
