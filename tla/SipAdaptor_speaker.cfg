CONSTANTS
  a1 = a1  a2 = a2
  call = call  callee = callee
  me = me  me2 = me2  proxy = proxy  strict = strict  strictTcp = strictTcp  phone = phone  named = named
  Ids = {call, callee}
  Peer <- MCPeer
  Addrs = {a1, a2}  NoAddr = NoAddr
  RegTask = RegTask  DetecTask = DetecTask  TargetTask = TargetTask
  Hosts <- MCHosts  Mine = {me, me2}  NoTarget = NoTarget  Rehosted <- MCRehosted
  DNSCache <- MCDNSCache
  WireMsgs <- MCWireMsgs  AppMsgs <- MCAppMsgs
  ConfiguredReg = 1  ConfiguredCall = 1  DLG_LIVING_TIME = 2
  DbRows <- MCDbRows
  MaxAge = 3
SPECIFICATION Spec
PROPERTIES SpeakerIsRecorded
