\* One client with three requests in flight, two library threads.
SPECIFICATION FairSpec
CONSTANTS
  Conns = {c1}
  Workers = {k1, k2}
  Run = Run
  None = None
  MaxSeq = 1
  MaxReq = 3
  CIntMod = 8
  Adversity = {"bind error", "boot error"}
PROPERTIES EveryRequestDelivered
CHECK_DEADLOCK FALSE
