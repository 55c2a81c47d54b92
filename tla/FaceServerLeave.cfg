\* A client that leaves without its answer, then a stop command.
SPECIFICATION FairSpec
CONSTANTS
  Conns = {c1}
  Workers = {k1}
  Run = Run
  None = None
  MaxSeq = 1
  MaxReq = 1
  CIntMod = 8
  Adversity = {"abrupt leave"}
PROPERTIES StopsOnCommand
CHECK_DEADLOCK FALSE
