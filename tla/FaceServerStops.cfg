\* Two clients that wait for their answers, an operator who stops the server when
\* nobody waits; booting, listening and closing the listener may fail.
SPECIFICATION FairSpec
CONSTANTS
  Conns = {c1, c2}
  Workers = {k1}
  Run = Run
  None = None
  MaxSeq = 2
  MaxReq = 1
  CIntMod = 8
  Adversity = {"bind error", "boot error", "close error"}
PROPERTIES StopsOnCommand
CHECK_DEADLOCK FALSE
