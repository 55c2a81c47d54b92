\* Two connections, two library threads, two requests; the server may be stopped,
\* and the clients may leave, in the middle of anything.
SPECIFICATION Spec
CONSTANTS
  Conns = {c1, c2}
  Workers = {k1, k2}
  Run = Run
  None = None
  MaxSeq = 2
  MaxReq = 2
  CIntMod = 8
  Adversity = {"abrupt leave", "abrupt stop", "stop at boot", "early close",
               "boot error", "bind error", "empty image"}
INVARIANTS RightConnection NoReaderStranded
PROPERTIES ImplementsService
SYMMETRY Symmetry
CHECK_DEADLOCK FALSE
