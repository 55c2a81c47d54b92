\* Two connections, a thread that calls send and may do so twice; every adversity.
SPECIFICATION MCSpec
CONSTANTS
  Conns = {c1, c2}
  Threads = {t1}
  Responses = {r1}
  None = None
  MaxSeq = 2
  MaxReq = 1
  MaxOut = 2
  Adversity = {"overlapping upgrades", "late upgrade", "early close", "bind error", "close error", "unencodable"}
INVARIANTS TypeOK SendTargetStaysOpen ReaderEndsFirst
PROPERTIES WaitSeesEveryConn
SYMMETRY Symmetry
CHECK_DEADLOCK FALSE
