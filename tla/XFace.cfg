\* Three requests from two connections, two library threads; run may panic; the engine
\* may be stopped and the process may end (no deadlock check).
SPECIFICATION FairSpec
CONSTANTS
  Workers = {k1, k2}
  Run = Run
  None = None
  ReqIds = {0, 1, 2}
  ConnIds = {0, 1}
  CIntMod = 8
  Adversity = {"empty image"}
INVARIANTS TypeOK AnsweredOnce AnswersOwnRequest CallbacksExclusive
PROPERTIES EveryRequestAnswered
CHECK_DEADLOCK FALSE
