SPECIFICATION FairSpec
CONSTANTS
  PongWait = 20
  RoundTrip = 1
  SocketCap = 5
  MaxMessages = 2
  Adversity = {}
INVARIANT AnsweringClientKept
PROPERTIES GoneClientNoticed EndsWithServer
CHECK_DEADLOCK FALSE
