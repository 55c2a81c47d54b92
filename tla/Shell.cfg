\* Two clients, up to five commands to quit; Accept and Close may fail; the shell may
\* be down, or the stream be read to its end (no deadlock check).
SPECIFICATION MCSpec
CONSTANTS
  c1 = c1
  c2 = c2
  Clients = {c1, c2}
  None = none
  WriteChCap = 1
  SocketCap = 1
  Script <- MCScript
  Adversity = {"accept fails", "close fails"}
  Radix = 3
  Texts <- MCTexts
  MaxMessages = 3
  BufSize = 4
  InFlight = 12
INVARIANTS CloseWaits FirstWrongIsTorn
PROPERTIES ImplementsService CommandStops
CHECK_DEADLOCK FALSE
