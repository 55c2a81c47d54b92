SPECIFICATION Spec
CONSTANTS
  Workers = {w1, w2}
  Images = {i1, i2}
  None = none
  Keys = {k1, k2}
  Values = {good, other, refused}
  Good = {good, other}
  MaxConf = 3
  MaxInits = 2
  Adversity = {}
INVARIANTS InstanceTracksEngine ConfigIsTheFiles
CHECK_DEADLOCK FALSE
