SPECIFICATION Spec
CONSTANTS
  numOfChannels = 1
  numRefl = 2
  Delays = {0, 1, 3}
  Lengths = {1}
  Thresholds = {1}
  Intervals = {1}
  blocksize = 1
  None = None
INVARIANTS
  NoJump
