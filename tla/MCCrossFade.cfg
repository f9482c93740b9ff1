SPECIFICATION FairSpec
CONSTANTS
  numOfChannels = 1
  numRefl = 2
  Delays = {0, 2}
  Lengths = {1, 2}
  Thresholds = {1}
  Intervals = {1, 2}
  blocksize = 1
  None = None
INVARIANTS
  TypeOK
  InsideTheTable
PROPERTIES
  FadesEnd
  Settles
