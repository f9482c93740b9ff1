SPECIFICATION Spec
CONSTANTS
  Silence = Silence
  Foreign = Foreign
  Rates = {2, 3}
  PerMs = 6
  Times = {1, 5, 6}
  SampleCounts = {0, 1, 3}
  ChannelCounts = {1}
INVARIANTS
  WritesInBuffer
