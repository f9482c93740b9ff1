SPECIFICATION Spec
CONSTANTS
  Silence = Silence
  Foreign = Foreign
  Rates = {2, 3}
  PerMs = 6
  Times = {5}
  SampleCounts = {0, 3}
  ChannelCounts = {1, 2}
INVARIANTS
  TypeOK
  BuffersReady
  PointersApart
  HeardIsDelayed
  TapsInBuffer
PROPERTIES
  ImplementsDelayLine
