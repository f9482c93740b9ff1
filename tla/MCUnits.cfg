SPECIFICATION FairSpec
CONSTANTS
  NOISE_FLOOR <- Floor
  Amplitude <- Doubling
  StageTimes <- TwoOrFour
  Sustains <- Levels
  Basement <- Lowest
  Ceiling = 0
  RampValues <- Distances
  RampTimes <- UpToThree
  RampVectors <- OneOrTwo
  RampChannels <- OneOrTwo
  Infinity = 100
  NaN = NaN
  One = 4
  maxBufferSize = 3
  maxNumChannels = 2
  Inputs = {0, 8}
  Thresholds = {2, 4}
  Postamps = {2}
  Recover = {2}
  BufferChannels <- UpToThree
  BufferLengths <- UpToThree
  SignalCounts = {0, 1, 2}
  Gains = {0, 1, 2}
  Files <- ShortAndWide
  NoFile = NoFile
  Seeks = {0, 1, 3}
  PlayerVectors <- OneOrTwo
  OutChannels <- OneOrTwo
  N = 2
  HostVectors <- OneOrTwo
  NULL = NULL
INVARIANTS
  TypeOK
  Limited
  ContentsFit
  EveryPairHasItsGain
  OwnSoundAtOutlet
  OutputsFit
PROPERTIES
  NeverTheWrongWay
  FollowsItsGate
  NeverPast
  LeftAloneArrives
  VectorFits
  LeftAloneEnds
