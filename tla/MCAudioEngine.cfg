SPECIFICATION MCSpec
CONSTANTS
  mic = mic
  MicInputs = 2
  Observers = {o1, o2}
  Devices <- MCDevices
  DefaultDevice = DefaultDevice
  DeviceInputs <- MCDeviceInputs
  DeviceOutputs <- MCDeviceOutputs
  VectorSizes = {64, 128}
  SampleRates = {44100, 48000}
  ChannelCounts = {2}
  Handles = {h1, h2}
  NoStream = NoStream
  BadStream = BadStream
  NoObserver = NoObserver
INVARIANTS
  TypeOK
  BuffersHoldAVector
  NoLostStream
  StreamFitsDevices
  NobodyMissesAVector
PROPERTIES
  BuffersStableInCallback
  CallsReturn
CHECK_DEADLOCK FALSE
