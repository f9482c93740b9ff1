SPECIFICATION Spec
CONSTANTS
  mic = mic
  MicInputs = 3
  Observers = {o1, o2}
  Devices <- MCDevices
  DefaultDevice = DefaultDevice
  DeviceInputs <- MCDeviceInputs
  DeviceOutputs <- MCDeviceOutputs
  VectorSizes = {64, 128}
  SampleRates = {44100}
  ChannelCounts = {}
  Handles = {h1, h2}
  NoStream = NoStream
  BadStream = BadStream
  NoObserver = NoObserver
INVARIANTS
  ChannelsWithinBuffers
CHECK_DEADLOCK FALSE
