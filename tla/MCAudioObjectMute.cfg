SPECIFICATION Spec
CONSTANTS
  audio = audio
  control = control
  a1 = a1
  a2 = a2
  a3 = a3
  a4 = a4
  b1 = b1
  b2 = b2
  x = x
  y = y
  Threads <- MCThreads
  Inputs <- MCInputs
  Outputs <- MCOutputs
  Signals <- MCSignals
  Scratch <- MCScratch
  Routines = {r1, r2}
  Calculators = {c1}
  bypassProcess = bypassProcess
  muteProcess = muteProcess
  bypassCalculate = bypassCalculate
  defaultCalculateMethod = defaultCalculateMethod
  Uninitialized = Uninitialized
  NULL = NULL
  Nobody = Nobody
  MaxListLength = 2
INVARIANTS
  MutedIsSilent
