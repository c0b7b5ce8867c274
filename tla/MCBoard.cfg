SPECIFICATION Spec
CONSTANTS
  Xtal = 5
  FracUnit = 8
  Limit = 20
  PllcFreq = 30
  PllbDiv = 24
  Freqs = {0, 9, 33}
  NumClocks = 3
  MaxSets = 2
  MaxNoLock = 1
  MaxImages = 2
  MaxUsb = 1
  MaxCommands = 2
  Chips = {64, 512}
  MaxTimeouts = 1
  OtpAddrs = {0, 1}
  OtpBits = {0, 1}
  OtpLists <- MCLists
  OtpFuses <- MCFuses
  OtpWrites <- MCWrites
  Retries = 2
  MaxOtp = 1
  MaxLate = 2
  NumPins = 6
  PinsPerReg = 3
  PinsPerBank = 4
  SerialTx = 0
  LedPin = 2
  JitterPin = 5
  SdPins <- MCSdPins
  TestPins <- MCTests
  ModeCalls <- MCModes
  WriteCalls <- MCOutputs
  MaxGpio = 1
  FifoDepth = 2
  Transfers <- MCTransfers
  Rates = {2}
  DivLimit = 100
  MaxFaults = 1
  MaxI2c = 2
INVARIANTS XferMovesAll PinsAsAsked WriteKeepsItsWord VpuOnLockedClock RamIsReady ArmStartsReady
PROPERTIES SetKeepsItsWord OnlyAsked QuietChanges
CHECK_DEADLOCK FALSE
