SPECIFICATION ReceiveSpec
CONSTANTS
  Values <- MCValues
  Default <- MCDefault
  KernelDefault <- MCDefault
  FilterOf <- MCFilterOf
  Frames <- MCFrames
  MaxConnects = 2
  MaxArrivals = 3
INVARIANT ReceiveTypeOK
INVARIANT InForce
INVARIANT ObserverCurrent
INVARIANT NewFilterAfterOld
PROPERTY KeptAcrossConnects
PROPERTY OptionsUntouched
