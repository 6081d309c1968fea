SPECIFICATION CallSpec
CONSTANTS
  NumIntArgRegs = 2
  NumFpArgRegs = 2
  MaxArgs = 4
  MaxMixed = 8
  ArgLists <- MCArgLists
  Bands <- MCBands
  Calls <- MCCalls
  Top <- MCTop
INVARIANTS
  LocationsSound
  ArgumentsDelivered
  CallerStateRestored
PROPERTY
  CallerFrameUntouched
