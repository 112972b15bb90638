SPECIFICATION Spec
CONSTANTS
  PageSize = 2
  SectionAlignment = 4
  WordSize = 8
  RegionSize = 32
  Space = 96
  None = none
  Error = error
  Images <- MCImages
  Bases <- MCBases
  Names = {"WintunOpenAdapter"}
  Ordinals = {0, 1, 2, 3}
INVARIANTS
  TypeOK
  NothingLeaked
  Accounted
  AddressRecovered
  RightsKept
  Relocated
PROPERTY
  LoadReturns
