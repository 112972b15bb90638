SPECIFICATION Spec
CONSTANTS
  PageSize = 4
  SectionAlignment = 2
  WordSize = 8
  RegionSize = 32
  Space = 96
  None = none
  Error = error
  Images <- MCUnalignedImages
  Bases <- MCBases
  Names = {"WintunOpenAdapter"}
  Ordinals = {0, 1, 2, 3}
INVARIANT RightsKept
