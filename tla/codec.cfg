\* Both kinds of char, every combination of the offsets; two chains, so that
\* the second takes the flag back from the first.
SPECIFICATION SamplesSpec
CONSTANTS
  AziOffsets <- SomeAziOffsets
  EleOffsets <- SomeEleOffsets
  Azimuths <- SomeAzimuths
  Elevations <- SomeElevations
  Presets <- SomePresets
  Positions <- SomePositions
  Chains = {c1, c2}
  Garbage <- Zero
  None = None
CONSTRAINT InScope
SYMMETRY Symmetric
INVARIANTS
  TypeOK
  DeviceGoesToTarget
  AziReadBack
  SamplesTypeOK
  VerdictRight
