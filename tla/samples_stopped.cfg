\* A chain on its own, and a payload that may hold two angles.
SPECIFICATION SamplesSpec
CONSTANTS
  AziOffsets <- NineDegrees
  EleOffsets <- OneDegree
  Azimuths <- Nothing
  Elevations <- Nothing
  Presets <- Nothing
  Positions <- NearNorth
  Chains = {c1}
  Garbage <- FarOff
  None = None
INVARIANT
  StoppedMeansReplay
