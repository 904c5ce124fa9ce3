-------------------------- MODULE MCSmartSinkSamples --------------------------
(***************************************************************************)
(* Instances of SmartSinkSamples, and of CamPTZCodec with it, for TLC: the *)
(* default offset and the extreme ones, angles next to the wraps and to    *)
(* the limits of a byte, a motor on either side of north.                  *)
(***************************************************************************)
EXTENDS SmartSinkSamples, TLC

SomeAziOffsets == {-359999, -9000, 0, 359999}
SomeEleOffsets == {-89999, 0, 1000}
SomeAzimuths   == {0, 4, 1280, 8996, 327675, 359995, 360000}
SomeElevations == {0, 2559, 89001, 90000}
SomePresets    == {130, 156}
At(a, e)       == [azi |-> a, ele |-> e]
NearNorth      == {At(100, 8960), At(35900, 8960), At(35700, 8700)}
SomePositions  == NearNorth \cup {At(0, 0), At(499, 1), At(33201, 8960)}
Zero           == {0}
FarOff         == {0, 180 * Deg}
Nothing        == {}

\* Bound: chains run with one pair of offsets, on a motor near north, and
\* beside queries only; with the other offsets there are no chains.
WithChains == aziOffset = -9000 /\ eleOffset = 1000
Commanding == job # None /\ job.cmd \notin {"GET_AZI", "GET_ELE"}
InScope ==
  IF WithChains THEN position \in NearNorth /\ presets = {} /\ ~Commanding ELSE ~sampling

Symmetric == Permutations(Chains)

\* A chain on its own has these offsets only.
NineDegrees == {-9000}
OneDegree   == {1000}
===============================================================================
