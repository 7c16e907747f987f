\* Two rotations, three authenticator failures, shutdown at any time.
SPECIFICATION FairSpec
CONSTANTS
  MaxRotations = 2
  MaxFails = 3
  MaxCounted = 2
INVARIANT TypeOK
PROPERTIES OnlyImproves CatchesUp RefresherStops
