\* Rotations, expiries, faults and restarts come to an end.
SPECIFICATION FairSpec
CONSTANTS
  Replicas = {"r1", "r2"}
  Certs = {"ca1", "ca2"}
  FirstBundles <- MCOneCA
  Mounts <- MCRotation
  PropagationDelay = 1
  GatekeeperLag = 0
  MaxRotations = 1
  MaxExpiries = 1
  MaxFaults = 1
  MaxStops = 0
PROPERTIES InjectedInTheEnd ExpiredPruned
