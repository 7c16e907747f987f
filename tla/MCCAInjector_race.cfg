\* Two replicas and a rotation: reads, merges and writes in every order.
SPECIFICATION Spec
CONSTANTS
  Replicas = {r1, r2}
  Certs = {"ca1", "ca2", "ca3"}
  FirstBundles <- MCFirstBundles
  Mounts <- MCMounts
  PropagationDelay = 2
  GatekeeperLag = 1
  MaxRotations = 1
  MaxExpiries = 1
  MaxFaults = 1
  MaxStops = 1
SYMMETRY MCSymmetry
INVARIANTS TypeOK ServingTrusted GatekeeperTrusts
PROPERTIES UnexpiredRetained EveryWriteCounts UpdatesAsIfAtomic
