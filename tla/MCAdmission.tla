---------------------------- MODULE MCAdmission ----------------------------
(***************************************************************************)
(* Instances of Admission for TLC: pods that share images, and one image   *)
(* of each kind.                                                           *)
(***************************************************************************)
EXTENDS Admission

MCDigests == {"d1", "d2", "d3", "d4"}
MCReferrers == {"good", "forged", "bad", "empty"}
MCSubject ==
  [r \in MCReferrers |-> CASE r = "bad" -> "d3" [] r = "empty" -> "d4" [] OTHER -> "d1"]
MCContent ==
  [r \in MCReferrers |-> CASE r = "bad" -> "malformed" [] r = "empty" -> "nolayers"
                           [] OTHER -> "bundle"]
MCRoots == {"gh"}
MCTrusts == [root \in MCRoots |-> {"good"}]

MCKeys == {"signed", "unsigned", "undecodable", "unparsable", "layerless"}
MCResolves ==
  [k \in MCKeys |-> CASE k = "signed" -> "d1" [] k = "unsigned" -> "d2"
                      [] k = "undecodable" -> "d3" [] k = "layerless" -> "d4"
                      [] OTHER -> "none"]

MCFetchFailures ==
  {Failure("not_found", "referrers", 404, 1, <<[reason |-> "not_found", step |-> "referrers"]>>)}

MCPods == {"p1", "p2"}

\* One pod has an image without an answer, and one that the other needs.
MCImages ==
  [p \in MCPods |-> IF p = "p1" THEN <<"signed", "unparsable", "undecodable">>
                    ELSE <<"undecodable", "layerless">>]

\* One pod has an image whose fetch panics, the other one image twice.
MCCrashImages ==
  [p \in MCPods |-> IF p = "p1" THEN <<"signed", "layerless">>
                    ELSE <<"unsigned", "signed", "unsigned">>]

\* What may be asked: the images of a pod, less those the cache has.
MCRequests == {Among(Images[p], S) : p \in Pods, S \in SUBSET Keys}
=============================================================================
