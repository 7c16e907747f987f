----------------------------- MODULE MCProvider -----------------------------
(***************************************************************************)
(* Instances of Provider for TLC: one key of each kind of image.           *)
(***************************************************************************)
EXTENDS Provider

MCDigests == {"d1", "d2", "d3", "d4"}

\* d1 carries a bundle the second root accepts, one no root accepts and one
\* whose statement is about another image; d2 is unsigned (its referrer is no
\* bundle); d3 carries a bundle that cannot be decoded; d4 one without layers.
MCReferrers == {"good", "forged", "moved", "sbom", "bad", "empty"}
MCSubject ==
  [r \in MCReferrers |-> CASE r = "sbom" -> "d2" [] r = "bad" -> "d3"
                           [] r = "empty" -> "d4" [] OTHER -> "d1"]
MCContent ==
  [r \in MCReferrers |-> CASE r = "sbom" -> "foreign" [] r = "bad" -> "malformed"
                           [] r = "empty" -> "nolayers" [] OTHER -> "bundle"]
MCAttests == [r \in MCReferrers |-> IF r = "moved" THEN "d2" ELSE MCSubject[r]]
MCRoots == {"pgi", "gh"}
MCTrusts == [root \in MCRoots |-> IF root = "gh" THEN {"good", "moved"} ELSE {}]

MCKeys == {"signed", "unsigned", "undecodable", "layerless", "unparsable"}
MCResolves ==
  [k \in MCKeys |-> CASE k = "signed" -> "d1" [] k = "unsigned" -> "d2"
                      [] k = "undecodable" -> "d3" [] k = "layerless" -> "d4"
                      [] OTHER -> "none"]

MCFetchFailures ==
  {Failure("timeout", "descriptor", 0, 2,
           <<[reason |-> "timeout", step |-> "descriptor"],
             [reason |-> "timeout", step |-> "descriptor"]>>),
   Failure("not_found", "referrers", 404, 1, <<[reason |-> "not_found", step |-> "referrers"]>>)}

MCRequests ==
  {<<>>, <<"signed", "unsigned", "signed">>, <<"unparsable", "undecodable", "signed">>,
   <<"unsigned", "layerless">>}
=============================================================================
