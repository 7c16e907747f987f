----------------------------- MODULE MCFetcher -----------------------------
(***************************************************************************)
(* Instances of Fetcher for TLC.                                           *)
(***************************************************************************)
EXTENDS Fetcher

MCDigests == {"d1", "d2"}

\* A bundle of each image, and one of each odd referrer.
MCReferrers == {"b1", "c1", "bad", "empty", "sbom"}

MCSubject ==
  [r \in MCReferrers |-> IF r = "c1" THEN "d2" ELSE "d1"]

MCContent ==
  [r \in MCReferrers |->
     CASE r = "bad"   -> "malformed"
       [] r = "empty" -> "nolayers"
       [] r = "sbom"  -> "foreign"
       [] OTHER       -> "bundle"]

Err(is, status, diags) == [is |-> is, status |-> status, diags |-> diags]

\* A connection phase timeout, a refused connection, a server error, and the
\* answers that are not retried: by status, and by diagnostic only.
MCCallErrors ==
  {Err("deadline", 0, <<>>),
   Err("other", 0, <<>>),
   Err("transport", 503, <<>>),
   Err("transport", 404, <<"MANIFEST_UNKNOWN">>),
   Err("transport", 200, <<"UNSUPPORTED", "TOOMANYREQUESTS", "DENIED">>)}

\* For the run about the registry: an error that is retried, one that is not.
MCFewErrors == {Err("other", 0, <<>>), Err("transport", 404, <<"MANIFEST_UNKNOWN">>)}

MCFewReferrers == {"b1", "b2"}
MCFewSubject == [r \in MCFewReferrers |-> "d1"]
MCFewContent == [r \in MCFewReferrers |-> "bundle"]
=============================================================================
