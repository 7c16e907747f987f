------------------------------ MODULE MCServer ------------------------------
(***************************************************************************)
(* Instances of Server for TLC: command lines that differ from the default *)
(* one in a setting, in the trust roots or in the CA injector.             *)
(***************************************************************************)
EXTENDS Server

MCDefault ==
  [settings |-> Defaults, tufRepo |-> "", tufRoot |-> "", tufTargets |-> <<>>,
   trustDomains |-> <<>>, noPGI |-> FALSE, updateCABundle |-> FALSE,
   caBundleRefreshInterval |-> 60]

\* Around every threshold: zero, the floor and what it is the fraction of.
MCSettings ==
  {[Defaults EXCEPT ![s] = v] : s \in Setting \ {"RetryThrottled"}, v \in {-1, 0, 1, 5000}} \cup
  {[Defaults EXCEPT !["RetryThrottled"] = 1]} \cup
  {[Defaults EXCEPT !["Timeout"] = v] : v \in {249, 250, 251, 416, 417, 420}}

MCRoots ==
  {[MCDefault EXCEPT !.noPGI = n, !.trustDomains = d] :
     n \in BOOLEAN, d \in {<<"", "ghe">>, <<"dotcom", "ghe">>, <<"">>}} \cup
  {[MCDefault EXCEPT !.tufRepo = "repo", !.tufRoot = r, !.tufTargets = t] :
     r \in {"", "root.json"}, t \in {<<"">>, <<"t1", "t2">>}}

MCFlags ==
  {[MCDefault EXCEPT !.settings = s] : s \in MCSettings} \cup MCRoots \cup
  {[MCDefault EXCEPT !.updateCABundle = TRUE, !.caBundleRefreshInterval = i] : i \in {0, 60}}
=============================================================================
