---------------------------- MODULE MCCAInjector ----------------------------
(***************************************************************************)
(* Instances of CAInjector for TLC: the operator installed one CA, twice   *)
(* over or as a text of its own, and ca.crt goes from the first CA to      *)
(* others.                                                                 *)
(***************************************************************************)
EXTENDS CAInjector

MCFirstBundles == {[bundle |-> <<"ca1", "ca1">>, canonical |-> TRUE],
                   [bundle |-> <<"ca1">>, canonical |-> FALSE]}
MCMounts == <<<<"ca1">>, <<"ca2", "ca3">>>>

MCOneCA == {[bundle |-> <<"ca1">>, canonical |-> TRUE]}
MCRotation == <<<<"ca1">>, <<"ca2">>>>

\* The replicas differ in nothing.
MCSymmetry == Permutations(Replicas)
=============================================================================
