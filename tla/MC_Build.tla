------------------------------ MODULE MC_Build ------------------------------
(***************************************************************************)
(* Instances of IncrementalBuild.                                          *)
(***************************************************************************)
EXTENDS IncrementalBuild, TLC

CONSTANTS a, b

\* Every source has an output of its own.
OwnOutputs == [s \in Source |-> s]

\* content/a/index.html and content/b/index.html: one filename.
OneOutput == [s \in Source |-> a]

SourceSymmetry == Permutations(Source)
=============================================================================
