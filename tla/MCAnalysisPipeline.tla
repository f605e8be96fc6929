-------------------------- MODULE MCAnalysisPipeline --------------------------
(***************************************************************************)
(* Instances of AnalysisPipeline for TLC.                                  *)
(***************************************************************************)
EXTENDS AnalysisPipeline, TLC

CONSTANTS a1, a2, r1, r2, c1, c2, w1, w2

\* One analysis with both reports, or one report for each analysis.
BothOfOne == r1 :> a1 @@ r2 :> a1
OneEach   == r1 :> a1 @@ r2 :> a2
OneReport == r1 :> a1

Symmetry == Permutations(Callers) \cup Permutations(Workers)

===============================================================================
