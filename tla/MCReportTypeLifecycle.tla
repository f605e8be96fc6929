------------------------ MODULE MCReportTypeLifecycle ------------------------
(***************************************************************************)
(* Instances of ReportTypeLifecycle for TLC.                               *)
(***************************************************************************)
EXTENDS ReportTypeLifecycle, TLC

CONSTANTS t1, t2, c1, c2, f, g, bad

\* The good flows are alike, and so are the types.
Symmetry == Permutations({f, g}) \cup Permutations(Types)

===============================================================================
