----------------------------- MODULE MCUsageQuota -----------------------------
(***************************************************************************)
(* Instances of UsageQuota for TLC.                                        *)
(***************************************************************************)
EXTENDS UsageQuota, TLC

CONSTANTS c1, c2, brand, social, free, pro

\* `brand` is limited in both plans, `social` not in the larger one; a limit
\* of 0 lets the first report through, as the code does.
TwoPlans ==
  free :> (brand :> 0 @@ social :> 1) @@ pro :> (brand :> 1 @@ social :> Unlimited)

Ceilings == brand :> 1 @@ social :> 1

OneCeiling == brand :> 1
OneReport  == free :> (brand :> 1)

Symmetry == Permutations(Callers)

===============================================================================
