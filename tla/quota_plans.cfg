SPECIFICATION Spec
CONSTANTS
  c1 = c1
  c2 = c2
  brand = brand
  social = social
  free = free
  pro = pro
  None = None
  FreePlan = free
  Callers = {c1, c2}
  Types = {brand, social}
  Plans = {free, pro}
  Limit <- TwoPlans
  Ceiling <- Ceilings
  MaxRequests = 3
  MaxMonths = 2
  MaxSubs = 2
CHECK_DEADLOCK FALSE
SYMMETRY Symmetry
INVARIANTS
  TypeOK
  OvershootBounded
  ChargesBalance
