SPECIFICATION Spec
CONSTANTS
  Rows = {r1, r2, r3}
  Sizes <- QuerySizes
  MaxSize = 2
  MaxCouponSize = 2
  DefaultSize = 1
  MaxTime = 2
SYMMETRY RowSymmetry
INVARIANTS TypeOK NothingMissed NothingTwice
