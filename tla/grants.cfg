SPECIFICATION Spec
CONSTANTS
  Creations = {t1, t2}
  Grants = {g1, g2, g3}
  Users = {u1, u2}
  TemplateBodies <- Bodies
  MaxTime = 3
  MaxDbFaults = 2
SYMMETRY Symmetry
INVARIANTS TypeOK UnitsAccounted LimitKeptInTurn
PROPERTY GrantsAreIssues
