SPECIFICATION Spec
CONSTANTS
  Creations = {t1}
  Grants = {g1, g2}
  Users = {u1}
  TemplateBodies <- Plenty
  MaxTime = 1
  MaxDbFaults = 0
INVARIANT PerUserLimitKept
