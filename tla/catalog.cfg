SPECIFICATION Spec
CONSTANTS
  c1 = c1  c2 = c2  c3 = c3  c4 = c4  u1 = u1  u2 = u2  a = a  b = b  exact = exact
  Calls = {c1, c2, c3, c4}
  Users = {u1, u2}
  Texts = {a, b, exact}
  Stored <- Rounding
  NoText = NoText
  Zero = Zero
  Asks <- Mixed
  MaxFaults = 2
  MaxRestarts = 2
INVARIANTS TypeOK DocumentsHaveRows SearchInBounds DocumentsFollowRows
