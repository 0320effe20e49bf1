SPECIFICATION Spec
CONSTANTS
  Calls = {c1}
  Products = {p1, p2}
  Coupons = {cp1}
  Users = {u1, u2}
  Keys = {k1, k2, k3}
  c1 = c1  c2 = c2  c3 = c3  p1 = p1  p2 = p2  cp1 = cp1  u1 = u1  u2 = u2  k1 = k1  k2 = k2  k3 = k3
  NoProduct = NoProduct
  NoCoupon = NoCoupon
  NoOrder = NoOrder
  Bodies <- OneBody
  Units = 3
  InitialStock <- MCStock
  Price <- MCPrice
  MinAmount <- MCMinAmount
  CouponOwner <- MCOwner
  MaxRetries = 3
  MaxDbFaults = 0
  MaxChannelFaults = 0
  MaxRestarts = 0
PROPERTY RefusedOnlyIfShort
