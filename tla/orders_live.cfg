SPECIFICATION LiveSpec
CONSTANTS
  Calls = {c1, c2, c3}
  Products = {p1, p2}
  Coupons = {cp1}
  Users = {u1, u2}
  Keys = {k1, k2, k3}
  c1 = c1  c2 = c2  c3 = c3  p1 = p1  p2 = p2  cp1 = cp1  u1 = u1  u2 = u2  k1 = k1  k2 = k2  k3 = k3
  NoProduct = NoProduct
  NoCoupon = NoCoupon
  NoOrder = NoOrder
  Bodies <- LiveBodies
  Units = 6
  InitialStock <- MCStock
  Price <- MCPrice
  MinAmount <- MCMinAmount
  CouponOwner <- MCOwner
  MaxRetries = 3
  MaxDbFaults = 1
  MaxChannelFaults = 1
  MaxRestarts = 1
PROPERTIES CallsAnswered ScheduledClosed
