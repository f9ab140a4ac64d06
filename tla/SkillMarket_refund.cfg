CONSTANTS
  ann = ann  bob = bob  plain = plain  keyed = keyed  stray = stray  r1 = r1  r2 = r2  r3 = r3
  a1 = a1  a2 = a2
  Users = {ann, bob}
  Skills = {plain}
  Requests = {r1}
  Admins = {a1, a2}
  Price <- MCPrice
  RequiredEnv <- MCRequiredEnv
  Uploader <- MCUploader
  Nobody = Nobody  NoPurchase = NoPurchase
  Vouchers = 1
  Amounts = {3, 8}
  MaxTopUp = 8
SPECIFICATION Spec
PROPERTIES RefundedOnce
CHECK_DEADLOCK FALSE
