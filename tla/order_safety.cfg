SPECIFICATION Spec
CONSTANTS
  w1 = w1
  w2 = w2
  Order = {o1, o2}
  Renewal = {o1}
  InlineRenewal = {o1}
  PromoOrder = {o1, o2}
  Worker = {w1, w2}
  Recoverer = {r1}
  Canceller = {c1}
  MaxUses = 1
  MaxAttempts = 3
  Environment <- MCEnvironment
  NoOrder = NoOrder
SYMMETRY MCSymmetry
CHECK_DEADLOCK FALSE
PROPERTIES
  LedgerSpec
INVARIANTS
  TypeOK
  DeliveredIsServed
  PromoExact
  ExclusiveOwner
  RenewalPaidFor
  DeliveredIsAccrued
