SPECIFICATION Spec
CONSTANTS
  w1 = w1
  w2 = w2
  Order = {o1}
  Renewal = {o1}
  InlineRenewal = {o1}
  PromoOrder = {o1}
  Worker = {w1, w2}
  Recoverer = {r1}
  Canceller = {c1}
  MaxUses = 1
  MaxAttempts = 2
  Environment <- MCCrash
  NoOrder = NoOrder
CHECK_DEADLOCK FALSE
INVARIANTS
  RecoveredIsProvisioned
