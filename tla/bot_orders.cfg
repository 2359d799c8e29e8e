SPECIFICATION MCSpec
CONSTANTS
  MaxClicks = 2
  MaxBotMishaps = 1
  ClickKind = {"buy", "renew", "promo", "issue", "confirm", "revoke", "menu", "look", "cancel", "trial"}
  Order = {o1}
  Renewal = {}
  InlineRenewal = {}
  PromoOrder = {o1}
  Worker = {w1, w2}
  Recoverer = {r1}
  Canceller = {}
  MaxUses = 1
  MaxAttempts = 2
  Environment <- MCFairEnvironment
  NoOrder = NoOrder
CHECK_DEADLOCK FALSE
INVARIANTS
  NoDuplicates
PROPERTIES
  ClicksHandled
  ProvisioningSettles
