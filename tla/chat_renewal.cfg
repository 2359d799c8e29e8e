SPECIFICATION ChatSpec
CONSTANTS
  MaxClicks = 2
  MaxBotMishaps = 0
  ClickKind = {"renew", "look"}
CHECK_DEADLOCK FALSE
INVARIANTS
  RenewedByButton
