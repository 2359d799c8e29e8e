SPECIFICATION IntakeSpec
CONSTANTS
  Purchase = {o1, o2}
  MaxUses = 1
  MaxMishaps = 2
PROPERTIES
  FollowsTransitions
CHECK_DEADLOCK FALSE
