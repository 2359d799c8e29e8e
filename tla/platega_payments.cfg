SPECIFICATION PaymentSpec
CONSTANTS
  web1 = web1
  web2 = web2
  Order = {o1}
  Renewal = {o1}
  InlineRenewal = {o1}
  PromoOrder = {}
  Worker = {bot, web1, web2}
  Bot = bot
  Recoverer = {r1}
  Canceller = {}
  MaxUses = 0
  MaxAttempts = 2
  MaxTasks = 3
  Environment <- MCPaymentEnvironment
  NoOrder = NoOrder
CONSTRAINT MCTwoAtOnce
VIEW MCView
SYMMETRY MCPaymentSymmetry
CHECK_DEADLOCK FALSE
INVARIANTS
  AnsweredIsHandled
  OnePeriodPerPayment
  PaidIsHandled
