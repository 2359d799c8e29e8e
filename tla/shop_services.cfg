SPECIFICATION MCSpec
CONSTANTS
  Purchase = {o1, o2}
  MaxUses = 1
  MaxMishaps = 2
  MaxAttempts = 2
  SaleCall = {"s1", "s2"}
  RefundCall = {"r1"}
  MaxCrashes = 1
  Customer = {c1, c2}
  Referrer = {f1, f2}
  NoReferrer = NoReferrer
  MaxOrders = 2
  MaxPayouts = 2
  Stamp = {0, 1}
  BridgeRequest = {q1}
  BridgeNode = {n1, n2}
  NotSeen = NotSeen
  Window = 1
  MaxTime = 4
  MaxRestarts = 1
  ExtraFiles <- MCExtraFiles
  Subscriber = {"a", "b"}
  AddressJob = {"w1", "w2"}
  MaxAddress = 4
  SlotFloor = 4
  MaxKeys = 2
  QrText <- MCTexts
CHECK_DEADLOCK FALSE
INVARIANTS
  CodeNotOversold
  RefundHolds
  SoldOnce
  BooksAgree
  RequestRunsOnce
  ReferencesResolve
  ServesThePaid
  ActivePeerServed
  QrReadable
PROPERTIES
  FreeOrderSettled
  FailedTcpGoes
