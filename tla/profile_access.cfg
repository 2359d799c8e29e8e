SPECIFICATION MCSpec
CONSTANTS
  Node = {"n1","n2"}
  Home = "n1"
  RenewalRun = {1,2}
  NodeOf <- MCNodeOf
  Period <- MCPeriod
  FirstExpiry = 1
  MaxTime = 1
  MaxEvents = 1
  Mail = {"ann", "bob"}
  NoMail = NoMail
  LinkTTL = 2
  LinksAllowed = 2
  ChangesAllowed = 1
  Requester = {"r1"}
  Binder = {"b1", "b2"}
  MaxLinks = 2
  MaxOrders = 2
CHECK_DEADLOCK FALSE
INVARIANTS
  PaidTimeKept
  OwnerSeesProfile
PROPERTIES
  AccessConverges
