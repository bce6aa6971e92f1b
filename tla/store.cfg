SPECIFICATION FleetSpec
CONSTANTS
  r1 = r1
  r2 = r2
  w1 = w1
  w2 = w2
  h1 = h1
  h2 = h2
  s1 = s1
  k1 = k1
  k2 = k2
  Run = {r1, r2}
  Submit = {r1, r2}
  Preview = {}
  Store = {s1}
  Cart = {k1, k2}
  StoreOf <- OneStore
  CartOf <- OwnCart
  Worker = {w1, w2}
  Slot = {h1, h2}
  MaxRetries = 1
  MaxAttempts = 2
  NoWorker = NoWorker
  NoRun = NoRun
  Keep = Keep
  OperatorActions = {}
  CrashesHappen = TRUE
  StagesTimeOut = TRUE
  BeatsReorder = FALSE
  WorkersStall = FALSE
SYMMETRY AllInterchangeable
CONSTRAINT FewClaims
CHECK_DEADLOCK FALSE
INVARIANTS
  OneRunningPerStore
  CheckoutOwnsRun
  OneCheckoutPerStore
PROPERTIES
  NoClickAfterAmbiguousDeath
