SPECIFICATION FleetSpec
CONSTANTS
  r1 = r1
  w1 = w1
  h1 = h1
  h2 = h2
  s1 = s1
  k1 = k1
  Run = {r1}
  Submit = {r1}
  Preview = {}
  Store = {s1}
  Cart = {k1}
  StoreOf <- OneStore
  CartOf <- OneCart
  Worker = {w1}
  Slot = {h1, h2}
  MaxRetries = 1
  MaxAttempts = 2
  NoWorker = NoWorker
  NoRun = NoRun
  Keep = Keep
  OperatorActions = {"cancel"}
  CrashesHappen = FALSE
  StagesTimeOut = FALSE
  BeatsReorder = FALSE
  WorkersStall = FALSE
SYMMETRY Interchangeable
CHECK_DEADLOCK FALSE
PROPERTIES
  SucceededStaysSucceeded
