SPECIFICATION FleetSpec
CONSTANTS
  r1 = r1
  w1 = w1
  w2 = w2
  h1 = h1
  h2 = h2
  h3 = h3
  s1 = s1
  k1 = k1
  Run = {r1}
  Submit = {r1}
  Preview = {}
  Store = {s1}
  Cart = {k1}
  StoreOf <- OneStore
  CartOf <- OneCart
  Worker = {w1, w2}
  Slot = {h1, h2, h3}
  MaxRetries = 1
  MaxAttempts = 2
  NoWorker = NoWorker
  NoRun = NoRun
  Keep = Keep
  OperatorActions <- AllActions
  CrashesHappen = TRUE
  StagesTimeOut = TRUE
  BeatsReorder = TRUE
  WorkersStall = TRUE
SYMMETRY Interchangeable
CHECK_DEADLOCK FALSE
INVARIANTS
  RetriesBounded
  DispatchedOncePerRun
  DispatchedNeverRequeued
  OnlyStraysOverlap
  RetryNowNeverOffered
PROPERTIES
  KeepsPromise
