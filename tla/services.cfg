SPECIFICATION MCSpec
CONSTANTS
  r1 = r1
  r2 = r2
  w1 = w1
  h1 = h1
  h2 = h2
  s1 = s1
  k1 = k1
  k2 = k2
  Run = {r1, r2}
  Submit = {r1}
  Preview = {r2}
  Store = {s1}
  Cart = {k1, k2}
  StoreOf <- OneStore
  CartOf <- OwnCart
  Worker = {w1}
  Slot = {h1}
  MaxRetries = 1
  MaxAttempts = 2
  NoWorker = NoWorker
  NoRun = NoRun
  Keep = Keep
  OperatorActions = {}
  CrashesHappen = TRUE
  StagesTimeOut = FALSE
  BeatsReorder = TRUE
  WorkersStall = FALSE
  Envs <- MCEnvs
  Account = {a1, a2}
  Browser = {b1, b2}
  NoBrowser = NoBrowser
  NoSession = NoSession
  NoClaim = NoClaim
  Lines = {84}
  MaxArrivals = 3
  MaxLogins = 2
  Shop = {st1, st2, st3, st4}
  Broken = {st3, st4}
  NoStore = NoStore
  STORES_READ = 3
  MAX_STORES_PER_TICK = 2
  MaxWakes = 3
CHECK_DEADLOCK FALSE
INVARIANTS
  OwnSession
  NoBrowserLeaks
  DeadManSwitch
  WatchdogEndsWhatHangs
  ServicesTypeOK
PROPERTIES
  RunsSettle
  StopsWhenAsked
  QueueServed
  TapServed
  ScheduledServed
