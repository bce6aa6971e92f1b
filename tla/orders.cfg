SPECIFICATION MCSpec
CONSTANTS
  rum = rum
  gin = gin
  c1 = c1
  c2 = c2
  Bottle = {rum, gin}
  MaxQty = 1
  Caller = {c1, c2}
  Wanted <- GinOrBoth
  Legal <- NotGinAlone
  Uncoded = {}
  MaxCarts = 2
  MaxEdits = 0
  Code = {rum, gin}
  Requests <- MCRequests
  Ways <- MCWays
  Leftovers <- MCLeftovers
  MaxLine = 2
  BatchSize = 1
  TypeAttempts = 2
  MaxTouches = 1
  NoCode = NoCode
  NoOrder = NoOrder
  Worker = {w1, w2}
  Submit = {s1}
  NoSubmit = NoSubmit
  MaxHand = 1
  MaxRevisions = 1
  MaxSyncs = 1
  MaxTaps = 1
  low = low
  Row = {x}
  Lists = {"retail_price_changes"}
  Price = {low, high}
  NoPrice = NoPrice
  Job = {j1, j2}
  MaxPublished = 2
  MaxRequests = 3
  upc = upc
  ean = ean
  Barcode = {upc, ean}
  Canonical <- OneCanonical
  Sku = {m1, m2}
  NoSku = NoSku
  Slot = {t1, t2}
  MaxArrived = 3
SYMMETRY BothInterchangeable
CHECK_DEADLOCK FALSE
INVARIANTS
  OneValidationPerContent
  AnswersSpeakOfTheSnapshot
  OrdersWhatWasAsked
  DemotionsBlockCheckout
  FreshWhenServed
  OneRowPerOrder
  ConfirmationIsOwn
  OrdersTypeOK
  SkipsAreSound
  UpcsSurvive
  PriceMemory
  ChoicesStay
  FlagsForget
