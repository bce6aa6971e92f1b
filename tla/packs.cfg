SPECIFICATION MCSpec
CONSTANTS
  rum = rum
  gin = gin
  c1 = c1
  c2 = c2
  Bottle = {rum, gin}
  MaxQty = 1
  Caller = {c1, c2}
  Wanted <- GinOrBoth
  Legal <- NotGinAlone
  Uncoded = {}
  MaxCarts = 1
  MaxEdits = 2
  Content = {k1, k2}
  NoContent = NoContent
  Run = {r1, r2}
  NoRun = NoRun
  Call = {f1, f2}
  MaxTurns = 2
  fifth = fifth
  bucket = bucket
  rare = rare
  Product = {fifth, bucket, rare}
  AdaOf <- OneAda
  Limited = {rare}
  Facts <- FewFacts
  Wishes = {3}
  MaxOffered = 24
  MaxTouches = 3
  Nothing = Nothing
CHECK_DEADLOCK FALSE
INVARIANTS
  AcceptedIsTyped
