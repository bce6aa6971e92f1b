SPECIFICATION UpcSpec
CONSTANTS
  upc = upc
  ean = ean
  Barcode = {upc, ean}
  Canonical <- OneCanonical
  Sku = {m1, m2}
  NoSku = NoSku
  Slot = {t1, t2}
  MaxArrived = 3
SYMMETRY UpcInterchangeable
CHECK_DEADLOCK FALSE
PROPERTIES
  VerifiedStays
