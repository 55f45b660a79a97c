SPECIFICATION MirrorSpec
CONSTANTS
  products1 = products1
  products2 = products2
  prices1 = prices1
  Names = {products1, products2, prices1}
  ManualOf <- MCManualOf
  NoName = NoName
  Faults = {"net", "disk", "busy"}
  MaxEdits = 2
  MaxStops = 1
INVARIANT LastSyncIsReceipt
