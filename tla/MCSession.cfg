SPECIFICATION SessionSpec
CONSTANTS
  Accounts = {shop, kiosk}
  shop = shop
  kiosk = kiosk
  MaxDays = 2
  MaxVisits = 3
  MaxDocs = 3
  Byte = 2
  None = None
  Garbage = Garbage
INVARIANTS
  SessionTypeOK
  PackagesBelong
PROPERTY VisitsEndInOrder
