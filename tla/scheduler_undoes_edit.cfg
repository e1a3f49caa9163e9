SPECIFICATION OperationsSpec
CONSTANTS
  x1 = x1
  x2 = x2
  y1 = y1
  y2 = y2
  NDues = 3
  Principals = {2}
  Penalties = {1}
  Payments = {1, 4, 7}
  Processes = {x1, x2}
  Frequencies = {"weekly", "monthly"}
  Following <- WeeksAndMonths
  MaxDay = 2
  LastDay = 4
  MaxEdits = 1
  MayMove = TRUE
  Actors = {x1, x2}
  LastBillDay = 2
  MaxRevision = 5
  RemindDays = 1
  Customers = {c1}
  Clerks = {x1, x2}
  Bills = {1}
  Collections = {1}
  Adjustments = {y1, y2}
  Sums = {1}
  MaxMoney = 3
  Assignments = {a1, a2}
  Batches = {r1}
  BillingWorkers = {x1, x2}
  Cycles = {1}
  Staff = {e1}
  Claims = {b1}
  Leaves = {l1}
  Officers = {x1, x2}
  LastMonth = 2
  Gross = 2
  FirstPay = 1
  MaxAdvance = 1
  NoOfficer = NoOfficer
  NoStaff = NoStaff
  WorkDays = {1}
  Assets = {a1}
  Sites = {y1, y2}
  NoSite = NoSite
  Cost = 4
  Residual = 1
  Life = 2
  LastAssetMonth = 4
  MaxTransfers = 2
  ServiceCost = 1
  Proceeds = 2
  StartCash = 5
  Papers = {y1, y2}
  NoPaper = NoPaper
  Goods = {x}
  NoGoods = NoGoods
  Stores = {main, far}
  MainStore = main
  Quantities = {1}
  MaxOnHand = 1
  MaxBanked = 1
  Flows <- SkipOrNot
INVARIANT RunsOnIntendedDays
CHECK_DEADLOCK FALSE
SYMMETRY Sym
