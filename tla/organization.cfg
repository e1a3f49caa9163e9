SPECIFICATION OrganizationSpec
CONSTANTS
  x1 = x1
  x2 = x2
  y1 = y1
  y2 = y2
  z1 = z1
  z2 = z2
  o1 = o1
  q1 = q1
  q2 = q2
  rows = rows
  otherRows = otherRows
  Persons = {x1, x2}
  Records = {y1, y2}
  Clerks = {c1}
  Cap = 1
  MaxShares = 1
  MostShares = 1
  NoRecord = NoRecord
  NoPerson = NoPerson
  Sendings <- SendingsOfTwo
  MaxRosterEdits = 1
  NoRows = NoRows
  Editors = {x1, x2}
  Payers = {u1}
  Beneficiaries = {b1, everyone}
  Everyone = everyone
  Titles = {t1}
  MaxSaves = 3
  Windows = {x1, x2}
  AccountNames = {cash}
  Targets = {1, 2}
  MaxAssigned = 2
  Organizations = {o1, o2}
  Projects = {y1, y2}
  Users = {u1}
  Documents = {z1, z2}
  SetupCalls = {x1, x2}
  Limits = {1, 2}
  MaxTotal = 2
  NoSetup = NoSetup
  s1 = s1
  ta = ta
  Pupils = {s1, s2}
  Terms = {1, 2}
  FeePayments = {f1, f2}
  FeeSums = {1, 3}
  Fee = 2
  TrxIds = {n1}
  NoTrx = NoTrx
  Subjects = {u1}
  Teachers = {ta}
  NoTeacher = NoTeacher
  Devices = {x1, x2}
  TeacherOf <- OneTeacher
  Offices = {y1, y2}
  Scores = {z1, z2}
  NoScore = NoScore
  MaxSheetRevision = 5
  MaxVersion = 2
  Contracts = {c1}
  Engineers = {z1, z2}
  RunningBills = {y1, y2}
  WasteEntries = {w1}
  ChangeOrders = {o1}
  NoBill = NoBill
  LumpSum = 2
  Quantity = 2
  HalfRate = 3
  RetentionBps = 5000
  ContractSums = {1}
  MaxContract = 3
  SiteCash = 3
INVARIANTS OrganizationTypeOK OpeningImportedOnce NoSectionLost LeavesSetUpReady WithinPackage InstituteHolds ContractsHold
CHECK_DEADLOCK FALSE
SYMMETRY Sym
