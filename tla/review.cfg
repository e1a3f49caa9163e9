SPECIFICATION LedgerSpec
CONSTANTS
  m1 = m1
  m2 = m2
  a1 = a1
  a2 = a2
  Members <- OneMember
  Schedules = {1, 2}
  Deposits = {1, 2}
  Promises = {}
  Accounts = {a1, a2}
  Requests = {r1, r2}
  Amounts = {1, 2}
  Shares <- OneShare
  Opening <- OldestWithPenalty
  Filed <- TwoPayments
  FiledDues <- DuesNamed
  Promised <- NonePromised
  MaxBalance = 3
  Ops = {"approve", "resolve", "reject", "remove", "reverse", "route", "preview"}
  Parts = {"review"}
INVARIANTS TypeOK PostedOnce EndorsedBeforeApproval
PROPERTY ReviewHolds
CHECK_DEADLOCK FALSE
SYMMETRY Sym
