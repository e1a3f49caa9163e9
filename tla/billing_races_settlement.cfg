SPECIFICATION LedgerSpec
CONSTANTS
  m1 = m1
  m2 = m2
  a1 = a1
  a2 = a2
  Members <- OneMember
  Schedules = {1, 2}
  Deposits = {1}
  Promises = {}
  Accounts = {a1}
  Requests = {r1, r2}
  Amounts = {1}
  Shares <- OneShare
  Opening <- FirstCharged
  Filed <- OneAdvance
  FiledDues <- DuesNamed
  Promised <- NonePromised
  MaxBalance = 4
  Ops = {"approve", "bill", "settle"}
  Parts = {"races"}
INVARIANT AdvanceNotOverspent
CHECK_DEADLOCK FALSE
SYMMETRY Sym
