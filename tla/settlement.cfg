SPECIFICATION LedgerSpec
CONSTANTS
  m1 = m1
  m2 = m2
  a1 = a1
  a2 = a2
  Members <- TwoMembers
  Schedules = {1, 2}
  Deposits = {1, 2}
  Promises = {1, 2}
  Accounts = {a1}
  Requests = {r1, r2}
  Amounts = {1, 2}
  Shares <- MoreShares
  Opening <- FirstCharged
  Filed <- AdvanceAndPayment
  FiledDues <- DuesNamed
  Promised <- TwoPromised
  MaxBalance = 4
  Ops = {"approve", "settle", "exit", "reverse", "spend", "reject", "bill", "waive", "promise"}
  Parts = {"settlement", "billing"}
INVARIANTS BalanceMatchesEntries NeverOverpaid BillingHolds
PROPERTY SettlementHolds
CHECK_DEADLOCK FALSE
SYMMETRY Sym
