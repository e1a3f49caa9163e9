SPECIFICATION LedgerSpec
CONSTANTS
  m1 = m1
  m2 = m2
  a1 = a1
  a2 = a2
  Members <- OneMember
  Schedules = {1}
  Deposits = {1, 2}
  Promises = {1, 2}
  Accounts = {a1, a2}
  Requests = {r1, r2}
  Amounts = {2}
  Shares <- OneShare
  Opening <- OneDueOpen
  Filed <- LargePayment
  FiledDues <- DuesNamed
  Promised <- TwoPromised
  MaxBalance = 4
  Ops = {"submit", "advance", "finalize", "approve", "promise", "reverse"}
  Parts = {"submission"}
INVARIANT SubmissionHolds
CHECK_DEADLOCK FALSE
SYMMETRY Sym
