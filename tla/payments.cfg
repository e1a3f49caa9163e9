SPECIFICATION CashSpec
CONSTANTS
  a1 = a1
  a2 = a2
  admin = admin
  accountant = accountant
  approver = approver
  Accounts = {a1, a2}
  Expenses = {e1}
  Sales = {s1}
  Purchases = {p1}
  Incomes = {i1}
  Users = {admin, accountant, approver}
  Requests = {r1, r2}
  Roles <- RolesOf
  Flow = "accountant_and_approver"
  Opening <- Funded
  Amounts = {2}
  MaxBalance = 4
  MaxEntries = 3
  Ops = {"expense", "draft", "approve", "disburse", "sale", "income", "purchase", "transfer", "reverse", "reject", "adjust"}
  Parts = {"payments", "corrections"}
INVARIANTS NeverOverdrawn PaidRight StatementAgrees
PROPERTY KeepsBook
CHECK_DEADLOCK FALSE
SYMMETRY Sym
