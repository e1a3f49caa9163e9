SPECIFICATION CashSpec
CONSTANTS
  a1 = a1
  a2 = a2
  admin = admin
  accountant = accountant
  approver = approver
  Accounts = {a1, a2}
  Expenses = {e1}
  Sales = {}
  Purchases = {}
  Incomes = {}
  Users = {admin, accountant}
  Requests = {r1, r2}
  Roles <- RolesOf
  Flow = "accountant_only"
  Opening <- Funded
  Amounts = {2}
  MaxBalance = 3
  MaxEntries = 4
  Ops = {"expense", "approve", "reject"}
  Parts = {"races"}
INVARIANT RejectedCostsNothing
CHECK_DEADLOCK FALSE
