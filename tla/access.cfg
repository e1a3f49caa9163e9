SPECIFICATION AccessSpec
CONSTANTS
  x1 = x1
  x2 = x2
  y1 = y1
  y2 = y2
  z1 = z1
  z2 = z2
  phone = phone
  email = email
  o1 = o1
  o2 = o2
  ta = ta
  tb = tb
  mailA = mailA
  c1 = c1
  c2 = c2
  c3 = c3
  ka = ka
  kb = kb
  Contacts = {phone, email}
  Phones = {phone}
  Tenants = {o1, o2}
  ScopesOf <- PhoneOfTwo
  CodeRequests = {x1, x2}
  Logins = {y1, y2}
  Choosers = {z1, z2}
  SmsLimit = 1
  MaxCodes = 2
  Nobody = Nobody
  Mobiles = {x1, x2}
  Mails = {mailA}
  NoMail = NoMail
  Names = {1, 2}
  Tickets = {ta, tb}
  MailOf <- SameMail
  Browsers = {y1, y2}
  NoTicket = NoTicket
  Masters = {x1, x2}
  Sessions = {s1, s2}
  Callers = {y1, y2}
  Attempts = {z1, z2}
  FailureLimit = 1
  MaxElapsed = 2
  Accounts = {x1, x2}
  Papers = {y1, y2}
  Runs = {z1, z2}
  Portion = 1
  MaxUploads = 1
  NoRun = NoRun
  Invoices = {x1, x2}
  Calls = {c1, c2, c3}
  KeyOf <- OneRepeated
  Manual = {m1}
  StoredFiles = {y1, y2}
  PlanSize = 1
  MaxClock = 2
  NoCall = NoCall
  NoKey = NoKey
  Debtors = {m1}
  RuleSlots = {s1}
  Managers = {g1}
  Senders = {x1, x2}
  Forms <- TwoRules
  Deadline = 0
  LastDay = 1
  Hours <- OneHour
  OffDays <- DeadlineOff
  MaxSends = 2
  Voters = {v1}
  Workers = {x1, x2}
  Interval = 1
  Long = 2
  Short = 1
  MaxTime = 2
  MaxReplans = 1
INVARIANTS AccessTypeOK EntryGuarded SignUpHolds ErasureIsClean PaymentsHonoured RemindersHold RemindersNotRepeated
CHECK_DEADLOCK FALSE
SYMMETRY Sym
