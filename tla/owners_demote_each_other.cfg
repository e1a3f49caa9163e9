SPECIFICATION RosterSpec
CONSTANTS
  Persons = {p1, p2}
  Records = {r1}
  Clerks = {c1, c2}
  Cap = 1
  MaxShares = 1
  MostShares = 1
  NoRecord = NoRecord
  NoPerson = NoPerson
INVARIANT OwnerRemains
CHECK_DEADLOCK FALSE
