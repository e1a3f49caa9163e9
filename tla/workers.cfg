SPECIFICATION WorkersSpec
CONSTANTS
  NoLease = NoLease
  Broadcasts = {1, 2}
  Devices = {x1}
  Workers = {w1, w2}
  Mortal = {w2}
  MaxAttempts = 2
  PageSize = 1
  MaxRetries = 1
  Projects = {p1}
  Groups = {g1}
  Objects = {a, b}
  Writers = {u1}
  DeletionWorkers = {w1, w2}
  Batch = 1
  MaxTroubles = 2
  NoWorker = NoWorker
INVARIANTS PushedOnce NothingLeftBehind
PROPERTIES EveryDeliveryEnds DeletionEnds
CHECK_DEADLOCK FALSE
