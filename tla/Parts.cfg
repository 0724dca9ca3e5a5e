SPECIFICATION PartsSpec
CONSTANTS
  t1 = t1
  t2 = t2
  c1 = c1
  c2 = c2
  c3 = c3
  NoTask = NoTask
  Tasks <- MCTasks
  Calls <- MCCalls
  Owner <- MCOwner
  Resources <- MCResources
  Terminal <- MCTerminal
  WaitLimit = 1
  Ttl = 2
  PhaseCount = 4
  Requests = {r1, r2, r3}
  Intervals = {0, 1, 2}
  ChatIds = {a, b}
  Callers = {u, v}
  NoChat = none
  MaxCalls = 2
INVARIANTS PartsTypeOK NoOrphanLock LeaseBacked LeaseExclusive NoCircularWait IndegreeIsExact OrderIsTopological ActiveIsOpen
PROPERTIES ImplementsService AcquireAllReturns RequestsAreSpaced QueueDrains
CHECK_DEADLOCK FALSE
