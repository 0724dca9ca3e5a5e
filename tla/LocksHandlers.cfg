SPECIFICATION Spec
CONSTANTS
  t1 = t1
  t2 = t2
  c1 = c1
  c2 = c2
  c3 = c3
  NoTask = NoTask
  Tasks <- MCTasks
  Calls <- MCCalls
  Owner <- MCOwner
  Resources <- MCResources
  Terminal <- MCTerminal
  WaitLimit = 1
  Ttl = 2
INVARIANT HandlersExclude
