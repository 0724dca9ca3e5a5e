SPECIFICATION RegistrySpec
CONSTANTS
  ChatIds = {a, b}
  Callers = {u, v}
  NoChat = none
  MaxCalls = 2
INVARIANT OneTurnPerChat
CHECK_DEADLOCK FALSE
