SPECIFICATION FairSpec
CONSTANTS
  Callers = {c1, c2}
  NoCaller = NoCaller
  UsePassword = TRUE
  MaxCalls = 2
  MaxConns = 3
INVARIANTS
  TypeOK
  AuthBeforeCommand
  PooledIsClean
PROPERTIES
  ImplementsRpc
  EveryCallReturns
