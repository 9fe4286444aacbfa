SPECIFICATION SuiteSpec
CONSTANTS
  c1 = c1
  c2 = c2
  t1 = t1
  None = None
  Nothing = Nothing
  NoTicket = NoTicket
  Writer = Writer
  Callers = {c1, c2, c3}
  MaxToken = 2
  Tasks = {t1, t2}
  Starters = {c1}
  Stoppers = {c2}
  MaxGen = 2
  MaxTokens = 1
  MaxFaults = 1
  Runners = {c1, c2}
  Accounts = {a1, a2}
  Envs = {e1, e2}
  MaxChanges = 2
  MaxBlips = 1
INVARIANTS  LifecycleSafe TasksSafe
 
CHECK_DEADLOCK FALSE
