\* Two concurrent requests on two employees of one company whose cap is lifted and
\* set back, under the fairness of the server and the lock queues.
CONSTANTS
  r = r  b1 = b1  b2 = b2  e1 = e1  e2 = e2  e3 = e3  t1 = t1  t2 = t2
  None = None
  Companies = {r}
  Employees = {e1, e2}
  Requests = {t1, t2}
  NewCaps = {1, None}
  Home <- MCHome
  Parent <- MCParent
  Root <- MCRoot
  StartCaps <- MCTight
SPECIFICATION FairSpec
PROPERTIES
  ImplementsSeatPool
  EveryRequestEnds
INVARIANTS
  SeatsWithinCap
