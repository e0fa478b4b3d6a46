SPECIFICATION Spec
CONSTANTS
  Clients = {c1}
  Workers = {w1}
  Topics = {t1}
  Tree = tree
  Bootstrap = boot
  None = none
  Ops <- Writes
  AppCacheAtStart = FALSE
  MaxCommits = 3
INVARIANT AcknowledgedWriteIsDurable
