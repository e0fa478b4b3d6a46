SPECIFICATION FairSpec
CONSTANTS
  Clients = {c1, c2}
  Workers = {w1}
  Topics = {t1, t2}
  Tree = tree
  Bootstrap = boot
  None = none
  Ops <- LivenessOps
  AppCacheAtStart = FALSE
  MaxCommits = 2
PROPERTY RequestsFinish
