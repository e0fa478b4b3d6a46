SPECIFICATION Spec
CONSTANTS
  Clients = {c1, c2}
  Workers = {w1}
  Topics = {t1}
  Tree = tree
  Bootstrap = boot
  None = none
  Ops <- ReadArchiveOps
  AppCacheAtStart = TRUE
  MaxCommits = 3
INVARIANT PublicOnlyPublished
