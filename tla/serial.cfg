SPECIFICATION Spec
CONSTANTS
  Clients = {c1}
  Workers = {w1}
  Topics = {t1, t2}
  Tree = tree
  Bootstrap = boot
  None = none
  Ops <- AllOps
  AppCacheAtStart = TRUE
  MaxCommits = 3
SYMMETRY Symmetry
INVARIANTS TypeOK PersistentCacheFresh MemoryFresh AnswersAreCurrent
