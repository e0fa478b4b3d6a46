SPECIFICATION Spec
CONSTANTS
  Clients = {c1, c2}
  Topics = {t1}
  Importable = {t1}
  Bodies = {blank, b1}
  Blank = blank
  Lists <- OneSection
  None = None
  Ops = {"create", "update", "delete"}
  Modes = {"upsert"}
  MaxWrites = 3
  s1 = s1
  s2 = s2
SYMMETRY Symmetry
INVARIANTS TypeOK RevisionTrail AcknowledgedEditInHistory
PROPERTY ArchivedIsFrozen
CHECK_DEADLOCK FALSE
