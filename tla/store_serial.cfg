SPECIFICATION Spec
CONSTANTS
  Clients = {c1}
  Topics = {t1}
  Importable = {t1}
  Bodies = {blank, b1}
  Blank = blank
  Lists <- MCLists
  None = None
  Ops = {"create", "update", "delete", "bulk", "bulk_fast"}
  Modes = {"upsert", "insert_only", "update_only"}
  MaxWrites = 3
  s1 = s1
  s2 = s2
INVARIANT SectionsMatchCount
CHECK_DEADLOCK FALSE
