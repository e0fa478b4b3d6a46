SPECIFICATION FairSpec
CONSTANTS
  Clients = {c1, c2}
  Topics = {t1, t2}
  Importable = {}
  Bodies = {blank}
  Blank = blank
  Lists <- OneSection
  None = None
  Ops = {"bulk_fast"}
  Modes = {"insert_only"}
  MaxWrites = 2
  s1 = s1
  s2 = s2
PROPERTY RequestsFinish
CHECK_DEADLOCK FALSE
