SPECIFICATION Spec
CONSTANTS
  Workers = {w1}
  Hosts = {h1}
  Paths <- MCPaths
  Exempt <- MCExempt
  Area <- MCArea
  Limit = 2
  Window = 2
  MaxTime = 4
INVARIANTS TypeOK WindowBound
PROPERTY CountsEveryAdmission
