SPECIFICATION Spec
CONSTANTS
  Words = {a, b, section}
  Lines <- MCLines
  MaxLines = 5
  Section = section
  Overview = overview
  None = None
  a = a
  b = b
INVARIANTS TypeOK ParentIsNearestShallower PathsNest BodiesShareTheText RepeatsAreTold
CHECK_DEADLOCK FALSE
