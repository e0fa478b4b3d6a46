SPECIFICATION Spec
CONSTANTS
  Topics <- MCTopics
  Orders = {0, 1}
  g = g
  Groups = {g}
  None = None
  Limits = {1, 2}
  Selections <- MCSelections
  Tables <- MCTables
  MaxEdits = 2
INVARIANTS TypeOK NothingMissedOrRepeated NoEmptyPage GroupCountsAgree ExportFollowsManifest
PROPERTIES PagesScan
CHECK_DEADLOCK FALSE
