SPECIFICATION FairSpec
CONSTANTS
  Words = {a, b, g, d, x, y}
  Names = {f}
  Seeds <- MCSeeds
  TopicBatch = 1
  SectionBatch = 2
  LinkBatch = 2
  Retries = 2
  MaxRuns = 2
  Options <- MCOptions
  ChunkSize = 1
  a = a
  b = b
  g = g
  d = d
  x = x
  y = y
  f = f
INVARIANTS TypeOK LoadedInOrder CompletedRunIsExact PostedIsStored
PROPERTIES RunsEnd CleanRunRecovers RepostRecovers
CHECK_DEADLOCK FALSE
