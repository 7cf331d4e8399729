\* Two host threads that reload at once.
CONSTANTS
  h1 = h1
  h2 = h2
  v1 = v1
  v2 = v2
  bad = bad
  weights = weights
  stranger = stranger
  Ingest = Ingest
  Empty = Empty
  Boot = v1
  Hooks = {h1, h2}
  Sections = {v1, v2}
  Unbuildable = {}
  BadWeights = {}
  UnknownProfile = {}
  CoarseMtime = FALSE
  MaxEdits = 2
  MaxTimeouts = 0
SPECIFICATION Spec
INVARIANT SeenIsApplied
