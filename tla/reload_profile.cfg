\* A section that names a profile nobody registered.
CONSTANTS
  h1 = h1
  h2 = h2
  v1 = v1
  v2 = v2
  bad = bad
  weights = weights
  stranger = stranger
  Ingest = Ingest
  Empty = Empty
  Boot = v1
  Hooks = {h1}
  Sections = {v1, stranger}
  Unbuildable = {}
  BadWeights = {}
  UnknownProfile = {stranger}
  CoarseMtime = FALSE
  MaxEdits = 1
  MaxTimeouts = 0
SPECIFICATION Spec
INVARIANT NoPartialApply
