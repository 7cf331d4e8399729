\* One host thread and the ingestion worker; a tracker; a model; a profile change.
CONSTANTS
  None = None
  h1 = h1
  h2 = h2
  v1 = v1
  v2 = v2
  bad = bad
  weights = weights
  stranger = stranger
  Ingest = Ingest
  Empty = Empty
  Boot = v1
  Hooks = {h1}
  Sections = {v1, v2, bad, weights, stranger}
  Unbuildable = {bad}
  BadWeights = {weights}
  UnknownProfile = {stranger}
  CoarseMtime = FALSE
  MaxEdits = 2
  MaxTimeouts = 1
  \* Two scans at one model that may fail to load.
  PromptScans = {"p", "q"}
  WaitTicks = 1
  RetryTicks = 1
  MaxPromptCalls = 2
  \* Two gateway threads of one home, torn lines, rotations, a restart, and a
  \* second home the console may be rebound to.
  Rows = {"r1", "r2"}
  Writers = {"w1", "w2"}
  Paths = {"home", "other"}
  Home <- SpoolHome
  Segments = {"g1", "g2"}
  Cap = 1
  MaxUpsets = 1
SPECIFICATION PartSpec
CHECK_DEADLOCK FALSE
INVARIANTS MutexAccounted ScanSeesOneConfig CleanIsScored
PROPERTIES  CallReturns UpdateReturns ScansReturn 
           LossIsExcused ImplementsLog Delivered
