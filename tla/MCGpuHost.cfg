SPECIFICATION FairSpec
CONSTANTS
  base = base
  spec = spec
  NoConfig = NoConfig
  Scripts <- MCScripts
  Labels <- MCLabels
  Attempts = 2
INVARIANTS Labelled ComparesEverything
PROPERTY RunnerEnds
