SPECIFICATION FairSpec
CONSTANTS
  Concs <- MCConcs
  MostTasks = 2
  Repeats = 2
  Retries = 2
  MaxChunks = 1
  Batch = 2
  Decodes = 1
  MixedRepeats = 2
  Convs = 3
  ConcConvs = 2
  Turns = 2
  Cost = 840
  Bucket = 3
INVARIANTS WaveTotals PhasesApart TurnsExtendHistory WholeUnits
PROPERTIES  AccountsAddUp DriverEnds
