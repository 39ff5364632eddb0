SPECIFICATION MonitorSpec
CONSTANTS
  SeqLens <- MCSeqLens
  Usable = 10
  Fixed = 4
  PerToken = 1
  MostBatch = 2
  Overshoot = 1
  QueueLimit = 2
  Conc = 3
  Waves = 2
  Slots = 1
  Resent = 1
INVARIANTS RampReportsWhatHappened FirstWaitIsFirst
PROPERTIES AlertsApart DriverEnds
