SPECIFICATION FairSpec
CONSTANTS
  Batch = 5
  MaxJobs = 16
INVARIANTS
  NoLostWakeup
PROPERTIES
  BatchSafe
  BatchLive
  ProducerGoesOn
CHECK_DEADLOCK FALSE
