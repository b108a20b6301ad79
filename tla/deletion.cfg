SPECIFICATION FairSpec
CONSTANTS
  w1 = w1
  Workers <- OneWorker
  BackupWindow = 1
  RecordRetention = 4
  LapsedRetention = 3
  LongestWait = 2
  Days = 5
  MaxFaults = 1
  MaxRestores = 1
INVARIANTS RecordOutlivesBackups NoRecordForHeldData
PROPERTIES ImplementsPromise HeldDataStays AcceptedIsCarriedOut OnlyLapsedPurged
CHECK_DEADLOCK FALSE
