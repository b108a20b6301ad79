SPECIFICATION Spec
CONSTANTS
  w1 = w1
  Workers <- OneWorker
  BackupWindow = 1
  RecordRetention = 3
  LapsedRetention = 9
  LongestWait = 5
  Days = 7
  MaxFaults = 0
  MaxRestores = 1
PROPERTIES ErasedStaysErased
CHECK_DEADLOCK FALSE
