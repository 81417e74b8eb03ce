SPECIFICATION HistorySpec
CONSTANTS
  t1 = t1
  t2 = t2
  t3 = t3
  t4 = t4
  Tx = {t1, t2, t3, t4}
  Mined <- RestoreMined
  Pays <- RestorePays
  Gap = 2
  Spare = 1
  Batch = 2
  Margin = 2
  Begin = 0
  Tip = 2
  Announced = {t3}
  MaxSessions = 1
INVARIANTS
  TypeOK
  FoundUnlessOvertaken
PROPERTIES
  SyncEnds
CHECK_DEADLOCK FALSE
