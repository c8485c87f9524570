\* One poll interval of 1 s; the longest cycle, 1 + 2 + 3 * 2 = 9 s, is just
\* below the window of 10 s.
CONSTANTS
  Poll = 1
  BatchSize = 3
  QueryTime = 1
  RowTime = 2
SPECIFICATION FairSpec
INVARIANTS
  TypeOK
  StuckLoopFailsProbe
  NoFalseAlarm
PROPERTY RecoversByItself
