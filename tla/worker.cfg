CONSTANTS
  t1 = t1
  t2 = t2
  Tasks = {t1, t2}
  NumWorkers = 2
  IdleAfter = 2
SPECIFICATION FairSpec
INVARIANT TypeOK
INVARIANT TasksDrained
INVARIANT OldScrapeIgnored
PROPERTY IdleWindowHonoured
PROPERTY ShutdownCompletes
PROPERTY IdleWorkerExits
CHECK_DEADLOCK FALSE
