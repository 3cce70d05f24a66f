SPECIFICATION FairSpec
CONSTANTS
  Sessions = {s1, s2}
  HasPostgres = TRUE
  HasRedis = TRUE
  MaxFaults = 2
INVARIANTS TypeOK CacheNeverAhead RecordsHaveASession LiveIsOpen CleanCloseIsSeen
PROPERTY RowsAreClosed
CHECK_DEADLOCK FALSE
