SPECIFICATION FairSpec
CONSTANTS
  None = None
  Threads = {t1, t2}
  Lengths = {l1, l2}
  TooLong = {big}
  MaxCalls = 3
  MaxBytes = 2
  HAVE_LIBPTHREAD = TRUE
INVARIANTS TypeOK NoDataRace
PROPERTIES PublishedTablesAreFinal ImplementsService EveryCallReturns
CHECK_DEADLOCK FALSE
