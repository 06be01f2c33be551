CONSTANTS
  Jobs <- MCJobs
  Symbols <- MCSymbols
  Requests <- MCRequests
  Evaluate <- CodeScore
  Demerit <- StandardDemerit
  Reading <- StandardReading
SPECIFICATION Spec
INVARIANTS BestOfTried BuffersKept RefusedOnlyWhenStarved DataRecovered
CHECK_DEADLOCK FALSE
