CONSTANTS
  Jobs <- MCJobs
  Symbols <- MCSymbols
  Requests <- MCRequests
  Evaluate <- CodeScore
  Demerit <- StandardDemerit
  Reading <- StandardReading
SPECIFICATION Spec
INVARIANT DataRecovered
CHECK_DEADLOCK FALSE
