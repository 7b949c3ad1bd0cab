CONSTANTS
  Stores = {local, s3, gcs, memory}
SPECIFICATION FairSpec
INVARIANTS TypeOK NoReaderLost MissingNowhere GetInv
PROPERTIES CallEnds
\* Every goroutine and the caller end.
CHECK_DEADLOCK FALSE
