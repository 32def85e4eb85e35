\* More jobs than workers, and a job is left when all workers have failed.
SPECIFICATION FairSpec
CONSTANTS
  JobCount = 4
  Workers = {w1, w2, w3}
  NoJob = NoJob
INVARIANTS
  TypeOK
  Accounting
  CallerNotAbandoned
  SendsNeverBlock
PROPERTIES
  GatherSpec
  CallReturns
  PoolDrains
