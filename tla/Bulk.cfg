SPECIFICATION FairSpec
CONSTANTS
  Callers = {c1, c2}
  k1 = k1  k2 = k2  k3 = k3  bad = bad  alien = alien
  Keys <- MCKeys
  Absent = Absent
  Before = Before
  Requests <- MCRequests
  BatchGetLimit = 2
  BatchWriteLimit = 2
  TransactWriteLimit = 2
  MaxRetries = 1
  Malformed <- MCMalformed
  Unregistered <- MCUnregistered
INVARIANTS TypeOK OkMeansServed ChunkPrefix TransactionAtomic OnlyUnprocessedRetried RetryBudget AtomicUpsertsDoNotMix
PROPERTIES ImplementsContract CallsReturn
