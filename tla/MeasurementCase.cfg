SPECIFICATION Spec
CONSTANTS
  Callers = {"c1", "c2"}
  MaxCalls = 3
  Users = {1, 2, 3}
  GraphRequests <- MCGraphRequests
  NoRequest = NoRequest
  MaxCopies = 2
  MaxDegrees = 2
  Items <- MCItems
  Writers <- MCWriters
  InitialItems <- MCInitialItems
  Queries <- MCQueries
  Clients = {"c1", "c2"}
  Identity <- MCIdentity
  NewUser <- MCNewUser
  Absent = Absent
  MaxWrites = 1
  Conns <- MCConns
  Goroutines = {"g1"}
  MaxCloses = 2
  SecretRequests <- MCSecretRequests
  Names = {"points", "Points"}
  Fold <- MCFold
  MeasurementRequests <- MCMeasurementRequests
  Interval = 2
  Times = {0, 2, 3, 5}
  NoTag = "no tag"
  VectorRequests <- MCVectorRequests
  LegacyTimes = {2}
  LegacyPayload <- MCLegacyPayload
  None = None
  NoCollection = NoCollection
  DefaultLimit = 2
  Waiters = {"w1", "w2", "w3"}
  Limits = {1, 2}
  MaxTime = 2
CHECK_DEADLOCK FALSE
INVARIANT CreatesAHypertable
