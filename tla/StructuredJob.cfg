SPECIFICATION Spec
CONSTANTS
  w1 = w1
  w2 = w2
  k1 = k1
  k2 = k2
  j1 = j1
  NoKey = NoKey
  NoJob = NoJob
  Workers = {w1, w2}
  Keys = {k1, k2}
  Jobs = {j1}
  Batches <- MCTwoBatches
  Routes <- MCRoutes
  Deletes = {k1}
  MaxWave = 2
  Cap = 2
  MaxAttempts = 2
  MaxCrashes = 1
SYMMETRY Alike
INVARIANTS PaidOnce LedgerIsTheRecord
 
