SPECIFICATION Spec
CONSTANTS
  k1 = k1  r1 = r1  r2 = r2  w1 = w1  w2 = w2
  Keys = {k1}
  Reports = {r1, r2}
  Writers = {w1, w2}
  Starts = {"db", "s3"}
  Backends = {"db", "s3"}
  Grace = 1
  MaxTime = 3
  MaxDeletes = 1
  MaxDownloads = 1
  Active <- Collected
SYMMETRY MCSymmetry
INVARIANTS
  RefCountMatches
PROPERTIES
  ImplementsPromise
