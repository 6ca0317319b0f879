SPECIFICATION MaintainSpec
CONSTANTS
  k1 = k1  r1 = r1  r2 = r2  w1 = w1  w2 = w2
  Keys = {k1}
  Reports = {r1}
  Writers = {w1}
  Starts = {"s3"}
  Backends = {"s3"}
  Grace = 1
  MaxTime = 3
  MaxDeletes = 1
  MaxDownloads = 0
  Active <- Maintained
PROPERTIES
  OrphanIsCollected
  StrayContentIsSwept
  LossIsReported
