SPECIFICATION CacheSpec
CONSTANTS
  Ttls <- MCTtls
  Lags <- MCLags
  MaxTime = 14
INVARIANTS NeverServedExpired SkewTolerated
