SPECIFICATION FairSpec
CONSTANTS
  Servers = {s1, s2}
  Workers = {w1, w2}
  Deliveries = {1, 2}
  Hashes = {"first", "second"}
  Sent <- MCSent
  NoHash = NoHash
  Nobody = Nobody
  LeaseTicks = 1
  RetryDelays = {1}
  Crashing = {s1, w1}
  Sweeping = "orphans"
  MaxNow = 0
  MaxCount = 0
INVARIANTS ForwardedAtMostOnce ClaimIsExclusive
PROPERTIES ImplementsLedger EveryDeliverySettles
