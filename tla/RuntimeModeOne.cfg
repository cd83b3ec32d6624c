SPECIFICATION Spec
CONSTANTS
  Procs = {p1}
  Repos = {r1}
  NullRepo = NullRepo
  AnyRepo = AnyRepo
  TargetModes = {"evolve", "quarantine", "halted"}
  Cooldowns = {d1}
  NoCooldown = NoCooldown
  KeepCooldown = KeepCooldown
  NoRow = NoRow
  Window = 1
  MaxNow = 2
  MaxSignals = 2
  MaxEvents = 3
INVARIANTS AuditTrailIsAChain
PROPERTIES ImplementsStopLatch RepeatedSignalsCloseTheLane
