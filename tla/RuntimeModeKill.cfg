SPECIFICATION Spec
CONSTANTS
  Procs = {p1, p2}
  Repos = {}
  NullRepo = NullRepo
  AnyRepo = AnyRepo
  TargetModes = {"evolve"}
  Cooldowns = {}
  NoCooldown = NoCooldown
  KeepCooldown = KeepCooldown
  NoRow = NoRow
  Window = 1
  MaxNow = 0
  MaxSignals = 2
  MaxEvents = 3
PROPERTY RestoreIsNotAutomatic
SYMMETRY ProcSymmetry
