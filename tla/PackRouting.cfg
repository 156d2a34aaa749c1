SPECIFICATION Spec
CONSTANTS
  s1 = s1
  core = core
  acme = acme
  Sessions = {s1}
  Packs = {core, acme}
  Builtin = core
  None = None
  v1 = v1
  v2 = v2
  v3 = v3
  v4 = v4
  Versions = {v1, v2, v3, v4}
  BuiltinVersion = v1
  Installations <- MCInstallations
  Backends = {"redis", "postgres"}
  LegacyRows <- MCLegacyRows
  FallbackLimit = 2
  Requests <- MCRequests
  Floats <- MCFloats
  Patched <- MCPatched
  MaxPick = 3
  a = a
  b = b
  Slots = {a, b}
  MaxSaves = 2
INVARIANTS RedisReadsAgree DrainedVersionsGetNoCallers
PROPERTIES PinChangesOnlyByUnpinnedRuns RampMovesCallersTowardsTarget
CHECK_DEADLOCK FALSE
SYMMETRY SlotSymmetry
