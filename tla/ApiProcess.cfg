SPECIFICATION Spec
CONSTANTS
  ann = ann
  bob = bob
  client = client
  gateway = gateway
  Keys = {ann, bob}
  Configs <- MCConfigs
  Slots = {s1, s2, s3}
  s1 = s1
  s2 = s2
  s3 = s3
  Shapes <- MCShapes
  MaxRequests = 2
  Peers = {client, gateway}
  TrustProxy = TRUE
  Proxies = {gateway}
  MaxBody = 1
  None = None
INVARIANTS
  DurableUnlessDevelopment
  ProductionAuthenticates
  TenantBudgetIsolated
SYMMETRY SlotSymmetry
CHECK_DEADLOCK FALSE
