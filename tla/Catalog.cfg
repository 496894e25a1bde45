SPECIFICATION Spec
CONSTANTS
  n1 = n1 n2 = n2 t1 = t1 i1 = i1 i2 = i2 h1 = h1 p1 = p1
  u1 = u1 u2 = u2 c1 = c1 c2 = c2 v1 = v1 v2 = v2
  x = x y = y vless = vless trojan = trojan e1 = e1 e2 = e2 e3 = e3
  r1 = r1 r2 = r2
  None = None
  BadName = BadName
  Unset = Unset
  DefaultListLimit = 2
  MaxListLimit = 3
  Clear = Clear
  NodeIds = {n1, n2}
  TemplateIds = {t1}
  InboundIds = {i1, i2}
  HostIds = {h1}
  PlanIds = {p1}
  UserIds = {u1, u2}
  CredentialIds = {c1, c2}
  Values = {v1, v2}
  NoValue = NoValue
  EndpointIds = {e1, e2, e3}
  Names = {x, y}
  Ports = {1, 2}
  Protocols = {vless, trojan}
  Durations = {7}
  NsPerMicro = 2
  MicrosPerDay = 2
  Requests = {r1, r2}
  MaxRequests = 3
  Seeds <- MCSeeds
  NodeBodies <- MCNodeBodies
  TemplateBodies <- MCTemplateBodies
  InboundBodies <- MCInboundBodies
  InboundPatches <- MCInboundPatches
  HostBodies <- MCHostBodies
  PlanBodies <- MCPlanBodies
  UserBodies <- MCUserBodies
  CredentialBodies <- MCCredentialBodies
  CredentialPatches <- MCCredentialPatches
SYMMETRY Twins
CHECK_DEADLOCK FALSE
INVARIANTS
  KeysNameOneRow
  ReferencesResolve
  AnswersAreTrue
  DeletionsAreLogged
