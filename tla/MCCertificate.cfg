\* Certificates of up to two extensions, lists of up to two entries.
CONSTANTS
  None = None  MalformedDer = MalformedDer
  n1 = n1  n2 = n2  b1 = b1  b2 = b2  p1 = p1  p2 = p2
  OtherExtIds = {otherExt}
  NameValues <- MCNameValues
  KeyUsageBits <- MCKeyUsageBits
  PolicyIds <- MCPolicyIds
  KeyPurposes = {serverAuth}
  AccessLocations = {loc}
  KeyIds = {kid}
  MaxList = 2
  MaxExts = 2
SYMMETRY MCSymmetry
SPECIFICATION Spec
INVARIANTS TypeOK StrictNoAmbiguity SanByTypeConsistent KeyUsageThreeState
