SPECIFICATION CountersSpec
CONSTANTS
  adm = adm
  sp = sp
  u1 = u1
  u2 = u2
  t1 = t1
  t2 = t2
  kyc = kyc
  age = age
  v1 = v1
  v2 = v2
  Signers = {adm, sp}
  Users = {adm, sp}
  Admins = {adm}
  Services = {s1}
  PolicyCodes = {kyc, age}
  Circuits = {c1}
  Issuers = {i1}
  Trustees = {t1, t2}
  TrusteeLists <- MCThreeLists
  Thresholds = {2}
  RuleSets <- MCOneRuleSet
  Periods = {2}
  Retentions = {3}
  Layouts <- MCLayouts
  VkVersions = {v1}
  IcLen = 2
  MaxIc = 2
  ZkKeys = {7}
  MaxCount = 3
  Closed = Closed
  None = None
  Chunks = {}
  Proofs = {}
  ExpiresIn = {0}
  MaxPublicInputs = 4
  ProofSlots = 1
  Threshold = 1
  VerifyOnChain = TRUE
  MaxTime = 1
INVARIANTS RegistryTypeOK PolicyCountExact IdentifiersUnique
