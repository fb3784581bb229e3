SPECIFICATION ProvingSpec
CONSTANTS
  adm = adm
  sp = sp
  u1 = u1
  u2 = u2
  kyc = kyc
  age = age
  v1 = v1
  v2 = v2
  Signers = {adm, sp, u1}
  Users = {u1}
  Admins = {adm}
  Services = {s1}
  PolicyCodes = {kyc}
  Circuits = {c1}
  Issuers = {i1}
  Trustees = {}
  TrusteeLists <- MCTrusteeLists
  Thresholds = {2}
  RuleSets <- MCRuleSets
  Periods = {0, 2}
  Retentions = {3}
  Layouts <- MCLayouts
  VkVersions = {v1, v2}
  IcLen = 5
  MaxIc = 5
  ZkKeys = {7}
  MaxCount = 2
  Closed = Closed
  None = None
  Chunks <- MCChunks
  Proofs <- MCProofs
  ExpiresIn = {0}
  MaxPublicInputs = 6
  ProofSlots = 0
  Threshold = 1
  VerifyOnChain = TRUE
  MaxTime = 3
INVARIANTS TypeOK CertificateHoldsProof BoundInputs ExpiryWithinCredential TimesOrdered
PROPERTY ExpiryOnlyShrinks
