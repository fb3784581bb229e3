SPECIFICATION SessionsSpec
CONSTANTS
  adm = adm
  user = user
  phone = phone
  laptop = laptop
  desk = desk
  kyc = kyc
  k1 = k1
  v1 = v1
  v2 = v2
  t1 = t1
  i1 = i1
  Signers = {adm, user}
  Users = {user}
  Admins = {adm}
  Services = {s1}
  PolicyCodes = {kyc}
  Circuits = {k1}
  Issuers = {i1}
  Trustees = {t1}
  TrusteeLists <- MCTrusteeLists
  Thresholds = {2}
  RuleSets <- MCRuleSets
  Periods = {0, 2}
  Retentions = {0}
  Layouts <- MCLayouts
  VkVersions = {v1, v2}
  IcLen = 6
  MaxIc = 12
  ZkKeys = {7}
  MaxCount = 2
  Closed = Closed
  None = None
  Chunks = {}
  Proofs = {}
  ExpiresIn = {0}
  MaxPublicInputs = 6
  ProofSlots = 1
  Threshold = 1
  VerifyOnChain = TRUE
  MaxTime = 3
  IcFirst = 3
  IcChunk = 2
  DefaultThreshold = 2
  OwnKey <- MCOwnKey
  Clients = {phone, laptop, desk}
  Wallet <- MCWallet
  Credentials <- MCCredentials
  ArraySize <- MCArraySize
  WithProof = 2
  WithoutProof = 2
  TrusteeSize = 1
  MaxCalls = 3
CHECK_DEADLOCK FALSE
INVARIANTS UndisturbedProves ProvenAsBuilt KeyUploaded VerdictFits
