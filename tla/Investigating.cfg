SPECIFICATION DeployedSpec
CONSTANTS
  adm = adm
  sp = sp
  ta = ta
  t1 = t1
  t2 = t2
  t3 = t3
  e1 = e1
  e2 = e2
  Signers = {adm, sp, ta, u1, iv}
  Users = {u1}
  Investigators = {iv}
  EncryptionKeys = {e1, e2}
  HandMade <- MCHandMade
  Admins = {adm}
  Services = {s1}
  PolicyCodes = {}
  Circuits = {}
  Issuers = {}
  Trustees = {t1, t2}
  TrusteeLists <- EitherOrder
  Thresholds = {2}
  RuleSets = {}
  Periods = {}
  Retentions = {}
  Layouts = {}
  VkVersions = {}
  IcLen = 1
  MaxIc = 1
  ZkKeys = {}
  MaxCount = 1
  Closed = Closed
  None = None
  ShamirN = 2
  ShamirK = 2
  MaxGen = 2
  MaxSent = 1
  MaxEach = 1
  Late = TRUE
INVARIANTS TypeOK RevealedCountExact SharesOfOneProofDecrypt CalmSharesFit
PROPERTY RevealedShareIsFinal
