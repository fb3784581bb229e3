SPECIFICATION MCIssuingSpec
CONSTANTS
  adm = adm
  op = op
  u1 = u1
  u2 = u2
  i1 = i1
  i2 = i2
  k1 = k1
  k2 = k2
  Signers = {adm, op, u1, u2}
  Users = {u1, u2}
  Admins = {adm}
  Services = {}
  PolicyCodes = {}
  Circuits = {}
  Issuers = {i1, i2}
  Trustees = {}
  TrusteeLists = {}
  Thresholds = {}
  RuleSets = {}
  Periods = {}
  Retentions = {}
  Layouts = {}
  VkVersions = {}
  IcLen = 1
  MaxIc = 1
  ZkKeys = {7}
  MaxCount = 1
  Closed = Closed
  None = None
  Mints = {m1, m2}
  SpecCodes = {kyc}
  Workers = {k1, k2}
  KeyOf <- MCKeyOf
  MaxRequests = 2
  MaxCalls = 4
  Fresh = Fresh
  Burnt = Burnt
  Empty = Empty
SYMMETRY Symmetric
CHECK_DEADLOCK FALSE
INVARIANTS IssuingTypeOK AnswerIsWritten WrittenToSubject
PROPERTY KeepsBook
