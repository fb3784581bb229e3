CONSTANTS
  Hex = 2
  NRoundsF = 4
  NRoundsP = 2
  Chunk = 2
  Two128 = 6
  KeyBits = 10
  Width = 4
  BaseField = 211
  GroupOrder = 13
  HalfBits = 8
  Rounds = 3
  Kinds = {"pair", "root", "bytes", "point", "random", "curve", "sign", "sponge", "cipher", "share", "blake", "call", "account", "search", "error"}
  Names = {n1, n2, n3, n4, n5}
  Values = {1, 2}
  None = None
  Depth = 3
  MaxKeys = 5
SYMMETRY NameSymmetry
SPECIFICATION CoreSpec
INVARIANTS
  FieldExact
  EncodingsRoundTrip
  DigestsAgree
  RandomUniform
  SignaturesSound
  CiphertextBinds
  SharesReachSecret
  WireAgrees
  TreeIsOfClaims
  ClaimsProvable
PROPERTY ImplementsClaims
CHECK_DEADLOCK FALSE
