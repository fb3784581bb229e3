CONSTANTS
  None = None
  Error = Error
  UrlPairs = {"fresh"}
  Pairs = {p1, p2}
  Addresses = {a1, a2}
  ClaimSets <- MCClaimSets
  Types <- MCTypes
  Untils = {0}
  Challenges = {c1}
  MaxIssued = 1
  MaxEdits = 1
  MaxRegistrations = 2
SYMMETRY MCSymmetry
SPECIFICATION Spec
INVARIANTS
  OnlyAuthentic
  HonestAccepted
  OnlyPartiesOpen
