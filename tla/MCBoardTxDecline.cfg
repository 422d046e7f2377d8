SPECIFICATION Spec
CONSTANTS
  Agent = {a1, a2}
  Creator = a1
  Targets = {a2}
  Call = {k1, k2}
  NoCall = NoCall
  Ops = {"accept", "decline_invite"}
  PostedTypes = {}
  MaxSeq = 1
SYMMETRY Symmetry
PROPERTY DeclineIsFinal
