SPECIFICATION Spec
CONSTANTS
  Agent = {a1, a2}
  Creator = a1
  Targets = {a2}
  Call = {k1, k2}
  NoCall = NoCall
  Ops = {"post", "accept", "get"}
  PostedTypes = {"confirm"}
  MaxSeq = 2
SYMMETRY Symmetry
PROPERTY TerminalStateStays
