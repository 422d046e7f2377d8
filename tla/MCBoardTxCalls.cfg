SPECIFICATION Spec
CONSTANTS
  Agent = {a1, a2, a3}
  Creator = a1
  Targets = {a2}
  Call = {k1, k2}
  NoCall = NoCall
  Ops = {"post", "accept", "decline_invite", "leave", "invite"}
  PostedTypes = {"confirm", "decline"}
  MaxSeq = 3
SYMMETRY Symmetry
INVARIANT TypeOK
INVARIANT SeqsGapless
INVARIANT PostDecidesOnFreshReads
PROPERTY ClosedForGood
