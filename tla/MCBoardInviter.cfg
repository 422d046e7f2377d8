SPECIFICATION Spec
CONSTANTS
  a1 = a1
  a2 = a2
  a3 = a3
  u1 = u1
  u2 = u2
  Agent = {a1, a2, a3}
  Conv = {c1}
  Owner = {u1, u2}
  OwnersOf <- OneOwner
  DeclaredTypes <- AllTypes
  PostedTypes = {"counter_proposal"}
  OpenedTypes = {"open"}
  Suspendable = {a1}
  Readers = {}
  MaxStarts = 2
  MaxMessages = 9
  MaxSeq = 1
  MaxAged = 0
PROPERTY InvitersAreActive
