SPECIFICATION Spec
CONSTANTS
  a1 = a1
  a2 = a2
  a3 = a3
  u1 = u1
  u2 = u2
  Agent = {a1, a2, a3}
  Conv = {c1}
  Owner = {u1, u2}
  OwnersOf <- SharedOwner
  DeclaredTypes <- AllTypes
  PostedTypes = {"counter_proposal", "note"}
  OpenedTypes = {"internal", "asymmetric"}
  Suspendable = {}
  Readers = {}
  MaxStarts = 2
  MaxMessages = 1
  MaxSeq = 2
  MaxAged = 1
INVARIANT OwnerSetFrozen
INVARIANT MessageLimitHolds
PROPERTY NewMessagesAreAdmissible
