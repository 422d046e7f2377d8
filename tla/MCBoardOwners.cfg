SPECIFICATION Spec
CONSTANTS
  a1 = a1
  a2 = a2
  a3 = a3
  u1 = u1
  u2 = u2
  Agent = {a1, a2, a3}
  Conv = {c1}
  Owner = {u1, u2}
  OwnersOf <- SingleOwner
  DeclaredTypes <- SomeTypes
  PostedTypes = {"counter_proposal", "note"}
  OpenedTypes = {"open", "internal", "asymmetric"}
  Suspendable = {}
  Readers = {}
  MaxStarts = 2
  MaxMessages = 9
  MaxSeq = 2
  MaxAged = 0
INVARIANT AdmissionHolds
INVARIANT NotesStayInside
PROPERTY NewMessagesAreAdmissible
