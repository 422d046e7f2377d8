SPECIFICATION Spec
CONSTANTS
  a1 = a1
  a2 = a2
  a3 = a3
  u1 = u1
  u2 = u2
  Agent = {a1, a2, a3}
  Conv = {c1}
  Owner = {u1, u2}
  OwnersOf <- OneOwner
  DeclaredTypes <- AllTypes
  PostedTypes = {"counter_proposal", "confirm", "decline"}
  OpenedTypes = {"open"}
  Suspendable = {a2}
  Readers = {a2}
  MaxStarts = 2
  MaxMessages = 9
  MaxSeq = 2
  MaxAged = 0
INVARIANT ConsentBeforeContent
PROPERTY MembershipMovesForward
 
PROPERTY TransitionsAudited
