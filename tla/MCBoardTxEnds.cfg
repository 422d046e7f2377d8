SPECIFICATION FairSpec
CONSTANTS
  Agent = {a1, a2}
  Creator = a1
  Targets = {a2}
  Call = {k1, k2}
  NoCall = NoCall
  Ops = {"post", "accept", "get", "inbox"}
  PostedTypes = {"counter_proposal"}
  MaxSeq = 2
INVARIANT ReadsNeedConsent
INVARIANT InboxAgrees
PROPERTY CallsEnd
