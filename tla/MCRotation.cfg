SPECIFICATION FairSpec
CONSTANTS
  Conn = {c1, c2}
  MaxHops = 2
  MaxToken = 4
INVARIANT TypeOK
INVARIANT RotationsRecorded
INVARIANT RedirectsStayInGrant
PROPERTY FailuresAreExcused
PROPERTY RequestsEnd
