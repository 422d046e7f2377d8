SPECIFICATION Spec
CONSTANTS
  Character = {":", "@", "a", "b"}
  Client = {k1, k2}
  Caller <- Callers
  Starters <- Persons
  Conv = {1, 2, 3}
  StartedTypes = {"internal"}
  MaxStarts = 1
  Hour = 1
  MaxClock = 1
  Lifetimes = {1}
  Suspendable <- AgentSubs
  Touched = {2}
  Leavers <- AgentSubs
  Walkers = {k1}
  Readers <- AgentSubs
  Filters = {"any", "active", "expired"}
  Limits = {0, 5}
  PageCap = 2
INVARIANT TypeOK
INVARIANT StartOvershootBounded
INVARIANT AdmittedStayAdmitted
INVARIANT OneCallerPerAgent
INVARIANT EmailAgentsAreInteractive
INVARIANT WalksMissNothing
INVARIANT RowsComeOnce
INVARIANT TotalCoversPages
INVARIANT FiltersAgreeWithDisplay
PROPERTY LiftsAreDeliberate
