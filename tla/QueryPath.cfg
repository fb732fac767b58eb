SPECIFICATION FairSpec
CONSTANTS
  a = a
  b = b
  u = u
  Own = Own
  Other = Other
  p1 = p1
  p2 = p2
  Definitions <- MCDefinitions
  Missing = Missing
  DataverseOf <- MCDataverseOf
  Rows <- MCRows
  Columnar <- MCColumnar
  Restricting <- MCRestricting
  Principals <- MCPrincipals
  Dataverses <- MCDataverses
  EngineDefault = EngineDefault
  Deployments <- MCDeployments
  Limits = {1, 3}
  OwnLimits = {None, 9}
  SubmitLimit = 4
  MaxRows = 2
  MaxBytes = 3
  MaxField = 4
  FlaggedRows = 1
  FlaggedBytes = 2
  MaxChanges = 1
  MaxFaults = 1
  None = None
INVARIANTS ReadsAreAuthorized PagesAreExact OverflowIsSaved
PROPERTY ReadingEnds
CHECK_DEADLOCK FALSE
