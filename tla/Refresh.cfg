SPECIFICATION FairSpec
CONSTANTS
  p1 = p1
  p2 = p2
  x = x
  y = y
  z = z
  All = All
  D = D
  e = e
  c = c
  d = d
  q1 = q1
  q2 = q2
  Subjects = {x, y, z}
  Concepts = {x, y}
  Scopes <- MCScopes
  Elements = {e}
  Claims = {c, d}
  Refs <- MCRefs
  Queries = {q1, q2}
  Lessons <- MCLessons
  Tenants = {p1, p2}
  Shared = Shared
  Mode <- MCMode
  OldCatalogs <- MCOldCatalogs
  OldRows <- MCOldRows
  MaxChanges = 1
  MaxNotes = 1
  MaxFaults = 1
  None = None
INVARIANT LearnedKept
PROPERTIES OthersRowsKept StoreSettles
CHECK_DEADLOCK FALSE
