SPECIFICATION FairSpec
CONSTANTS
  c1 = c1
  c2 = c2
  c3 = c3
  D = D
  E = E
  s1 = s1
  s2 = s2
  x = x
  Conns = {c1, c2, c3}
  TenantOf <- MCTenantOf
  Deployment = D
  Process = Process
  Statements = {s1, s2}
  Short <- MCShort
  SubjectsOf <- MCSubjectsOf
  Subjects = {x}
  Outcomes <- MCOutcomes
  SlowTime = 5
  MinSessions = 2
  MinFailures = 2
  MinSlow = 2
  Callers = {"startup"}
  MaxRuns = 3
  Overlap = 2
  MaxFaults = 1
  None = None
INVARIANTS FixesAreExact NotesHaveReasons
PROPERTY ProvenIsLearned
CHECK_DEADLOCK FALSE
