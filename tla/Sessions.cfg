SPECIFICATION FairSpec
CONSTANTS
  c1 = c1
  alice = alice
  bob = bob
  read = read
  Conns = {c1}
  NoSession = NoSession
  Tokens <- MCTokens
  RequiredScopes = {read}
  ApiKey = ApiKey
  Wrong = Wrong
  Local = Local
  SharedBearer = SharedBearer
  Configs <- MCConfigs
  r1 = r1
  Everyone = Everyone
  Rules = {r1}
  Legacy = {old}
  MaxCalls = 3
  MaxFaults = 1
  None = None
INVARIANTS TypeOK ScopesAreSeparate BriefedOnce RulesAreOwn RecordedIsKept
PROPERTY LegacyIsAdopted
CHECK_DEADLOCK FALSE
