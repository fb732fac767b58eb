SPECIFICATION FairLockSpec
CONSTANTS
  Nobody = Nobody
  Processes = {p1, p2, p3}
INVARIANT RunnersHoldTheFile
PROPERTY LeakIsBroken
