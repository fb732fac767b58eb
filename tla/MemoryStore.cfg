SPECIFICATION Spec
CONSTANTS
  l1 = l1
  l2 = l2
  short = short
  long = long
  split = split
  other = other
  None = None
  Actors = {a1, a2}
  Subjects = {s1}
  Lines = {l1, l2}
  Notes = {long, split}
  Paragraphs <- MCParagraphs
  Lead <- MCLead
  Within <- MCWithin
  Begins <- MCBegins
  Paraphrases <- MCParaphrases
  Elements = {e1}
  Refs <- MCRefs
  Refutable = {l1}
  Fragments <- MCFragments
  Ops = {"write", "query", "walk"}
  MaxFaults = 0
  MaxRows = 3
SYMMETRY MCSymmetry
INVARIANTS TypeOK AnnotationsKept
PROPERTY HistoryKept
CHECK_DEADLOCK FALSE
