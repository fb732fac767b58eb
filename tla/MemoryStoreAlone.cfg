SPECIFICATION Spec
CONSTANTS
  l1 = l1
  l2 = l2
  short = short
  long = long
  split = split
  other = other
  None = None
  Actors = {a1}
  Subjects = {s1}
  Lines = {l1, l2}
  Notes = {short, long, split, other}
  Paragraphs <- MCParagraphs
  Lead <- MCLead
  Within <- MCWithin
  Begins <- MCBegins
  Paraphrases <- MCParaphrases
  Elements = {e1}
  Refs <- MCRefs
  Refutable = {}
  Fragments <- MCFragments
  Ops = {"write", "query", "sample", "decay", "revalidate", "walk"}
  MaxFaults = 1
  MaxRows = 3
SYMMETRY MCSymmetry
INVARIANTS AtMostOneCurrent AnnotationsKept OverlayHasEvidence
CHECK_DEADLOCK FALSE
