SPECIFICATION MCSpec
CONSTANTS
  a1 = a1
  a2 = a2
  s1 = s1
  s2 = s2
  Artists = {a1, a2}
  Submissions = {s1, s2}
  Owner <- MCOwner
  Labels = {l1}
  Tags = {"no", "tagged"}
  Lists <- MCLists
  Requests = {p1, p2}
  MaxDay = 2
  MaxReports = 2
  Other = Other
  None = None
  NotFound = NotFound
  SplitSize = 4
  MaxWritten = 7
  f1 = f1
  f2 = f2
  f3 = f3
  Files = {f1, f2, f3}
  Description = Description
  Has <- MCHas
  Human <- MCHuman
  Submitted <- MCSubmitted
  MaxRuns = 2
  NoMeta = NoMeta
SYMMETRY Symmetry
INVARIANTS   CountsAgree WriterSafe ObjectsKept LabelsAgree
CHECK_DEADLOCK FALSE
