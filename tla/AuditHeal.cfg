\* A read that stores the id of an audit erases the files.
SPECIFICATION Spec
CONSTANTS
  Sessions = {p1, p2}
  Submissions = {s1}
  Auditors = {a1}
  Null = Null
  Error = Error
  NoCall = NoCall
PROPERTIES
  ReadsOnlyLink
