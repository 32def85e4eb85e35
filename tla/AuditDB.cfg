\* Two calls at a time on two submissions.
SPECIFICATION Spec
CONSTANTS
  Sessions = {p1, p2}
  Submissions = {s1, s2}
  Auditors = {a1, a2}
  Null = Null
  Error = Error
  NoCall = NoCall
SYMMETRY Symmetry
INVARIANTS
  TypeOK
  LinkSound
  StaysLinked
PROPERTIES
  AcknowledgedSeen
