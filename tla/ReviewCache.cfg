\* A list of one id, whose two keys are the same, and one of two ids that
\* shares a submission with it.
SPECIFICATION Spec
CONSTANTS
  Requests = {r1, r2}
  Lists <- MCLists
  Results <- MCResults
  Outputs = {"single_ticket", "multiple_tickets", "submissions", "report"}
  Absent = Absent
  NoCall = NoCall
  NoAnswer = NoAnswer
SYMMETRY Symmetry
INVARIANTS
  TypeOK
  OnlyAsked
  NothingDropped
  ListsAsDocumented
