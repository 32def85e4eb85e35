\* The second of two reviews of one submission.
SPECIFICATION Spec
CONSTANTS
  Requests = {r1, r2}
  Lists <- MCLists
  Results <- MCResults
  Outputs = {"single_ticket", "multiple_tickets", "submissions"}
  Absent = Absent
  NoCall = NoCall
  NoAnswer = NoAnswer
INVARIANTS
  OutputAsDocumented
