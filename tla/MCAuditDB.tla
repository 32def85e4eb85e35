----------------------------- MODULE MCAuditDB -----------------------------
EXTENDS AuditDB, TLC

(* The members of each set are only told apart by what happens to them.    *)
Symmetry == Permutations(Sessions) \cup Permutations(Submissions) \cup Permutations(Auditors)

=============================================================================
