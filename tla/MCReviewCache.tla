--------------------------- MODULE MCReviewCache ---------------------------
EXTENDS ReviewCache

MCLists == {<<1>>, <<1, 2>>}

MCResults == {<<1, 2>>}

(* Requests are only told apart by what they ask for.                      *)
Symmetry == Permutations(Requests)

=============================================================================
