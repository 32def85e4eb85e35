----------------------------- MODULE MCReports -----------------------------
(***************************************************************************)
(* Reports, the writer of their messages and the details they are made of. *)
(* They share no state and no step: a behaviour is about one of them, and  *)
(* what holds of each alone holds of all.                                  *)
(***************************************************************************)
EXTENDS Reports, ChunkedWriter, Details, TLC

CONSTANTS a1, a2, s1, s2, f1, f2, f3

VARIABLE focus

MCOwner == s1 :> a1 @@ s2 :> a2
Swap == a1 :> a2 @@ a2 :> a1 @@ s1 :> s2 @@ s2 :> s1
Symmetry == Permutations(Requests) \cup {Swap @@ f : f \in Permutations(Requests)}
MCLists == {subs \in SUBSET SubInfo : Cardinality(subs) <= 2}

MCHas == f1 :> {"prompt", "model"} @@ f2 :> {"prompt", "tool"} @@ f3 :> {"artist"}
           @@ Description :> {"prompt"}
MCHuman == f1 :> 2 @@ f2 :> 1 @@ f3 :> 0
Three(x, y, z) == f1 :> x @@ f2 :> y @@ f3 :> z
Said == {<<{}, FALSE, FALSE>>, <<{"generated"}, FALSE, TRUE>>, <<{"id", "human"}, TRUE, TRUE>>}
MCSubmitted ==
  {[keywords |-> t[1], tool |-> t[2], described |-> t[3], files |-> fs] :
     t \in Said,
     fs \in {Three("json", "txt", "txtjson"), Three("txt", "rtf", "badtxt"),
             Three("image", "image", "txtjson"), Three("badjson", "plugin", "rtf"),
             Three("objtxt", "txt", "soph"), Three("badtxt", "objtxt", "json")}}

MCInit ==
  /\ Init
  /\ WriterInit
  /\ DetailsInit
  /\ focus \in {"reports", "writer", "details"}
  /\ focus # "reports" => overwrites = TRUE
  /\ focus # "details" => sub = CHOOSE s \in Submitted : TRUE

MCNext ==
  \/ focus = "reports" /\ Next /\ UNCHANGED <<writerVars, detailVars, focus>>
  \/ focus = "writer" /\ WriterNext /\ UNCHANGED <<reportVars, detailVars, focus>>
  \/ focus = "details" /\ DetailsNext /\ UNCHANGED <<reportVars, writerVars, focus>>

MCSpec == MCInit /\ [][MCNext]_<<reportVars, writerVars, detailVars, focus>>

(* The types of the part that a behaviour is about.                        *)
ReportPartsTypesOK ==
  /\ focus = "reports" => ReportsTypeOK
  /\ focus = "writer" => WriterTypeOK
  /\ focus = "details" => DetailsTypeOK
=============================================================================
