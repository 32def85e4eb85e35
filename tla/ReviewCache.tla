---------------------------- MODULE ReviewCache ----------------------------
(***************************************************************************)
(* GetReviewHandler and GetReportHandler (pkg/api/get.go) and the cache    *)
(* they share: RetrieveReview and StoreReview (service/review.go),         *)
(* ProcessResponse and setCache (service/detail.go), and for a review of   *)
(* what a search finds RetrieveReviewSearch and StoreSearchReview          *)
(* (service/search.go).                                                    *)
(*                                                                         *)
(* A review of several submissions is cached as a whole under the list of  *)
(* their ids, by StoreReview; each submission of it is cached by itself    *)
(* under its id, by a goroutine that runs setCache.  Both keys have the    *)
(* form review:<output>:<ids>?<query>, so for a list of one id they are    *)
(* the same key, with two kinds of values.                                 *)
(*                                                                         *)
(* The review of a search is cached under the RID and the page of its      *)
(* result.  These stay the same ids at the remote end, so a list of ids    *)
(* stands for them.                                                        *)
(*                                                                         *)
(* Keys of different outputs or queries never meet, so a behaviour is      *)
(* about one of each.  A Detail is abstracted to the id it is for and to   *)
(* whether its Ticket is there.                                            *)
(***************************************************************************)
EXTENDS Integers, Sequences, SequencesExt

CONSTANTS
  Requests,   \* goroutines that run a handler, one call at a time
  Lists,      \* the lists of ids that are asked for
  Results,    \* those that a search may find
  Outputs,    \* those reviewed; "submissions" stands for "full" and "badges"
  Absent, NoCall, NoAnswer

Ids == UNION {ToSet(l) : l \in Lists}

(* setCache's keys are those of lists with one id.                         *)
Keys == Lists \cup {<<i>> : i \in Ids}

Detail == [id : Ids, ticket : BOOLEAN]

(***************************************************************************)
(* A value in JSON: one Detail or an array of them, one db.Ticket or an    *)
(* array of them, or a report, with the submissions it is about.            *)
(***************************************************************************)
Shapes == {"detail", "details", "ticket", "tickets", "report"}

VARIABLES
  output,      \* the output all requests of this behaviour ask for
  cached,      \* what the cache holds
  searches,    \* the reviews of searches it holds
  pc,          \* where each request is
  call,        \* what each request asks for
  todo,        \* ids the request has not looked up yet
  processed,   \* details found in the cache
  missed,      \* ids not found there
  writes,      \* goroutines of ProcessResponse that have not called Set
  answer,      \* what the request answered
  withheld     \* history: ids the remote end has left out of an answer

lookup == <<todo, processed, missed>>
vars == <<output, cached, searches, pc, call, lookup, writes, answer, withheld>>

Stages == {"idle", "whole", "lookup", "fetch", "store", "done", "search", "save"}

(***************************************************************************)
(* A review of ids that are listed or of those a search finds, or a call   *)
(* of GetReportHandler, which reads badges.  A report of a search is what  *)
(* the output report_ids gives.                                            *)
(***************************************************************************)
Kinds == {"review", "search", "report"}
Call == [ids : Lists, kind : Kinds]

Values == [shape : Shapes \cup {"error", "notFound", "panic"}, details : Seq(Detail)]

(* A list has an id.  A search that finds nothing is answered 404.         *)
ASSUME ReviewAssumption ==
  /\ \A l \in Lists : l \in Seq(ToSet(l)) /\ l # <<>>
  /\ Results \subseteq Lists
  /\ Outputs \subseteq {"single_ticket", "multiple_tickets", "submissions", "report"}
  /\ Absent \notin Values
  /\ NoAnswer \notin Values
  /\ NoCall \notin Call

Init ==
  /\ output \in Outputs
  /\ cached = [k \in Keys |-> Absent]
  /\ searches = [l \in Results |-> Absent]
  /\ pc = [r \in Requests |-> "idle"]
  /\ call = [r \in Requests |-> NoCall]
  /\ todo = [r \in Requests |-> <<>>]
  /\ processed = [r \in Requests |-> <<>>]
  /\ missed = [r \in Requests |-> <<>>]
  /\ writes = {}
  /\ answer = [r \in Requests |-> NoAnswer]
  /\ withheld = {}

-----------------------------------------------------------------------------
Value(shape, details) == [shape |-> shape, details |-> details]

(***************************************************************************)
(* Cache.Set and Cache.Get of either cache.  Set of Redis overwrites or    *)
(* fails, that of a LocalCache keeps the value that is there if it was not *)
(* evicted before.  Get fails, or the item is lost: then it is a miss.     *)
(***************************************************************************)
Put(store, k, value) == {store, [store EXCEPT ![k] = value]}

Get(store, k) == {Absent, store[k]}

(* The request sends its answer; its other locals are not used any more.   *)
Answer(r, value, stage) ==
  /\ answer' = [answer EXCEPT ![r] = value]
  /\ pc' = [pc EXCEPT ![r] = stage]
  /\ todo' = [todo EXCEPT ![r] = <<>>]
  /\ processed' = [processed EXCEPT ![r] = <<>>]
  /\ missed' = [missed EXCEPT ![r] = <<>>]

(***************************************************************************)
(* The body a review of these details has.  Tickets are made from the      *)
(* Ticket of every Detail, and it is a nil pointer that is followed when   *)
(* one has none.                                                           *)
(***************************************************************************)
ReviewShape == [single_ticket |-> "ticket", multiple_tickets |-> "tickets",
                submissions |-> "details", report |-> "report"]

Review(details) ==
  IF output \in {"single_ticket", "multiple_tickets"}
     /\ \E i \in DOMAIN details : ~details[i].ticket
  THEN Value("panic", <<>>)
  ELSE Value(ReviewShape[output], details)

-----------------------------------------------------------------------------
(* The review as a whole is not looked up when it is a report.             *)
Lookup(kind) == IF kind = "report" \/ output = "report" THEN "lookup" ELSE "whole"

(***************************************************************************)
(* A request for a review, or for the report of an artist.  A search may   *)
(* name the RID of an earlier one.  Nothing is looked up when              *)
(* Cache-Control is no-cache (nc).                                         *)
(***************************************************************************)
Arrive(r, ids, nc, kind) ==
  /\ pc[r] = "idle"
  /\ kind = "report" => output = "submissions"
  /\ kind = "search" => ids \in Results
  /\ call' = [call EXCEPT ![r] = [ids |-> ids, kind |-> kind]]
  /\ IF nc THEN pc' = [pc EXCEPT ![r] = "fetch"]
     ELSE \/ pc' = [pc EXCEPT ![r] = Lookup(kind)]
          \/ kind = "search" /\ pc' = [pc EXCEPT ![r] = "search"]
  /\ todo' = [todo EXCEPT ![r] = IF nc THEN <<>> ELSE ids]
  /\ missed' = [missed EXCEPT ![r] = IF nc THEN ids ELSE <<>>]
  /\ UNCHANGED <<output, cached, searches, processed, writes, answer, withheld>>

(***************************************************************************)
(* RetrieveReviewSearch: the review that is kept under the RID is sent as  *)
(* it is; otherwise the remote end searches, which may fail.               *)
(***************************************************************************)
LookupSearch(r) ==
  /\ pc[r] = "search"
  /\ \E value \in Get(searches, call[r].ids) :
       IF value # Absent
       THEN Answer(r, value, "done")
       ELSE \/ pc' = [pc EXCEPT ![r] = Lookup("search")] /\ UNCHANGED <<answer, lookup>>
            \/ Answer(r, Value("error", <<>>), "done")
  /\ UNCHANGED <<output, cached, searches, call, writes, withheld>>

(* A review that was made is stored for the next search with its RID.      *)
Sent(r, review) ==
  IF call[r].kind = "search" /\ review.shape # "panic" THEN "save" ELSE "done"

(* RetrieveReview: what is under the key of the list is sent as it is.     *)
LookupWhole(r) ==
  /\ pc[r] = "whole"
  /\ \E value \in Get(cached, call[r].ids) :
       IF value # Absent
       THEN Answer(r, value, Sent(r, value))
       ELSE pc' = [pc EXCEPT ![r] = "lookup"] /\ UNCHANGED <<answer, lookup>>
  /\ UNCHANGED <<output, cached, searches, call, writes, withheld>>

(***************************************************************************)
(* The value under the key of one id, read as a Detail.  RetrieveReview    *)
(* trims the brackets of an array, GetReportHandler does not.  A db.Ticket *)
(* is read without an error, but shares only its id with a Detail.         *)
(***************************************************************************)
Decodes(r, value) == ~(call[r].kind = "report" /\ value.shape \in {"details", "tickets"})

Decode(value) ==
  [id |-> value.details[1].id,
   ticket |-> value.details[1].ticket /\ value.shape \in {"detail", "details"}]

LookupOne(r) ==
  /\ pc[r] = "lookup"
  /\ todo[r] # <<>>
  /\ \E value \in Get(cached, <<Head(todo[r])>>) :
       IF value # Absent /\ ~Decodes(r, value)
       THEN Answer(r, Value("error", <<>>), "done")
       ELSE /\ todo' = [todo EXCEPT ![r] = Tail(@)]
            /\ IF value = Absent
               THEN missed' = [missed EXCEPT ![r] = Append(@, Head(todo[r]))]
                    /\ UNCHANGED processed
               ELSE processed' = [processed EXCEPT ![r] = Append(@, Decode(value))]
                    /\ UNCHANGED missed
            /\ UNCHANGED <<pc, answer>>
  /\ UNCHANGED <<output, cached, searches, call, writes, withheld>>

(* Mutant: the cached details are never combined.                          *)
EndLookupDetails(r) ==
  /\ pc[r] = "lookup"
  /\ todo[r] = <<>>
  /\ IF missed[r] # <<>>
     THEN pc' = [pc EXCEPT ![r] = "fetch"] /\ UNCHANGED <<answer, lookup>>
     ELSE Answer(r, Value("details", processed[r]), "done")
  /\ UNCHANGED <<output, cached, searches, call, writes, withheld>>

(***************************************************************************)
(* All ids are looked up: if some were missed they are fetched.  Otherwise *)
(* the review is made of the cached details and not stored under its list; *)
(* it is an array of details also when the output is multiple_tickets.     *)
(***************************************************************************)
EndLookup(r) ==
  LET review == IF call[r].kind = "report" THEN Value("report", processed[r])
                ELSE IF output = "multiple_tickets" THEN Value("details", processed[r])
                ELSE Review(processed[r])
  IN  /\ pc[r] = "lookup"
      /\ todo[r] = <<>>
      /\ IF missed[r] # <<>>
         THEN pc' = [pc EXCEPT ![r] = "fetch"] /\ UNCHANGED <<answer, lookup>>
         ELSE Answer(r, review, Sent(r, review))
      /\ UNCHANGED <<output, cached, searches, call, writes, withheld>>

(* Mutant: a failure is stored like a review.                              *)
FetchFailureStored(r) ==
  /\ pc[r] = "fetch"
  /\ Answer(r, Value("error", <<>>), "store")
  /\ UNCHANGED <<output, cached, searches, call, writes, withheld>>

(* RetrieveSubmission fails, or finds none of the submissions.             *)
FetchFails(r) ==
  /\ pc[r] = "fetch"
  /\ \/ Answer(r, Value("error", <<>>), "done") /\ UNCHANGED withheld
     \/ /\ Answer(r, Value("notFound", <<>>), "done")
        /\ withheld' = withheld \cup ToSet(missed[r])
  /\ UNCHANGED <<output, cached, searches, call, writes>>

(***************************************************************************)
(* What the remote end may return: a part of the list.  The goroutines of  *)
(* ProcessResponse finish in any order; no property tells the orders       *)
(* apart.                                                                  *)
(***************************************************************************)
Parts(ids) ==
  UNION {{[i \in 1..n |-> ids[at[i]]] :
            at \in {f \in [1..n -> DOMAIN ids] : \A i, j \in 1..n : i < j => f[i] < f[j]}} :
         n \in DOMAIN ids}

(* Neither a report nor the review of a search is stored by StoreReview.   *)
Fetched(r, review) ==
  IF call[r].kind = "search" \/ review.shape \in {"panic", "report"}
  THEN Sent(r, review) ELSE "store"

(* Mutant: the details found in the cache are left out.                    *)
FetchAlone(r, found) ==
  LET details == [i \in DOMAIN found |-> [id |-> found[i], ticket |-> TRUE]]
      review == IF call[r].kind = "report" THEN Value("report", details) ELSE Review(details)
  IN  /\ pc[r] = "fetch"
      /\ writes' = writes \cup ToSet(details)
      /\ withheld' = withheld \cup (ToSet(missed[r]) \ ToSet(found))
      /\ Answer(r, review, Fetched(r, review))
      /\ UNCHANGED <<output, cached, searches, call>>

(***************************************************************************)
(* The remote end returns some of the submissions that were missed.        *)
(* ProcessResponse makes a Detail of each and starts setCache for it, the  *)
(* handler puts them behind those found in the cache and answers.  A       *)
(* review, but not a report, is stored when the handler returns.           *)
(***************************************************************************)
Fetch(r, found) ==
  LET fetched == [i \in DOMAIN found |-> [id |-> found[i], ticket |-> TRUE]]
      details == processed[r] \o fetched
      review == IF call[r].kind = "report" THEN Value("report", details) ELSE Review(details)
  IN  /\ pc[r] = "fetch"
      /\ writes' = writes \cup ToSet(fetched)
      /\ withheld' = withheld \cup (ToSet(missed[r]) \ ToSet(found))
      /\ Answer(r, review, Fetched(r, review))
      /\ UNCHANGED <<output, cached, searches, call>>

Leave(r) ==
  /\ pc' = [pc EXCEPT ![r] = "idle"]
  /\ call' = [call EXCEPT ![r] = NoCall]
  /\ answer' = [answer EXCEPT ![r] = NoAnswer]
  /\ UNCHANGED <<output, lookup, writes, withheld>>

(* The deferred StoreReview, after the answer was sent.                    *)
Store(r) ==
  /\ pc[r] = "store"
  /\ cached' \in Put(cached, call[r].ids, answer[r])
  /\ UNCHANGED searches
  /\ Leave(r)

(***************************************************************************)
(* The deferred StoreSearchReview.  When the request leaves the output to  *)
(* its default, the key is made with an empty output and is never looked   *)
(* up, as if Set had failed.                                               *)
(***************************************************************************)
StoreSearch(r) ==
  /\ pc[r] = "save"
  /\ searches' \in Put(searches, call[r].ids, answer[r])
  /\ UNCHANGED cached
  /\ Leave(r)

Return(r) == pc[r] = "done" /\ Leave(r) /\ UNCHANGED <<cached, searches>>

(* Mutant: the goroutines share one variable, which is the last detail     *)
(* received when the key is made of it.                                    *)
SetCacheShared(detail) ==
  /\ detail \in writes
  /\ \E last \in writes : cached' = [cached EXCEPT ![<<last.id>>] = Value("detail", <<detail>>)]
  /\ writes' = writes \ {detail}
  /\ UNCHANGED <<output, searches, pc, call, lookup, answer, withheld>>

(* A goroutine started by ProcessResponse.                                 *)
SetCache(detail) ==
  /\ detail \in writes
  /\ cached' \in Put(cached, <<detail.id>>, Value("detail", <<detail>>))
  /\ writes' = writes \ {detail}
  /\ UNCHANGED <<output, searches, pc, call, lookup, answer, withheld>>

Next ==
  \/ \E r \in Requests :
       \/ \E ids \in Lists, nc \in BOOLEAN, kind \in Kinds : Arrive(r, ids, nc, kind)
       \/ LookupSearch(r) \/ LookupWhole(r) \/ LookupOne(r) \/ EndLookup(r)
       \/ FetchFails(r) \/ \E found \in Parts(missed[r]) : Fetch(r, found)
       \/ Store(r) \/ StoreSearch(r) \/ Return(r)
  \/ \E detail \in writes : SetCache(detail)

Spec == Init /\ [][Next]_vars

-----------------------------------------------------------------------------
Answered(r) == answer[r] # NoAnswer /\ answer[r].shape \in Shapes

(* The ids a value is about.                                               *)
IdsOf(details) == [i \in DOMAIN details |-> details[i].id]
About(value) == ToSet(IdsOf(value.details))

(***************************************************************************)
(* Types.  The cache never holds a failure, and the kinds of values it may *)
(* hold under a key are those of the output, and a Detail under one id.    *)
(***************************************************************************)
TypeOK ==
  /\ output \in Outputs
  /\ cached \in [Keys -> Values \cup {Absent}]
  /\ \A k \in Keys : cached[k] # Absent =>
       \/ cached[k].shape = "detail" /\ Len(k) = 1
       \/ output = "submissions" /\ cached[k].shape = "details"
       \/ output = "single_ticket" /\ cached[k].shape = "ticket"
       \/ output = "multiple_tickets" /\ cached[k].shape = "tickets"
  /\ searches \in [Results -> Values \cup {Absent}]
  /\ \A l \in Results : searches[l] # Absent => searches[l].shape \in Shapes
  /\ pc \in [Requests -> Stages]
  /\ call \in [Requests -> Call \cup {NoCall}]
  /\ todo \in [Requests -> Seq(Ids)]
  /\ processed \in [Requests -> Seq(Detail)]
  /\ missed \in [Requests -> Seq(Ids)]
  /\ answer \in [Requests -> Values \cup {NoAnswer}]
  /\ \A r \in Requests :
       /\ pc[r] = "idle" <=> call[r] = NoCall
       /\ pc[r] \in {"store", "save", "done"} <=> answer[r] # NoAnswer
  /\ writes \subseteq Detail
  /\ withheld \subseteq Ids

(***************************************************************************)
(* Whatever other requests have put into the cache, a review is about      *)
(* submissions that were asked for, and about none of them twice unless    *)
(* it was asked for twice.                                                 *)
(***************************************************************************)
OnlyAsked ==
  \A r \in Requests : Answered(r) =>
    /\ About(answer[r]) \subseteq ToSet(call[r].ids)
    /\ IsInjective(call[r].ids) => IsInjective(IdsOf(answer[r].details))

(***************************************************************************)
(* A review that is put together from cached and fetched submissions, or   *)
(* that another request has left in the cache, leaves out only submissions *)
(* that the remote end has left out of an answer.                          *)
(***************************************************************************)
NothingDropped ==
  \A r \in Requests : Answered(r) =>
    ToSet(call[r].ids) \ About(answer[r]) \subseteq withheld

DocumentedShape ==
  [single_ticket |-> "ticket", multiple_tickets |-> "tickets",
   submissions |-> "details", report |-> "report"][output]

(***************************************************************************)
(* A review of several submissions has the documented form, except that of *)
(* multiple_tickets when each submission is in the cache.                  *)
(***************************************************************************)
ListsAsDocumented ==
  \A r \in Requests : Answered(r) /\ call[r].kind # "report" /\ Len(call[r].ids) > 1 =>
    \/ answer[r].shape = DocumentedShape
    \/ output = "multiple_tickets" /\ answer[r].shape = "details"

(***************************************************************************)
(* get.go:448-456: single_ticket "returns a single combined db.Ticket of   *)
(* all submissions", multiple_tickets "returns each db.Ticket for each     *)
(* submission", and submissions, full and badges "a []details".            *)
(***************************************************************************)
OutputAsDocumented ==
  \A r \in Requests : Answered(r) /\ call[r].kind = "review" =>
    answer[r].shape = DocumentedShape

=============================================================================
