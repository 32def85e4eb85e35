------------------------------ MODULE Reports ------------------------------
(***************************************************************************)
(* Reports on the submissions of an artist: how a report and its ticket    *)
(* are made (CreateReport, CreateTicketReport), edited (PatchReport,       *)
(* RecreateReport), stored (StoreReport, GetReportHandler) and read        *)
(* (GetReportKeyHandler).                                                  *)
(*                                                                         *)
(* A report is in two places: the cache, under the :id of the request that *)
(* made it and the day, for ever; and the table reports, under its day and *)
(* its user.  Only what is cached under an artist is kept in the model.    *)
(* The two are written and read by separate steps of requests              *)
(* that interleave.  A submission's detail, from the review cache or from  *)
(* Inkbunny, is any detail.  Days are days of UTC, also the zone of the    *)
(* server, in which GetReportKeyHandler formats the day of "latest".       *)
(***************************************************************************)
EXTENDS Integers, FiniteSets

CONSTANTS
  Artists,
  Submissions,
  Owner,        \* the artist of each submission
  Labels,       \* the labels of a ticket
  Tags,         \* of "no" (not AI), "untagged" (AI, no keyword) and "tagged"
  Lists,        \* the lists of submissions that clients send
  Requests,     \* goroutines that serve a request, one at a time
  MaxDay,       \* bound: days
  MaxReports,   \* bound: reports made
  Other,        \* any key of the cache that is not that of an artist and a day
  None,
  NotFound

VARIABLES
  overwrites,   \* Set of the cache replaces an item (Redis) or not (LocalCache)
  cache,        \* for each artist and day, the report cached, or None
  rows,         \* for each artist and day, the report of table reports, or None
  today,
  made,         \* how many reports were made
  draft,        \* the TicketReport a client was last answered with, or None
  step,         \* what each request does next
  work,         \* the key, the report and the ticket it is storing
  reply,        \* what the request that answers in this step answers, or None
  summarised,   \* history: <<artist, day, report>> made by GetReportHandler
  replaced      \* history: <<artist, day, report>> replaced in the table while
                \* the cache, or a request about to cache it, had it

stores == <<overwrites, cache, rows, today>>
history == <<summarised, replaced>>
reportVars == <<stores, made, draft, step, work, reply, history>>

Days == 1..MaxDay
Keys == Artists \X Days

Detail == [tag : Tags, labels : SUBSET Labels]
SubInfo == [id : Submissions, flags : SUBSET Labels, tagged : BOOLEAN]
Report == [user : Artists, day : Days, subs : SUBSET SubInfo,
           violations : Nat, audited : Nat]

(* The first Response of a ticket has a marker when artists or files are   *)
(* listed in it, which is when a submission has labels.  Its SubmissionIDs *)
(* are left out: no code reads them, and RecreateReport does not set them. *)
Ticket == [labels : SUBSET Labels, marker : BOOLEAN]
TicketReport == [report : Report, ticket : Ticket]
Work == [key : Keys \cup {Other}, report : Report \cup {None}, ticket : Ticket \cup {None},
         next : {"answer", "upsert"}]

(* None is no report, no ticket and nothing a request stores.              *)
ASSUME ReportsAssumption ==
  /\ Owner \in [Submissions -> Artists]
  /\ Tags \subseteq {"no", "untagged", "tagged"}
  /\ MaxDay \in Nat \ {0}
  /\ MaxReports \in Nat
  /\ Other \notin Keys
  /\ IsFiniteSet(Submissions)
  /\ \A subs \in Lists : subs \subseteq SubInfo /\ IsFiniteSet(subs)
  /\ None \notin Report
  /\ None \notin Ticket
  /\ None \notin Work

(* Mutant: details that are not AI are counted as well.                    *)
CreateReportOfAll(details, user, day) ==
  LET flagged == {s \in DOMAIN details : details[s].labels # {} /\ details[s].tag # "no"}
      labelled == {s \in DOMAIN details : details[s].labels # {}}
  IN  [user |-> user, day |-> day,
       subs |-> {[id |-> s, flags |-> details[s].labels,
                  tagged |-> details[s].tag = "tagged"] : s \in flagged},
       violations |-> Cardinality(labelled),
       audited |-> Cardinality(DOMAIN details)]

(***************************************************************************)
(* The report of details: AI submissions count as audited, those with      *)
(* labels as violations, and only these are listed.                        *)
(***************************************************************************)
CreateReport(details, user, day) ==
  LET audited == {s \in DOMAIN details : details[s].tag # "no"}
      flagged == {s \in audited : details[s].labels # {}}
  IN  [user |-> user, day |-> day,
       subs |-> {[id |-> s, flags |-> details[s].labels,
                  tagged |-> details[s].tag = "tagged"] : s \in flagged},
       violations |-> Cardinality(flagged),
       audited |-> Cardinality(audited)]

(* The ticket lists every submission with labels, AI or not.               *)
CreateTicketReport(details, user, day) ==
  LET labelled == {s \in DOMAIN details : details[s].labels # {}}
  IN  [report |-> CreateReport(details, user, day),
       ticket |-> [labels |-> UNION {details[s].labels : s \in labelled},
                   marker |-> labelled # {}]]

(* Mutant: the violations a client sends are not reset.                    *)
RecreateReportFrom(old) ==
  LET counted == {s \in old.report.subs : s.tagged \/ s.flags # {}}
      flagged == {s \in counted : s.flags # {}}
  IN  [report |-> [old.report EXCEPT !.audited = Cardinality(counted),
                                     !.violations = @ + Cardinality(flagged)],
       ticket |-> [old.ticket EXCEPT !.labels = UNION {s.flags : s \in flagged}]]

(***************************************************************************)
(* RecreateReport counts again from the submissions listed: what           *)
(* CreateReport left out is no longer audited, and the labels of the       *)
(* ticket are those of the submissions listed.                             *)
(***************************************************************************)
RecreateReport(old) ==
  LET counted == {s \in old.report.subs : s.tagged \/ s.flags # {}}
      flagged == {s \in counted : s.flags # {}}
  IN  [report |-> [old.report EXCEPT !.audited = Cardinality(counted),
                                     !.violations = Cardinality(flagged)],
       ticket |-> [old.ticket EXCEPT !.labels = UNION {s.flags : s \in flagged}]]

(* A client may send back any list of submissions with a TicketReport: as  *)
(* a set of entries, in which one entry is not listed twice.               *)
Edited(old, subs) == [old EXCEPT !.report.subs = subs]

Init ==
  /\ overwrites \in BOOLEAN
  /\ cache = [k \in Keys |-> None]
  /\ rows = [k \in Keys |-> None]
  /\ today = 1
  /\ made = 0
  /\ draft = None
  /\ step = [p \in Requests |-> "idle"]
  /\ work = [p \in Requests |-> None]
  /\ reply = None
  /\ summarised = {}
  /\ replaced = {}

-----------------------------------------------------------------------------
Start(p, key, report, ticket, next) ==
  /\ step' = [step EXCEPT ![p] = "store"]
  /\ work' = [work EXCEPT ![p] = [key |-> key, report |-> report,
                                  ticket |-> ticket, next |-> next]]

(* Mutant: the request is over but not what it was storing.                *)
AnswerOnly(p, value) ==
  /\ step' = [step EXCEPT ![p] = "idle"]
  /\ reply' = value
  /\ UNCHANGED work

Answer(p, value) ==
  /\ step' = [step EXCEPT ![p] = "idle"]
  /\ work' = [work EXCEPT ![p] = None]
  /\ reply' = value

(***************************************************************************)
(* GetReviewHandler or RetrieveReview with output "report": the report is  *)
(* of the user of the last detail, and cached under the :id of the route,  *)
(* which lists submissions or is "search".                                 *)
(***************************************************************************)
Review(p, ids, last, details) ==
  LET new == CreateTicketReport(details, Owner[last], today)
  IN  /\ step[p] = "idle"
      /\ made < MaxReports
      /\ made' = made + 1
      /\ Start(p, Other, new.report, new.ticket, "upsert")
      /\ reply' = None
      /\ UNCHANGED <<stores, draft, history>>

(***************************************************************************)
(* PatchReport, with the list a client makes of the draft it was answered. *)
(* A request without submissions, or whose message has no marker, is       *)
(* refused.  The route has no :id to cache the report under.               *)
(***************************************************************************)
PatchReport(p, subs) ==
  LET new == RecreateReport(Edited(draft, subs))
  IN  /\ step[p] = "idle"
      /\ made < MaxReports
      /\ draft # None
      /\ draft.ticket.marker
      /\ subs # {}
      /\ made' = made + 1
      /\ Start(p, Other, new.report, new.ticket, "upsert")
      /\ reply' = None
      /\ UNCHANGED <<stores, draft, history>>

(* GetReportHandler: a report of what a search for the artist found.       *)
GetReport(p, a, details) ==
  LET new == CreateReport(details, a, today)
  IN  /\ step[p] = "idle"
      /\ made < MaxReports
      /\ made' = made + 1
      /\ Start(p, <<a, today>>, new, None, "answer")
      /\ summarised' = summarised \cup {<<a, today, new>>}
      /\ reply' = None
      /\ UNCHANGED <<stores, draft, replaced>>

-----------------------------------------------------------------------------
(***************************************************************************)
(* StoreReview, with no expiry.  LocalCache.Set keeps what it has.         *)
(***************************************************************************)
StoreReview(p) ==
  LET key == work[p].key
  IN  /\ step[p] = "store"
      /\ cache' = IF key # Other /\ (overwrites \/ cache[key] = None)
                  THEN [cache EXCEPT ![key] = work[p].report] ELSE cache
      /\ IF work[p].next = "upsert"
         THEN step' = [step EXCEPT ![p] = "upsert"] /\ reply' = None /\ UNCHANGED work
         ELSE Answer(p, None)
      /\ UNCHANGED <<overwrites, rows, today, made, draft, history>>

(* A request is about to cache, or has cached, the report of a row.        *)
InUse(a, d) ==
  \/ cache[<<a, d>>] = rows[<<a, d>>]
  \/ \E q \in Requests : /\ step[q] = "store"
                         /\ work[q].key = <<a, d>>
                         /\ work[q].report = rows[<<a, d>>]

(* UpsertTicketReport, and the answer; an error is only logged.            *)
UpsertTicketReport(p, failed) ==
  LET new == work[p].report
      k == <<new.user, new.day>>
  IN  /\ step[p] = "upsert"
      /\ rows' = IF failed THEN rows ELSE [rows EXCEPT ![k] = new]
      /\ replaced' = IF ~failed /\ rows[k] # None /\ InUse(new.user, new.day)
                     THEN replaced \cup {<<new.user, new.day, rows[k]>>}
                     ELSE replaced
      /\ draft' = [report |-> new, ticket |-> work[p].ticket]
      /\ Answer(p, None)
      /\ UNCHANGED <<overwrites, cache, today, made, summarised>>

\* The day of the row that selectLatestTicketReport takes of an artist's rows.
IsNewest(a, day) ==
  /\ rows[<<a, day>>] # None
  /\ \A d \in Days : rows[<<a, d>>] # None => d <= day

(* Mutant: the report of the table is cached under today.                  *)
GetLatestToday(p, a) ==
  \E newest \in Days :
    /\ step[p] = "idle"
    /\ IsNewest(a, newest)
    /\ Start(p, <<a, today>>, rows[<<a, newest>>], None, "answer")
    /\ reply' = None
    /\ UNCHANGED <<stores, made, draft, history>>

(* GetReportKeyHandler for the key "latest": caches the newest row and     *)
(* redirects to it.  Without one, "latest" is a key nobody stores.         *)
GetLatest(p, a) ==
  \E newest \in Days :
    /\ step[p] = "idle"
    /\ IsNewest(a, newest)
    /\ Start(p, <<a, newest>>, rows[<<a, newest>>], None, "answer")
    /\ reply' = None
    /\ UNCHANGED <<stores, made, draft, history>>

GetLatestOfNone(p, a) ==
  /\ step[p] = "idle"
  /\ \A d \in Days : rows[<<a, d>>] = None
  /\ Answer(p, [key |-> <<a, "latest">>, report |-> NotFound])
  /\ UNCHANGED <<stores, made, draft, history>>

(* GetReportKeyHandler for a day: what is cached is answered.              *)
GetCached(p, key) ==
  /\ step[p] = "idle"
  /\ cache[key] # None
  /\ Answer(p, [key |-> key, report |-> cache[key]])
  /\ UNCHANGED <<stores, made, draft, history>>

Miss(p, key) ==
  /\ step[p] = "idle"
  /\ cache[key] = None
  /\ step' = [step EXCEPT ![p] = "select"]
  /\ work' = [work EXCEPT ![p] = [key |-> key, report |-> None, ticket |-> None, next |-> "answer"]]
  /\ reply' = None
  /\ UNCHANGED <<stores, made, draft, history>>

(* After a miss the row is answered, and a goroutine caches it.            *)
SelectTicketReport(p) ==
  LET key == work[p].key
  IN  /\ step[p] = "select"
      /\ IF rows[key] # None
         THEN /\ Start(p, key, rows[key], None, "answer")
              /\ reply' = [key |-> key, report |-> rows[key]]
         ELSE Answer(p, [key |-> key, report |-> NotFound])
      /\ UNCHANGED <<stores, made, draft, history>>

(* The cache evicts an item, or the server restarts with an empty one.     *)
Lose(key) ==
  /\ cache[key] # None
  /\ cache' = [cache EXCEPT ![key] = None]
  /\ reply' = None
  /\ UNCHANGED <<overwrites, rows, today, made, draft, step, work, history>>

NextDay ==
  /\ today < MaxDay
  /\ today' = today + 1
  /\ reply' = None
  /\ UNCHANGED <<overwrites, cache, rows, made, draft, step, work, history>>

Next ==
  \/ \E p \in Requests :
       \/ \E ids \in SUBSET Submissions \ {{}} : \E last \in ids, details \in [ids -> Detail] :
            Review(p, ids, last, details)
       \/ \E subs \in Lists : PatchReport(p, subs)
       \/ \E a \in Artists : \E ids \in SUBSET {s \in Submissions : Owner[s] = a} \ {{}} :
            \E details \in [ids -> Detail] : GetReport(p, a, details)
       \/ StoreReview(p)
       \/ \E failed \in BOOLEAN : UpsertTicketReport(p, failed)
       \/ \E a \in Artists : GetLatest(p, a) \/ GetLatestOfNone(p, a)
       \/ \E key \in Keys : GetCached(p, key) \/ Miss(p, key)
       \/ SelectTicketReport(p)
  \/ \E key \in Keys : Lose(key)
  \/ NextDay

Spec == Init /\ [][Next]_reportVars

-----------------------------------------------------------------------------
(***************************************************************************)
(* Types, and what a request has when it stores.                           *)
(***************************************************************************)
ReportsTypeOK ==
  /\ overwrites \in BOOLEAN
  /\ cache \in [Keys -> Report \cup {None}]
  /\ rows \in [Keys -> Report \cup {None}]
  /\ today \in Days
  /\ made \in 0..MaxReports
  /\ draft \in TicketReport \cup {None}
  /\ step \in [Requests -> {"idle", "select", "store", "upsert"}]
  /\ work \in [Requests -> Work \cup {None}]
  /\ summarised \subseteq Artists \X Days \X Report
  /\ replaced \subseteq Artists \X Days \X Report
  /\ \A p \in Requests :
       /\ step[p] = "idle" <=> work[p] = None
       /\ step[p] \in {"store", "upsert"} => work[p].report # None
       /\ step[p] = "upsert" => work[p].ticket # None /\ work[p].next = "upsert"
       /\ step[p] # "idle" /\ work[p].next = "upsert" =>
            work[p].key = Other /\ work[p].ticket # None
       /\ step[p] = "select" => work[p].key \in Keys

(* A report for the artist and the day, and the one of the table; or one   *)
(* that was never in the table, or was read from it before it was replaced.*)
Agrees(a, d, report) ==
  /\ report.user = a
  /\ report.day = d
  /\ \/ report = rows[<<a, d>>]
     \/ <<a, d, report>> \in summarised \cup replaced

(***************************************************************************)
(* Whatever is cached for an artist and a day, and whatever                *)
(* GetReportKeyHandler answers for them, is a report on that artist of     *)
(* that day.  It is the one in the table, except a report of               *)
(* GetReportHandler, which is not stored there, and one that was replaced  *)
(* in the table after it was cached or while it was being cached.          *)
(***************************************************************************)
CacheAgrees ==
  /\ \A a \in Artists, d \in Days :
       cache[<<a, d>>] # None => Agrees(a, d, cache[<<a, d>>])
  /\ reply # None /\ reply.report # NotFound =>
       Agrees(reply.key[1], reply.key[2], reply.report)

Counted(report) ==
  /\ report.violations = Cardinality({s \in report.subs : s.flags # {}})
  /\ report.violations <= report.audited

(***************************************************************************)
(* However often a report is edited and sent back, with any submissions    *)
(* and with counts from an earlier edit, its violations are the entries    *)
(* with flags that it lists, and its ratio is at most 1; its ticket has    *)
(* the labels of those entries.                                            *)
(***************************************************************************)
CountsAgree ==
  /\ \A k \in DOMAIN rows : rows[k] # None => Counted(rows[k])
  /\ draft # None =>
       /\ Counted(draft.report)
       /\ \A s \in draft.report.subs : s.flags \subseteq draft.ticket.labels

=============================================================================
