--------------------------- MODULE ReportsProofs ---------------------------
(***************************************************************************)
(* Reports, the writer of their messages and the details they are made of, *)
(* for any number of artists, submissions, files, requests and days.       *)
(*                                                                         *)
(* ReportsInv carries the agreement of a report with the table of reports  *)
(* through a request: what the cache has and what a request will cache     *)
(* agree with the rows, and what a request will upsert counts what it      *)
(* lists.  WriterInv adds that no point marked is behind the writer that   *)
(* writes next.  DetailsInv follows each file: an object that came is in   *)
(* the metadata or in the hands of the goroutine of its file.              *)
(***************************************************************************)
EXTENDS MCReports, FiniteSetTheorems, TLAPS

-----------------------------------------------------------------------------
(* A report and its ticket, as CountsAgree wants the draft of a client.    *)
DraftRight(report, ticket) ==
  /\ Counted(report)
  /\ \A s \in report.subs : s.flags \subseteq ticket.labels

RowsRight ==
  \A k \in Keys : rows[k] # None =>
    rows[k].user = k[1] /\ rows[k].day = k[2] /\ Counted(rows[k])

CacheRight ==
  \A a \in Artists, d \in Days : cache[<<a, d>>] # None => Agrees(a, d, cache[<<a, d>>])

(* What a request is about to cache and to put into the table.             *)
RequestRight(p) ==
  /\ step[p] = "store" /\ work[p].key # Other =>
       Agrees(work[p].key[1], work[p].key[2], work[p].report)
  /\ step[p] # "idle" /\ work[p].next = "upsert" =>
       DraftRight(work[p].report, work[p].ticket)

WorkRight == \A p \in Requests : RequestRight(p)

DraftKept == draft # None => DraftRight(draft.report, draft.ticket)

ReplyRight ==
  reply # None /\ reply.report # NotFound =>
    Agrees(reply.key[1], reply.key[2], reply.report)

ReportsInv ==
  ReportsTypeOK /\ RowsRight /\ CacheRight /\ WorkRight /\ DraftKept /\ ReplyRight

-----------------------------------------------------------------------------
(* The report of details counts what it lists.                             *)
LEMMA CreatedCounted ==
  ASSUME NEW ids \in SUBSET Submissions, NEW details \in [ids -> Detail],
         NEW user \in Artists, NEW day \in Days
  PROVE  /\ CreateReport(details, user, day) \in Report
         /\ CreateReport(details, user, day).user = user
         /\ CreateReport(details, user, day).day = day
         /\ Counted(CreateReport(details, user, day))
<1> DEFINE audited == {s \in DOMAIN details : details[s].tag # "no"}
           flagged == {s \in audited : details[s].labels # {}}
           info(s) == [id |-> s, flags |-> details[s].labels,
                       tagged |-> details[s].tag = "tagged"]
           subs == {info(s) : s \in flagged}
           report == [user |-> user, day |-> day, subs |-> subs,
                      violations |-> Cardinality(flagged), audited |-> Cardinality(audited)]
           f == [s \in flagged |-> info(s)]
<1>1. CreateReport(details, user, day) = report
  BY DEF CreateReport
<1>2. /\ IsFiniteSet(Submissions) /\ audited \in SUBSET Submissions
      /\ flagged \in SUBSET audited
  BY ReportsAssumption
<1>3. /\ IsFiniteSet(audited) /\ IsFiniteSet(flagged)
      /\ Cardinality(flagged) <= Cardinality(audited)
  BY <1>2, FS_Subset
<1>4. Cardinality(audited) \in Nat /\ Cardinality(flagged) \in Nat
  BY <1>3, FS_CardinalityType
<1>5. \A s \in flagged : info(s) \in SubInfo /\ info(s).flags # {} /\ info(s).id = s
  BY DEF SubInfo, Detail
<1>6. Cardinality(subs) = Cardinality(flagged)
  <2>1. f \in [flagged -> subs]
    OBVIOUS
  <2>2. \A s, t \in flagged : f[s] = f[t] => s = t
    BY <1>5
  <2>3. \A x \in subs : \E s \in flagged : f[s] = x
    OBVIOUS
  <2>4. f \in Bijection(flagged, subs)
    BY <2>1, <2>2, <2>3 DEF Bijection, Injection, IsInjective, Surjection
  <2>5. ExistsBijection(flagged, subs)
    BY <2>4 DEF ExistsBijection
  <2> QED BY <1>3, <2>5, FS_Bijection
<1>7. subs \subseteq SubInfo /\ {x \in subs : x.flags # {}} = subs
  BY <1>5
<1> HIDE DEF audited, flagged, subs
<1>9. /\ report \in Report /\ report.user = user /\ report.day = day
      /\ report.subs = subs /\ report.violations = Cardinality(flagged)
      /\ report.audited = Cardinality(audited)
  BY <1>4, <1>7 DEF Report
<1> HIDE DEF report
<1> QED BY <1>1, <1>3, <1>6, <1>7, <1>9 DEF Counted

(* The ticket of details has the labels of all that is listed.             *)
LEMMA CreatedDraft ==
  ASSUME NEW ids \in SUBSET Submissions, NEW details \in [ids -> Detail],
         NEW user \in Artists, NEW day \in Days
  PROVE  LET new == CreateTicketReport(details, user, day)
         IN  /\ new.report \in Report /\ new.ticket \in Ticket
             /\ DraftRight(new.report, new.ticket)
<1> DEFINE labelled == {s \in DOMAIN details : details[s].labels # {}}
           new == CreateTicketReport(details, user, day)
           allFlags == UNION {details[s].labels : s \in labelled}
<1>1. /\ new.report = CreateReport(details, user, day)
      /\ new.ticket.labels = allFlags
      /\ new.ticket = [labels |-> allFlags, marker |-> labelled # {}]
  BY DEF CreateTicketReport
<1>2. allFlags \subseteq Labels
  BY DEF Detail
<1>3. new.ticket \in Ticket
  BY <1>1, <1>2 DEF Ticket
<1>4. \A x \in CreateReport(details, user, day).subs :
        \E s \in labelled : x.id = s /\ x.flags = details[s].labels
  BY DEF CreateReport
<1>5. \A s \in labelled : details[s].labels \subseteq allFlags
  OBVIOUS
<1> HIDE DEF labelled, allFlags
<1>6. \A x \in new.report.subs : x.flags \subseteq new.ticket.labels
  BY <1>1, <1>4, <1>5
<1> QED BY <1>1, <1>3, <1>6, CreatedCounted DEF DraftRight

(***************************************************************************)
(* What RecreateReport makes of a draft with any list of submissions is    *)
(* counted again, whatever counts it came with.                            *)
(***************************************************************************)
LEMMA RecreatedDraft ==
  ASSUME NEW old \in TicketReport, NEW subs \in Lists
  PROVE  LET new == RecreateReport(Edited(old, subs))
         IN  /\ new.report \in Report /\ new.ticket \in Ticket
             /\ DraftRight(new.report, new.ticket)
<1> DEFINE counted == {s \in subs : s.tagged \/ s.flags # {}}
           flagged == {s \in counted : s.flags # {}}
           allFlags == UNION {s.flags : s \in flagged}
           new == RecreateReport(Edited(old, subs))
           report == [old.report EXCEPT !.subs = subs, !.audited = Cardinality(counted),
                                        !.violations = Cardinality(flagged)]
           ticket == [old.ticket EXCEPT !.labels = allFlags]
<1>1. old.report \in Report /\ old.ticket \in Ticket
  BY DEF TicketReport
<1>2. subs \subseteq SubInfo /\ IsFiniteSet(subs)
  BY ReportsAssumption
<1>3. Edited(old, subs).report.subs = subs /\ Edited(old, subs).ticket = old.ticket
      /\ Edited(old, subs).report = [old.report EXCEPT !.subs = subs]
  BY <1>1 DEF Edited, TicketReport, Report
<1>4. new.report = report /\ new.ticket = ticket
  BY <1>1, <1>3 DEF RecreateReport, Report
<1>5. counted \in SUBSET subs /\ flagged \in SUBSET counted
  OBVIOUS
<1>6. /\ IsFiniteSet(counted)
      /\ IsFiniteSet(flagged) /\ Cardinality(flagged) <= Cardinality(counted)
  BY <1>2, <1>5, FS_Subset
<1>7. Cardinality(counted) \in Nat /\ Cardinality(flagged) \in Nat
  BY <1>6, FS_CardinalityType
<1>8. {s \in subs : s.flags # {}} = flagged
  OBVIOUS
<1>9. allFlags \subseteq Labels /\ \A s \in subs : s.flags \subseteq allFlags
  BY <1>2 DEF SubInfo
<1> HIDE DEF counted, flagged, allFlags
<1>10. /\ report \in Report /\ report.subs = subs
       /\ report.violations = Cardinality(flagged) /\ report.audited = Cardinality(counted)
  BY <1>1, <1>2, <1>7 DEF Report
<1>11. ticket \in Ticket /\ ticket.labels = allFlags
  BY <1>1, <1>9 DEF Ticket
<1> HIDE DEF report, ticket
<1>12. Counted(report)
  BY <1>6, <1>8, <1>10 DEF Counted
<1>13. \A s \in report.subs : s.flags \subseteq ticket.labels
  BY <1>9, <1>10, <1>11
<1> QED BY <1>4, <1>10, <1>11, <1>12, <1>13 DEF DraftRight

-----------------------------------------------------------------------------
(* What agrees after a step.                                               *)
AgreesNext(a, d, report) ==
  /\ report.user = a
  /\ report.day = d
  /\ \/ report = rows'[<<a, d>>]
     \/ <<a, d, report>> \in summarised' \cup replaced'

(* What agrees still does when more reports are remembered.                *)
LEMMA AgreesStill ==
  ASSUME NEW a, NEW d, NEW report, Agrees(a, d, report), rows' = rows,
         summarised \subseteq summarised', replaced \subseteq replaced'
  PROVE  AgreesNext(a, d, report)
BY DEF Agrees, AgreesNext

LEMMA RequestKept ==
  ASSUME NEW q \in Requests, RequestRight(q), step'[q] = step[q], work'[q] = work[q],
         UNCHANGED <<rows, summarised, replaced>>
  PROVE  RequestRight(q)'
BY DEF RequestRight, Agrees, DraftRight, Counted

(***************************************************************************)
(* A request that starts to store a report keeps the invariant when the    *)
(* report agrees with its key and, if it will be put into the table, with  *)
(* its ticket.                                                             *)
(***************************************************************************)
LEMMA StartKeeps ==
  ASSUME ReportsInv, NEW p \in Requests,
         NEW key \in Keys \cup {Other}, NEW report \in Report,
         NEW ticket \in Ticket \cup {None}, NEW next \in {"answer", "upsert"},
         Start(p, key, report, ticket, next),
         UNCHANGED <<stores, draft, replaced>>, made' \in 0..MaxReports,
         summarised \subseteq summarised', summarised' \subseteq Artists \X Days \X Report,
         key # Other => AgreesNext(key[1], key[2], report),
         next = "upsert" => key = Other /\ ticket # None /\ DraftRight(report, ticket),
         ReplyRight'
  PROVE  ReportsInv'
<1> USE DEF ReportsInv
<1> DEFINE new == [key |-> key, report |-> report, ticket |-> ticket, next |-> next]
<1>1. new \in Work /\ new # None /\ report # None
  BY ReportsAssumption DEF Work
<1>2. step' = [step EXCEPT ![p] = "store"] /\ work' = [work EXCEPT ![p] = new]
  BY DEF Start
<1>3. \A q \in Requests : step'[q] = (IF q = p THEN "store" ELSE step[q])
                          /\ work'[q] = (IF q = p THEN new ELSE work[q])
  BY <1>2 DEF ReportsTypeOK
<1>4. new.key = key /\ new.report = report /\ new.ticket = ticket /\ new.next = next
  OBVIOUS
<1> HIDE DEF new
<1>5. UNCHANGED <<overwrites, cache, rows, today, draft, replaced>>
  BY DEF stores
<1>6. ReportsTypeOK'
  <2>1. /\ step' \in [Requests -> {"idle", "select", "store", "upsert"}]
        /\ work' \in [Requests -> Work \cup {None}]
    BY <1>1, <1>2 DEF ReportsTypeOK
  <2>2. ASSUME NEW q \in Requests
        PROVE  /\ step'[q] = "idle" <=> work'[q] = None
               /\ step'[q] \in {"store", "upsert"} => work'[q].report # None
               /\ step'[q] = "upsert" => work'[q].ticket # None /\ work'[q].next = "upsert"
               /\ step'[q] # "idle" /\ work'[q].next = "upsert" =>
                    work'[q].key = Other /\ work'[q].ticket # None
               /\ step'[q] = "select" => work'[q].key \in Keys
    <3>1. CASE q = p
      BY <1>1, <1>3, <1>4, <3>1
    <3>2. CASE q # p
      BY <1>3, <3>2 DEF ReportsTypeOK
    <3> QED BY <3>1, <3>2
  <2> QED BY <1>5, <2>1, <2>2 DEF ReportsTypeOK
<1>7. RowsRight' /\ DraftKept'
  BY <1>5 DEF RowsRight, DraftKept, DraftRight, Counted
<1>8. CacheRight'
  BY <1>5, AgreesStill DEF CacheRight, Agrees, AgreesNext
<1>9. WorkRight'
  <2>1. ASSUME NEW q \in Requests
        PROVE  /\ step'[q] = "store" /\ work'[q].key # Other =>
                    AgreesNext(work'[q].key[1], work'[q].key[2], work'[q].report)
               /\ step'[q] # "idle" /\ work'[q].next = "upsert" =>
                    DraftRight(work'[q].report, work'[q].ticket)
    <3>1. CASE q = p
      BY <1>3, <1>4, <3>1
    <3>2. CASE q # p
      <4>1. step'[q] = step[q] /\ work'[q] = work[q]
        BY <1>3, <3>2
      <4>2. step[q] = "store" /\ work[q].key # Other =>
              AgreesNext(work[q].key[1], work[q].key[2], work[q].report)
        BY <1>5, AgreesStill DEF WorkRight, RequestRight
      <4>3. step[q] # "idle" /\ work[q].next = "upsert" =>
              DraftRight(work[q].report, work[q].ticket)
        BY DEF WorkRight, RequestRight
      <4> QED BY <4>1, <4>2, <4>3
    <3> QED BY <3>1, <3>2
  <2> QED BY <2>1 DEF WorkRight, RequestRight, DraftRight, Counted, Agrees, AgreesNext
<1> QED BY <1>6, <1>7, <1>8, <1>9

(* So does a request that ends with an answer that is right.               *)
LEMMA EndKeeps ==
  ASSUME ReportsInv, NEW p \in Requests, NEW value, Answer(p, value),
         UNCHANGED <<stores, made, draft, history>>, ReplyRight'
  PROVE  ReportsInv'
<1> USE DEF ReportsInv
<1>1. \A q \in Requests : step'[q] = (IF q = p THEN "idle" ELSE step[q])
                          /\ work'[q] = (IF q = p THEN None ELSE work[q])
  BY DEF Answer, ReportsTypeOK
<1>2. UNCHANGED <<overwrites, cache, rows, today, made, draft, summarised, replaced>>
  BY DEF stores, history
<1>3. ReportsTypeOK'
  <2>1. /\ step' \in [Requests -> {"idle", "select", "store", "upsert"}]
        /\ work' \in [Requests -> Work \cup {None}]
    BY DEF Answer, ReportsTypeOK
  <2> QED BY <1>1, <1>2, <2>1 DEF ReportsTypeOK
<1>4. RowsRight' /\ DraftKept' /\ CacheRight'
  BY <1>2 DEF RowsRight, DraftKept, DraftRight, Counted, CacheRight, Agrees
<1>5. WorkRight'
  BY <1>1, <1>2 DEF WorkRight, RequestRight, DraftRight, Counted, Agrees
<1> QED BY <1>3, <1>4, <1>5

LEMMA NoReply == reply' = None => ReplyRight'
BY DEF ReplyRight

LEMMA ReportsInitInv == Init => ReportsInv
<1> SUFFICES ASSUME Init PROVE ReportsInv
  OBVIOUS
<1>1. MaxDay \in Nat \ {0} /\ MaxReports \in Nat
  BY ReportsAssumption
<1>2. ReportsTypeOK
  BY <1>1 DEF Init, ReportsTypeOK, Days
<1>3. RowsRight /\ CacheRight /\ WorkRight /\ DraftKept /\ ReplyRight
  BY DEF Init, RowsRight, CacheRight, WorkRight, RequestRight, DraftKept,
            ReplyRight, Keys
<1> QED BY <1>2, <1>3 DEF ReportsInv

LEMMA ReviewKeeps ==
  ASSUME ReportsInv, NEW p \in Requests, NEW ids \in SUBSET Submissions, NEW last \in ids,
         NEW details \in [ids -> Detail], Review(p, ids, last, details)
  PROVE  ReportsInv'
<1> DEFINE new == CreateTicketReport(details, Owner[last], today)
<1>1. Owner[last] \in Artists /\ today \in Days
  BY ReportsAssumption DEF ReportsInv, ReportsTypeOK
<1>2. new.report \in Report /\ new.ticket \in Ticket /\ DraftRight(new.report, new.ticket)
  BY <1>1, CreatedDraft
<1>3. /\ Start(p, Other, new.report, new.ticket, "upsert")
      /\ made < MaxReports /\ made' = made + 1 /\ reply' = None
      /\ UNCHANGED <<stores, draft, summarised, replaced>>
  BY DEF Review, history
<1> HIDE DEF new
<1>4. made' \in 0..MaxReports
  BY <1>3, ReportsAssumption DEF ReportsInv, ReportsTypeOK
<1>5. new.ticket # None
  BY <1>2, ReportsAssumption
<1>6. summarised' \subseteq Artists \X Days \X Report
  BY <1>3 DEF ReportsInv, ReportsTypeOK
<1> QED BY <1>2, <1>3, <1>4, <1>5, <1>6, NoReply, StartKeeps

LEMMA PatchReportKeeps ==
  ASSUME ReportsInv, NEW p \in Requests, NEW subs \in Lists, PatchReport(p, subs)
  PROVE  ReportsInv'
<1> DEFINE new == RecreateReport(Edited(draft, subs))
<1>1. draft \in TicketReport
  BY DEF PatchReport, ReportsInv, ReportsTypeOK
<1>2. new.report \in Report /\ new.ticket \in Ticket /\ DraftRight(new.report, new.ticket)
  BY <1>1, RecreatedDraft
<1>3. /\ Start(p, Other, new.report, new.ticket, "upsert")
      /\ made < MaxReports /\ made' = made + 1 /\ reply' = None
      /\ UNCHANGED <<stores, draft, summarised, replaced>>
  BY DEF PatchReport, history
<1> HIDE DEF new
<1>4. made' \in 0..MaxReports
  BY <1>3, ReportsAssumption DEF ReportsInv, ReportsTypeOK
<1>5. new.ticket # None
  BY <1>2, ReportsAssumption
<1>6. summarised' \subseteq Artists \X Days \X Report
  BY <1>3 DEF ReportsInv, ReportsTypeOK
<1> QED BY <1>2, <1>3, <1>4, <1>5, <1>6, NoReply, StartKeeps

(* A report of GetReportHandler is not in the table, but remembered.       *)
LEMMA GetReportKeeps ==
  ASSUME ReportsInv, NEW p \in Requests, NEW a \in Artists, NEW ids \in SUBSET Submissions,
         NEW details \in [ids -> Detail], GetReport(p, a, details)
  PROVE  ReportsInv'
<1> DEFINE new == CreateReport(details, a, today)
<1>1. today \in Days /\ <<a, today>> \in Keys
  BY DEF ReportsInv, ReportsTypeOK, Keys
<1>2. new \in Report /\ new.user = a /\ new.day = today
  BY <1>1, CreatedCounted
<1>3. /\ Start(p, <<a, today>>, new, None, "answer")
      /\ made < MaxReports /\ made' = made + 1 /\ reply' = None
      /\ summarised' = summarised \cup {<<a, today, new>>}
      /\ UNCHANGED <<stores, draft, replaced>>
  BY DEF GetReport
<1> HIDE DEF new
<1>4. made' \in 0..MaxReports
  BY <1>3, ReportsAssumption DEF ReportsInv, ReportsTypeOK
<1>5. summarised' \subseteq Artists \X Days \X Report
  BY <1>1, <1>2, <1>3 DEF ReportsInv, ReportsTypeOK
<1>6. AgreesNext(a, today, new)
  BY <1>2, <1>3 DEF AgreesNext, stores
<1>7. AgreesNext(<<a, today>>[1], <<a, today>>[2], new)
  BY <1>6
<1>8. summarised \subseteq summarised'
  BY <1>3
<1> QED BY <1>1, <1>2, <1>3, <1>4, <1>5, <1>7, <1>8, NoReply, StartKeeps

(* The key of an artist and a day.                                         *)
LEMMA KeyParts ==
  ASSUME NEW k \in Keys
  PROVE  k[1] \in Artists /\ k[2] \in Days /\ k = <<k[1], k[2]>>
BY DEF Keys

(* What a row holds agrees with its key.                                   *)
LEMMA RowAgrees ==
  ASSUME ReportsInv, NEW k \in Keys, rows[k] # None, rows' = rows
  PROVE  rows[k] \in Report /\ AgreesNext(k[1], k[2], rows[k])
BY KeyParts DEF ReportsInv, ReportsTypeOK, RowsRight, AgreesNext

LEMMA GetLatestKeeps ==
  ASSUME ReportsInv, NEW p \in Requests, NEW a \in Artists, GetLatest(p, a)
  PROVE  ReportsInv'
<1>1. PICK newest \in Days :
        /\ rows[<<a, newest>>] # None
        /\ Start(p, <<a, newest>>, rows[<<a, newest>>], None, "answer")
        /\ reply' = None
        /\ UNCHANGED <<stores, made, draft, history>>
  BY DEF GetLatest, IsNewest
<1>2. <<a, newest>> \in Keys
  BY DEF Keys
<1>3. UNCHANGED <<rows, summarised, replaced>>
  BY <1>1 DEF stores, history
<1>4. /\ rows[<<a, newest>>] \in Report
      /\ AgreesNext(<<a, newest>>[1], <<a, newest>>[2], rows[<<a, newest>>])
  BY <1>1, <1>2, <1>3, RowAgrees
<1>5. made' \in 0..MaxReports /\ summarised' \subseteq Artists \X Days \X Report
  BY <1>1, <1>3 DEF ReportsInv, ReportsTypeOK
<1> QED BY <1>1, <1>2, <1>3, <1>4, <1>5, NoReply, StartKeeps

LEMMA GetLatestOfNoneKeeps ==
  ASSUME ReportsInv, NEW p \in Requests, NEW a \in Artists, GetLatestOfNone(p, a)
  PROVE  ReportsInv'
<1>1. /\ Answer(p, [key |-> <<a, "latest">>, report |-> NotFound])
      /\ UNCHANGED <<stores, made, draft, history>>
  BY DEF GetLatestOfNone
<1>2. ReplyRight'
  BY <1>1 DEF Answer, ReplyRight
<1> QED BY <1>1, <1>2, EndKeeps

LEMMA GetCachedKeeps ==
  ASSUME ReportsInv, NEW p \in Requests, NEW key \in Keys, GetCached(p, key)
  PROVE  ReportsInv'
<1>1. /\ cache[key] # None /\ Answer(p, [key |-> key, report |-> cache[key]])
      /\ UNCHANGED <<stores, made, draft, history>>
  BY DEF GetCached
<1>2. Agrees(key[1], key[2], cache[key])
  BY <1>1, KeyParts DEF ReportsInv, CacheRight
<1>3. reply' = [key |-> key, report |-> cache[key]]
  BY <1>1 DEF Answer
<1>4. ReplyRight'
  BY <1>1, <1>2, <1>3 DEF ReplyRight, Agrees, stores, history
<1> QED BY <1>1, <1>4, EndKeeps

LEMMA MissKeeps ==
  ASSUME ReportsInv, NEW p \in Requests, NEW key \in Keys, Miss(p, key)
  PROVE  ReportsInv'
<1> USE DEF ReportsInv
<1> DEFINE new == [key |-> key, report |-> None, ticket |-> None, next |-> "answer"]
<1>1. /\ step' = [step EXCEPT ![p] = "select"] /\ work' = [work EXCEPT ![p] = new]
      /\ reply' = None
      /\ UNCHANGED <<overwrites, cache, rows, today, made, draft, summarised, replaced>>
  BY DEF Miss, stores, history
<1>2. new \in Work /\ new # None /\ new.key = key /\ new.next = "answer"
  BY ReportsAssumption DEF Work
<1> HIDE DEF new
<1>3. \A q \in Requests : step'[q] = (IF q = p THEN "select" ELSE step[q])
                          /\ work'[q] = (IF q = p THEN new ELSE work[q])
  BY <1>1 DEF ReportsTypeOK
<1>4. ReportsTypeOK'
  <2>1. /\ step' \in [Requests -> {"idle", "select", "store", "upsert"}]
        /\ work' \in [Requests -> Work \cup {None}]
    BY <1>1, <1>2 DEF ReportsTypeOK
  <2> QED BY <1>1, <1>2, <1>3, <2>1 DEF ReportsTypeOK
<1>5. RowsRight' /\ DraftKept' /\ CacheRight'
  BY <1>1 DEF RowsRight, DraftKept, DraftRight, Counted, CacheRight, Agrees
<1>6. WorkRight'
  <2>1. RequestRight(p)'
    BY <1>2, <1>3 DEF RequestRight
  <2>2. \A q \in Requests \ {p} : RequestRight(q)'
    BY <1>1, <1>3, RequestKept DEF WorkRight
  <2> QED BY <2>1, <2>2 DEF WorkRight
<1> QED BY <1>1, <1>4, <1>5, <1>6, NoReply

LEMMA SelectKeeps ==
  ASSUME ReportsInv, NEW p \in Requests, SelectTicketReport(p)
  PROVE  ReportsInv'
<1> DEFINE key == work[p].key
<1>1. key \in Keys /\ UNCHANGED <<stores, made, draft, history>>
  BY DEF SelectTicketReport, ReportsInv, ReportsTypeOK
<1>2. UNCHANGED <<rows, summarised, replaced>>
  BY <1>1 DEF stores, history
<1>3. CASE rows[key] # None
  <2>1. /\ Start(p, key, rows[key], None, "answer")
        /\ reply' = [key |-> key, report |-> rows[key]]
    BY <1>3 DEF SelectTicketReport
  <2>2. rows[key] \in Report /\ AgreesNext(key[1], key[2], rows[key])
    BY <1>1, <1>2, <1>3, RowAgrees
  <2> HIDE DEF key
  <2>3. reply'.key = key /\ reply'.report = rows[key]
    BY <2>1
  <2>4. ReplyRight'
    BY <1>2, <2>2, <2>3 DEF ReplyRight, Agrees, AgreesNext
  <2>5. made' \in 0..MaxReports /\ summarised' \subseteq Artists \X Days \X Report
    BY <1>1, <1>2 DEF ReportsInv, ReportsTypeOK
  <2> QED BY <1>1, <1>2, <2>1, <2>2, <2>4, <2>5, StartKeeps
<1>4. CASE rows[key] = None
  <2>1. Answer(p, [key |-> key, report |-> NotFound])
    BY <1>4 DEF SelectTicketReport
  <2>2. ReplyRight'
    BY <2>1 DEF Answer, ReplyRight
  <2> QED BY <1>1, <2>1, <2>2, EndKeeps
<1> QED BY <1>3, <1>4

LEMMA StoreReviewKeeps ==
  ASSUME ReportsInv, NEW p \in Requests, StoreReview(p)
  PROVE  ReportsInv'
<1> USE DEF ReportsInv
<1> DEFINE key == work[p].key
           report == work[p].report
<1>1. /\ step[p] = "store" /\ work[p] \in Work /\ report \in Report
      /\ key \in Keys \cup {Other}
      /\ UNCHANGED <<overwrites, rows, today, made, draft, summarised, replaced>>
  BY DEF StoreReview, ReportsTypeOK, Work, history
<1>2. /\ cache' \in [Keys -> Report \cup {None}]
      /\ \A k \in Keys : cache'[k] = cache[k] \/ (k = key /\ cache'[k] = report)
  <2>1. CASE key # Other /\ (overwrites \/ cache[key] = None)
    <3>1. cache' = [cache EXCEPT ![key] = report]
      BY <2>1 DEF StoreReview
    <3> QED BY <1>1, <2>1, <3>1 DEF ReportsTypeOK
  <2>2. CASE ~(key # Other /\ (overwrites \/ cache[key] = None))
    <3>1. cache' = cache
      BY <2>2 DEF StoreReview
    <3> QED BY <3>1 DEF ReportsTypeOK
  <2> QED BY <2>1, <2>2
<1>3. reply' = None
  BY DEF StoreReview, Answer
<1>4. \/ /\ step' = [step EXCEPT ![p] = "upsert"] /\ work' = work
         /\ work[p].next = "upsert"
      \/ step' = [step EXCEPT ![p] = "idle"] /\ work' = [work EXCEPT ![p] = None]
  BY DEF StoreReview, Answer
<1>5. /\ step' \in [Requests -> {"idle", "select", "store", "upsert"}]
      /\ work' \in [Requests -> Work \cup {None}]
      /\ \A q \in Requests \ {p} : step'[q] = step[q] /\ work'[q] = work[q]
      /\ \/ step'[p] = "upsert" /\ work'[p] = work[p] /\ work[p].next = "upsert"
         \/ step'[p] = "idle" /\ work'[p] = None
  BY <1>4 DEF ReportsTypeOK
<1>6. ReportsTypeOK'
  <2>1. ASSUME NEW q \in Requests
        PROVE  /\ step'[q] = "idle" <=> work'[q] = None
               /\ step'[q] \in {"store", "upsert"} => work'[q].report # None
               /\ step'[q] = "upsert" => work'[q].ticket # None /\ work'[q].next = "upsert"
               /\ step'[q] # "idle" /\ work'[q].next = "upsert" =>
                    work'[q].key = Other /\ work'[q].ticket # None
               /\ step'[q] = "select" => work'[q].key \in Keys
    BY <1>1, <1>5 DEF ReportsTypeOK
  <2> QED BY <1>1, <1>2, <1>5, <2>1 DEF ReportsTypeOK
<1>7. RowsRight' /\ DraftKept'
  BY <1>1 DEF RowsRight, DraftKept, DraftRight, Counted
<1>8. CacheRight'
  <2>1. ASSUME NEW a \in Artists, NEW d \in Days, cache'[<<a, d>>] # None
        PROVE  AgreesNext(a, d, cache'[<<a, d>>])
    <3>1. <<a, d>> \in Keys
      BY DEF Keys
    <3>2. CASE cache'[<<a, d>>] = cache[<<a, d>>]
      BY <1>1, <2>1, <3>2 DEF CacheRight, Agrees, AgreesNext
    <3>3. CASE <<a, d>> = key /\ cache'[<<a, d>>] = report
      <4>1. key # Other /\ key[1] = a /\ key[2] = d
        BY <3>1, <3>3, ReportsAssumption
      <4> QED BY <1>1, <3>3, <4>1 DEF WorkRight, RequestRight, Agrees, AgreesNext
    <3> QED BY <1>2, <3>1, <3>2, <3>3
  <2> QED BY <2>1 DEF CacheRight, Agrees, AgreesNext
<1>9. WorkRight'
  <2>1. RequestRight(p)'
    BY <1>1, <1>5 DEF WorkRight, RequestRight, DraftRight, Counted
  <2>2. \A q \in Requests \ {p} : RequestRight(q)'
    BY <1>1, <1>5, RequestKept DEF WorkRight
  <2> QED BY <2>1, <2>2 DEF WorkRight
<1> QED BY <1>3, <1>6, <1>7, <1>8, <1>9, NoReply

(***************************************************************************)
(* Agreement with a row that is replaced is agreement with a replaced row, *)
(* when the report is in the cache or on the way there.                    *)
(***************************************************************************)
LEMMA UpsertKeepsAgreement ==
  ASSUME ReportsInv, NEW p \in Requests, NEW failed \in BOOLEAN,
         UpsertTicketReport(p, failed),
         NEW a \in Artists, NEW d \in Days, NEW report, report # None, Agrees(a, d, report),
         \/ cache[<<a, d>>] = report
         \/ \E q \in Requests : /\ step[q] = "store" /\ work[q].key = <<a, d>>
                                /\ work[q].report = report
  PROVE  AgreesNext(a, d, report)
<1> DEFINE new == work[p].report
           k == <<new.user, new.day>>
<1>1. /\ rows' = IF failed THEN rows ELSE [rows EXCEPT ![k] = new]
      /\ replaced' = IF ~failed /\ rows[k] # None /\ InUse(new.user, new.day)
                     THEN replaced \cup {<<new.user, new.day, rows[k]>>}
                     ELSE replaced
      /\ summarised' = summarised
  BY DEF UpsertTicketReport
<1>2. summarised' \cup replaced' \in {summarised \cup replaced,
        summarised \cup (replaced \cup {<<new.user, new.day, rows[k]>>})}
  BY <1>1
<1>3. CASE <<a, d, report>> \in summarised \cup replaced
  BY <1>2, <1>3 DEF Agrees, AgreesNext
<1>4. CASE report = rows[<<a, d>>] /\ rows'[<<a, d>>] = rows[<<a, d>>]
  BY <1>4 DEF Agrees, AgreesNext
<1>5. CASE report = rows[<<a, d>>] /\ rows'[<<a, d>>] # rows[<<a, d>>]
  <2>1. ~failed /\ k = <<a, d>>
    BY <1>1, <1>5 DEF ReportsInv, ReportsTypeOK, Keys
  <2>2. new.user = a /\ new.day = d
    BY <2>1
  <2>3. InUse(a, d)
    BY <1>5 DEF InUse
  <2>4. <<a, d, report>> \in replaced'
    BY <1>1, <1>5, <2>1, <2>2, <2>3
  <2> QED BY <2>4 DEF Agrees, AgreesNext
<1> QED BY <1>3, <1>4, <1>5 DEF Agrees

LEMMA UpsertKeeps ==
  ASSUME ReportsInv, NEW p \in Requests, NEW failed \in BOOLEAN, UpsertTicketReport(p, failed)
  PROVE  ReportsInv'
<1> USE DEF ReportsInv
<1> DEFINE new == work[p].report
           k == <<new.user, new.day>>
<1>1. /\ step[p] = "upsert" /\ work[p] \in Work /\ new \in Report
      /\ work[p].ticket \in Ticket /\ DraftRight(new, work[p].ticket)
  BY DEF UpsertTicketReport, ReportsTypeOK, Work, WorkRight, RequestRight
<1>2. k \in Keys /\ k[1] = new.user /\ k[2] = new.day
  BY <1>1 DEF Report, Keys
<1>3. /\ rows' = IF failed THEN rows ELSE [rows EXCEPT ![k] = new]
      /\ draft' = [report |-> new, ticket |-> work[p].ticket]
      /\ step' = [step EXCEPT ![p] = "idle"] /\ work' = [work EXCEPT ![p] = None]
      /\ reply' = None
      /\ UNCHANGED <<overwrites, cache, today, made, summarised>>
  BY DEF UpsertTicketReport, Answer
<1>4. /\ rows' \in [Keys -> Report \cup {None}]
      /\ \A j \in Keys : rows'[j] = rows[j] \/ (j = k /\ rows'[j] = new)
  BY <1>1, <1>2, <1>3 DEF ReportsTypeOK
<1>5. replaced' \subseteq Artists \X Days \X Report
  <2>1. \/ replaced' = replaced
        \/ /\ rows[k] # None
           /\ replaced' = replaced \cup {<<new.user, new.day, rows[k]>>}
    BY DEF UpsertTicketReport
  <2>2. rows[k] # None => <<new.user, new.day, rows[k]>> \in Artists \X Days \X Report
    BY <1>1, <1>2 DEF ReportsTypeOK, Report
  <2> QED BY <2>1, <2>2 DEF ReportsTypeOK
<1>6. /\ step' \in [Requests -> {"idle", "select", "store", "upsert"}]
      /\ work' \in [Requests -> Work \cup {None}]
      /\ step'[p] = "idle" /\ work'[p] = None
      /\ \A q \in Requests \ {p} : step'[q] = step[q] /\ work'[q] = work[q]
  BY <1>3 DEF ReportsTypeOK
<1>7. draft' \in TicketReport /\ draft'.report = new /\ draft'.ticket = work[p].ticket
  BY <1>1, <1>3 DEF TicketReport
<1>8. ReportsTypeOK'
  <2>1. ASSUME NEW q \in Requests
        PROVE  /\ step'[q] = "idle" <=> work'[q] = None
               /\ step'[q] \in {"store", "upsert"} => work'[q].report # None
               /\ step'[q] = "upsert" => work'[q].ticket # None /\ work'[q].next = "upsert"
               /\ step'[q] # "idle" /\ work'[q].next = "upsert" =>
                    work'[q].key = Other /\ work'[q].ticket # None
               /\ step'[q] = "select" => work'[q].key \in Keys
    BY <1>6 DEF ReportsTypeOK
  <2> QED BY <1>3, <1>4, <1>5, <1>6, <1>7, <2>1 DEF ReportsTypeOK
<1>9. RowsRight'
  BY <1>1, <1>2, <1>4 DEF RowsRight, DraftRight, Counted
<1>10. CacheRight'
  <2>1. ASSUME NEW a \in Artists, NEW d \in Days, cache[<<a, d>>] # None
        PROVE  AgreesNext(a, d, cache[<<a, d>>])
    BY <2>1, UpsertKeepsAgreement DEF CacheRight
  <2> QED BY <1>3, <2>1 DEF CacheRight, Agrees, AgreesNext
<1>11. WorkRight'
  <2>1. RequestRight(p)'
    BY <1>6 DEF RequestRight
  <2>2. ASSUME NEW q \in Requests \ {p} PROVE RequestRight(q)'
    <3>1. CASE step[q] = "store" /\ work[q].key # Other
      <4>1. /\ work[q] \in Work /\ work[q].key \in Keys /\ work[q].report # None
            /\ Agrees(work[q].key[1], work[q].key[2], work[q].report)
        BY <3>1 DEF ReportsTypeOK, Work, WorkRight, RequestRight
      <4>2. /\ work[q].key[1] \in Artists /\ work[q].key[2] \in Days
            /\ work[q].key = <<work[q].key[1], work[q].key[2]>>
        BY <4>1, KeyParts
      <4>3. AgreesNext(work[q].key[1], work[q].key[2], work[q].report)
        BY <3>1, <4>1, <4>2, UpsertKeepsAgreement
      <4>4. work[q].next = "upsert" => DraftRight(work[q].report, work[q].ticket)
        BY <3>1 DEF WorkRight, RequestRight
      <4> QED BY <1>6, <4>3, <4>4
              DEF RequestRight, Agrees, AgreesNext, DraftRight, Counted
    <3>2. CASE ~(step[q] = "store" /\ work[q].key # Other)
      BY <1>6, <3>2 DEF WorkRight, RequestRight, DraftRight, Counted
    <3> QED BY <3>1, <3>2
  <2> QED BY <2>1, <2>2 DEF WorkRight
<1>12. DraftKept'
  BY <1>1, <1>7 DEF DraftKept, DraftRight, Counted
<1> QED BY <1>3, <1>8, <1>9, <1>10, <1>11, <1>12, NoReply

LEMMA LoseKeeps ==
  ASSUME ReportsInv, NEW key \in Keys, Lose(key)
  PROVE  ReportsInv'
<1> USE DEF ReportsInv
<1>1. /\ cache' = [cache EXCEPT ![key] = None] /\ reply' = None
      /\ UNCHANGED <<overwrites, rows, today, made, draft, step, work, summarised, replaced>>
  BY DEF Lose, history
<1>2. ReportsTypeOK'
  BY <1>1 DEF ReportsTypeOK
<1>3. CacheRight'
  <2>1. \A a \in Artists, d \in Days : cache'[<<a, d>>] # None => cache'[<<a, d>>] = cache[<<a, d>>]
    BY <1>1 DEF ReportsTypeOK, Keys
  <2> QED BY <1>1, <2>1 DEF CacheRight, Agrees
<1>4. RowsRight' /\ DraftKept'
  BY <1>1 DEF RowsRight, DraftKept, DraftRight, Counted
<1>5. WorkRight'
  BY <1>1, RequestKept DEF WorkRight
<1> QED BY <1>1, <1>2, <1>3, <1>4, <1>5, NoReply

LEMMA NextDayKeeps ==
  ASSUME ReportsInv, NextDay
  PROVE  ReportsInv'
<1> USE DEF ReportsInv
<1>1. /\ today < MaxDay /\ today' = today + 1 /\ reply' = None
      /\ UNCHANGED <<overwrites, cache, rows, made, draft, step, work, summarised, replaced>>
  BY DEF NextDay, history
<1>2. ReportsTypeOK'
  BY <1>1, ReportsAssumption DEF ReportsTypeOK, Days
<1>3. RowsRight' /\ DraftKept' /\ CacheRight'
  BY <1>1 DEF RowsRight, DraftKept, DraftRight, Counted, CacheRight, Agrees
<1>4. WorkRight'
  BY <1>1, RequestKept DEF WorkRight
<1> QED BY <1>1, <1>2, <1>3, <1>4, NoReply

LEMMA ReportsNextInv == ReportsInv /\ [Next]_reportVars => ReportsInv'
<1> SUFFICES ASSUME ReportsInv, [Next]_reportVars PROVE ReportsInv'
  OBVIOUS
<1>1. ASSUME NEW p \in Requests, NEW ids \in SUBSET Submissions \ {{}}, NEW last \in ids,
             NEW details \in [ids -> Detail], Review(p, ids, last, details)
      PROVE  ReportsInv'
  BY <1>1, ReviewKeeps
<1>2. ASSUME NEW p \in Requests, NEW subs \in Lists, PatchReport(p, subs)
      PROVE  ReportsInv'
  BY <1>2, PatchReportKeeps
<1>3. ASSUME NEW p \in Requests, NEW a \in Artists,
             NEW ids \in SUBSET {s \in Submissions : Owner[s] = a} \ {{}},
             NEW details \in [ids -> Detail], GetReport(p, a, details)
      PROVE  ReportsInv'
  <2>1. ids \in SUBSET Submissions
    OBVIOUS
  <2> QED BY <1>3, <2>1, GetReportKeeps
<1>4. ASSUME NEW p \in Requests, StoreReview(p) PROVE ReportsInv'
  BY <1>4, StoreReviewKeeps
<1>5. ASSUME NEW p \in Requests, NEW failed \in BOOLEAN, UpsertTicketReport(p, failed)
      PROVE  ReportsInv'
  BY <1>5, UpsertKeeps
<1>6. ASSUME NEW p \in Requests, NEW a \in Artists, GetLatest(p, a) \/ GetLatestOfNone(p, a)
      PROVE  ReportsInv'
  BY <1>6, GetLatestKeeps, GetLatestOfNoneKeeps
<1>7. ASSUME NEW p \in Requests, NEW key \in Keys, GetCached(p, key) \/ Miss(p, key)
      PROVE  ReportsInv'
  BY <1>7, GetCachedKeeps, MissKeeps
<1>8. ASSUME NEW p \in Requests, SelectTicketReport(p) PROVE ReportsInv'
  BY <1>8, SelectKeeps
<1>9. ASSUME NEW key \in Keys, Lose(key) PROVE ReportsInv'
  BY <1>9, LoseKeeps
<1>10. CASE NextDay
  BY <1>10, NextDayKeeps
<1>11. CASE UNCHANGED reportVars
  <2>1. UNCHANGED <<overwrites, cache, rows, today, made, draft, step, work, reply,
                    summarised, replaced>>
    BY <1>11 DEF reportVars, stores, history
  <2>2. WorkRight'
    BY <2>1, RequestKept DEF WorkRight, ReportsInv
  <2> QED BY <2>1, <2>2 DEF ReportsInv, ReportsTypeOK, RowsRight, CacheRight, DraftKept,
                            DraftRight, Counted, ReplyRight, Agrees
<1> QED BY <1>1, <1>2, <1>3, <1>4, <1>5, <1>6, <1>7, <1>8, <1>9, <1>10, <1>11 DEF Next

(* What the requests, the cache and the table of reports are about.        *)
THEOREM ReportsInvariant == Spec => []ReportsInv
BY ReportsInitInv, ReportsNextInv, PTL DEF Spec

(***************************************************************************)
(* The cache of reports and the answers made of it agree with the table,   *)
(* for any number of artists, requests and days.                           *)
(***************************************************************************)
THEOREM CachedReportsAgree == Spec => []CacheAgrees
<1>1. ReportsInv => CacheAgrees
  BY DEF ReportsInv, CacheRight, ReplyRight, CacheAgrees
<1> QED BY <1>1, ReportsInvariant, PTL

(* Every report in the table and every draft counts what it lists.         *)
THEOREM ReportCountsAgree == Spec => []CountsAgree
<1>1. ReportsInv => CountsAgree
  <2>1. ReportsInv => DOMAIN rows = Keys
    BY DEF ReportsInv, ReportsTypeOK
  <2> QED BY <2>1 DEF ReportsInv, RowsRight, DraftKept, DraftRight, CountsAgree
<1> QED BY <1>1, ReportsInvariant, PTL

-----------------------------------------------------------------------------
(* Some image of the submission shows a human.                             *)
Shown == \E f \in FilesOf(sub, Images) : Human[f] > 1

(* Where the goroutines of the files can be.                               *)
AtRight ==
  /\ \A f \in Files :
       /\ at[f] \in {"fetch", "object", "generator", "params", "soph"} => stage = "files"
       /\ at[f] = "fetch" => sub.files[f] \in Texts
       /\ at[f] \in {"object", "generator"} => f \in fetched /\ sub.files[f] \in Objects
       /\ at[f] = "params" => f \in fetched /\ sub.files[f] \in Parameters
       /\ at[f] = "soph" => f \in fetched /\ sub.files[f] = "soph"
       /\ at[f] \in {"read", "write", "detect"} => sub.files[f] \in Images /\ meta.ai
  /\ stage = "idle" => \A f \in Files : at[f] = "done"

Own == Objects \cup {"soph"}

(***************************************************************************)
(* While files come, an object or parameters that came are in the metadata *)
(* or in the hands of the goroutine of their file.                         *)
(***************************************************************************)
ObjectsRight ==
  /\ stage = "lookup" => meta.objects = {} /\ meta.params = {} /\ fetched = {}
  /\ stage = "files" =>
       /\ meta.params \subseteq fetched
       /\ meta.objects \subseteq FilesOf(sub, Own \cup Convertible) \cap fetched
       /\ \A f \in FilesOf(sub, Own) \cap fetched :
            f \in meta.objects \/ at[f] \in {"object", "soph"}
       /\ \A f \in FilesOf(sub, Convertible) \cap fetched :
            meta.objects # {} \/ at[f] = "params"
  /\ ObjectsKept

Prompted(m) ==
  m.objects # {} => (m.missingPrompt <=> \A o \in m.objects : "prompt" \notin Has[o])

(* The metadata of the request, and what is cached of it.                  *)
MetaRight ==
  /\ stage # "idle" => meta \in Metadata
  /\ stage \in {"lookup", "files", "metadata", "store"} => meta.ai /\ source = NoMeta
  /\ stage \in {"store", "join"} => Prompted(meta)
  /\ cached # NoMeta => cached.ai /\ Prompted(cached)
  /\ meta \in Metadata /\ source # NoMeta =>
       meta = [source EXCEPT !.detected = meta.detected, !.confidence = meta.confidence]
  /\ stage = "idle" /\ meta # NoMeta => labels = TicketLabels(meta)

(* A human is only detected by a request that looks at the images.         *)
HumansRight ==
  /\ meta \in Metadata => /\ meta.detected => meta.ai
                          /\ meta.detected \/ meta.confidence > 1 => Shown
  /\ \A f \in Files : confidence[f] > 1 => Shown

(***************************************************************************)
(* What an image of a human wrote stands until it compares it, unless      *)
(* another image writes, and then the human is detected.                   *)
(***************************************************************************)
SureRight ==
  /\ \A f \in Files : at[f] \in {"write", "detect"} /\ Human[f] > 1 => confidence[f] > 1
  /\ \A f \in sure :
       /\ meta \in Metadata
       /\ Human[f] > 1
       /\ at[f] \in {"detect", "done"}
       /\ at[f] = "detect" => meta.confidence > 1
       /\ at[f] = "done" => meta.detected

DetailsInv ==
  DetailsTypeOK /\ AtRight /\ ObjectsRight /\ MetaRight /\ HumansRight /\ SureRight

(* The labels that blame somebody, by what the metadata says.              *)
LEMMA LabelFacts ==
  ASSUME NEW m \in Metadata
  PROVE  /\ ~m.ai /\ ~m.detected => TicketLabels(m) \subseteq {<<"tagged", "human">>}
         /\ m.ai /\ m.objects # {} =>
              (<<"missing", "prompt">> \in TicketLabels(m)
                 <=> \A o \in m.objects : "prompt" \notin Has[o])
         /\ (<<"cannot", "parse">> \in TicketLabels(m) \/ <<"missing", "params">> \in TicketLabels(m))
              <=> m.ai /\ m.objects = {}
         /\ m.detected => <<"detected", "human">> \in TicketLabels(m)
<1>1. ASSUME ~m.ai, ~m.detected PROVE TicketLabels(m) \subseteq {<<"tagged", "human">>}
  BY <1>1 DEF TicketLabels
<1>2. ASSUME m.ai, m.objects # {}
      PROVE  <<"missing", "prompt">> \in TicketLabels(m)
               <=> \A o \in m.objects : "prompt" \notin Has[o]
  BY <1>2 DEF TicketLabels, Hints
<1>3. (<<"cannot", "parse">> \in TicketLabels(m) \/ <<"missing", "params">> \in TicketLabels(m))
        <=> m.ai /\ m.objects = {}
  BY DEF TicketLabels, Hints, Metadata
<1>4. m.detected => <<"detected", "human">> \in TicketLabels(m)
  BY DEF TicketLabels
<1> QED BY <1>1, <1>2, <1>3, <1>4

(* What is seen in the images is one label, the others do not depend on it.*)
LEMMA LabelsSeen ==
  ASSUME NEW m \in Metadata, NEW n \in Metadata,
         m = [n EXCEPT !.detected = m.detected, !.confidence = m.confidence]
  PROVE  Visible(TicketLabels(m)) = Visible(TicketLabels(n))
<1>1. /\ m.ai = n.ai /\ m.human = n.human /\ m.objects = n.objects /\ m.hasTxt = n.hasTxt
      /\ m.hasJSON = n.hasJSON /\ m.missingTags = n.missingTags /\ m.artist = n.artist
      /\ m.tool = n.tool /\ m.generator = n.generator
  BY DEF Metadata
<1> QED BY <1>1 DEF TicketLabels, Visible

(***************************************************************************)
(* The steps of the goroutine of an image change nothing but what is said  *)
(* of humans.                                                              *)
(***************************************************************************)
LEMMA ImageKeeps ==
  ASSUME DetailsInv, NEW f \in Files, at[f] \in {"read", "write", "detect"},
         NEW next \in {"write", "detect", "done"}, at' = [at EXCEPT ![f] = next],
         NEW d \in BOOLEAN, NEW c \in 0..2,
         meta' = [meta EXCEPT !.detected = d, !.confidence = c], d \/ c > 1 => Shown,
         confidence' \in [Files -> 0..2], \A g \in Files : confidence'[g] > 1 => Shown,
         sure' \subseteq FilesOf(sub, Images), SureRight',
         UNCHANGED <<sub, stage, fetched, cached, source, labels, runs>>
  PROVE  DetailsInv'
<1> USE DEF DetailsInv
<1>1. stage # "idle" /\ meta \in Metadata /\ meta.ai /\ sub.files[f] \in Images
  BY DEF AtRight, MetaRight
<1>2. /\ meta' \in Metadata /\ meta'.ai = meta.ai /\ meta'.objects = meta.objects
      /\ meta'.params = meta.params /\ meta'.missingPrompt = meta.missingPrompt
      /\ meta'.detected = d /\ meta'.confidence = c
      /\ source \in Metadata /\ meta = [source EXCEPT !.detected = meta.detected,
                                                      !.confidence = meta.confidence]
           => meta' = [source EXCEPT !.detected = d, !.confidence = c]
  BY <1>1 DEF Metadata
<1>3. \A g \in Files : at'[g] = IF g = f THEN next ELSE at[g]
  BY DEF DetailsTypeOK
<1>4. sub.files[f] \notin Own \cup Parameters
  BY <1>1 DEF Images, Own, Objects, Parameters, Convertible
<1>5. DetailsTypeOK'
  BY <1>2 DEF DetailsTypeOK, FilesOf
<1>6. AtRight'
  BY <1>1, <1>2, <1>3 DEF AtRight
<1>7. ObjectsRight'
  BY <1>2, <1>3, <1>4 DEF ObjectsRight, ObjectsKept, FilesOf, Parameters
<1>8. MetaRight'
  BY <1>1, <1>2 DEF MetaRight, Prompted, DetailsTypeOK
<1>9. HumansRight'
  BY <1>1, <1>2 DEF HumansRight, Shown, FilesOf
<1> QED BY <1>5, <1>6, <1>7, <1>8, <1>9

(* Those of the goroutine of a text file leave that alone.                 *)
LEMMA TextKeeps ==
  ASSUME DetailsInv, NEW f \in Files, at[f] \in {"object", "generator", "params", "soph"},
         NEW next \in {"generator", "done"}, at' = [at EXCEPT ![f] = next],
         at[f] = "object" \/ next = "done",
         meta' \in Metadata, meta'.ai = meta.ai, meta'.detected = meta.detected,
         meta'.confidence = meta.confidence, ObjectsRight',
         UNCHANGED <<sub, stage, confidence, fetched, cached, source, sure, labels, runs>>
  PROVE  DetailsInv'
<1> USE DEF DetailsInv
<1>1. stage = "files" /\ meta \in Metadata /\ source = NoMeta
  BY DEF AtRight, MetaRight
<1>2. \A g \in Files : at'[g] = IF g = f THEN next ELSE at[g]
  BY DEF DetailsTypeOK
<1>3. DetailsTypeOK'
  BY DEF DetailsTypeOK
<1>4. AtRight'
  BY <1>1, <1>2 DEF AtRight
<1>5. MetaRight'
  BY <1>1 DEF MetaRight, Prompted
<1>6. HumansRight'
  BY <1>1 DEF HumansRight, Shown, FilesOf
<1>7. SureRight'
  BY <1>1, <1>2 DEF SureRight, DetailsTypeOK, FilesOf
<1> QED BY <1>3, <1>4, <1>5, <1>6, <1>7

LEMMA ReadConfidenceKeeps ==
  ASSUME DetailsInv, NEW f \in Files, NEW ok \in BOOLEAN, ReadConfidence(f, ok)
  PROVE  DetailsInv'
<1> DEFINE c == IF meta.confidence > Human[f] THEN meta.confidence ELSE Human[f]
<1>1. at[f] = "read" /\ meta \in Metadata /\ sub.files[f] \in Images
  BY DEF ReadConfidence, DetailsInv, AtRight, MetaRight
<1>2. /\ meta.detected \in BOOLEAN /\ meta.confidence \in 0..2 /\ Human[f] \in 0..2
      /\ meta = [meta EXCEPT !.detected = meta.detected, !.confidence = meta.confidence]
  BY <1>1, DetailsAssumption DEF Metadata
<1>3. c \in 0..2 /\ (c > 1 => Shown)
  BY <1>1, <1>2 DEF DetailsInv, HumansRight, Shown, FilesOf
<1>4. meta.detected \/ meta.confidence > 1 => Shown
  BY <1>1 DEF DetailsInv, HumansRight
<1>5. /\ meta' = meta /\ confidence' = [confidence EXCEPT ![f] = c]
      /\ at' = [at EXCEPT ![f] = IF ok THEN "write" ELSE "done"]
      /\ UNCHANGED <<sub, stage, fetched, cached, source, labels, runs>>
  BY DEF ReadConfidence
<1> HIDE DEF c
<1>6. confidence' \in [Files -> 0..2] /\ \A g \in Files : confidence'[g] > 1 => Shown
  BY <1>3, <1>5 DEF DetailsInv, DetailsTypeOK, HumansRight
<1>7. /\ sure' = sure /\ f \notin sure
      /\ Human[f] > 1 => c > 1
      /\ \A g \in Files : g # f => at'[g] = at[g] /\ confidence'[g] = confidence[g]
      /\ at'[f] \in {"write", "done"} /\ confidence'[f] = c
  <2>1. sure' = sure
    BY DEF ReadConfidence
  <2>2. Human[f] > 1 => c > 1
    BY <1>2 DEF c
  <2> QED BY <1>1, <1>5, <2>1, <2>2 DEF DetailsInv, DetailsTypeOK, SureRight
<1>8. SureRight' /\ sure' \subseteq FilesOf(sub, Images)
  BY <1>5, <1>7 DEF DetailsInv, SureRight, DetailsTypeOK, FilesOf
<1> QED BY <1>1, <1>2, <1>4, <1>5, <1>6, <1>8, ImageKeeps

LEMMA WriteConfidenceKeeps ==
  ASSUME DetailsInv, NEW f \in Files, WriteConfidence(f)
  PROVE  DetailsInv'
<1>1. at[f] = "write" /\ meta \in Metadata
  BY DEF WriteConfidence, DetailsInv, AtRight, MetaRight
<1>2. meta.detected \in BOOLEAN /\ (meta.detected \/ confidence[f] > 1 => Shown)
  BY <1>1 DEF Metadata, DetailsInv, HumansRight
<1>3. /\ meta' = [meta EXCEPT !.detected = meta.detected, !.confidence = confidence[f]]
      /\ at' = [at EXCEPT ![f] = "detect"] /\ confidence[f] \in 0..2
      /\ UNCHANGED <<sub, stage, confidence, fetched, cached, source, labels, runs>>
  BY <1>1 DEF WriteConfidence, Metadata, DetailsInv, DetailsTypeOK
<1>4. confidence' \in [Files -> 0..2] /\ \A g \in Files : confidence'[g] > 1 => Shown
  BY <1>3 DEF DetailsInv, DetailsTypeOK, HumansRight
<1>5. /\ sure' = {g \in sure : at[g] # "detect"} \cup {g \in {f} : Human[g] > 1}
      /\ f \in FilesOf(sub, Images)
  BY <1>1 DEF WriteConfidence, DetailsInv, AtRight, FilesOf
<1>6. /\ meta' \in Metadata /\ meta'.detected = meta.detected
      /\ meta'.confidence = confidence[f] /\ (Human[f] > 1 => confidence[f] > 1)
  BY <1>1, <1>3 DEF Metadata, DetailsInv, SureRight
<1>7. SureRight' /\ sure' \subseteq FilesOf(sub, Images)
  BY <1>1, <1>3, <1>5, <1>6 DEF DetailsInv, SureRight, DetailsTypeOK, FilesOf
<1> QED BY <1>1, <1>2, <1>3, <1>4, <1>7, ImageKeeps

LEMMA DetectHumanKeeps ==
  ASSUME DetailsInv, NEW f \in Files, NEW again \in BOOLEAN, DetectHuman(f, again)
  PROVE  DetailsInv'
<1>1. at[f] = "detect" /\ meta \in Metadata
  BY DEF DetectHuman, DetailsInv, AtRight, MetaRight
<1> DEFINE c == IF again THEN meta.confidence ELSE confidence[f]
           d == meta.detected \/ c > 1
<1>2. /\ d \in BOOLEAN /\ meta.confidence \in 0..2
      /\ meta.confidence > 1 => Shown
      /\ d => Shown
  BY <1>1 DEF Metadata, DetailsInv, HumansRight
<1>3. meta' = [meta EXCEPT !.detected = d, !.confidence = meta.confidence]
  BY <1>1 DEF DetectHuman, Metadata
<1>4. /\ at' = [at EXCEPT ![f] = "done"]
      /\ UNCHANGED <<sub, stage, confidence, fetched, cached, source, sure, labels, runs>>
  BY DEF DetectHuman
<1>5. confidence' \in [Files -> 0..2] /\ \A g \in Files : confidence'[g] > 1 => Shown
  BY <1>4 DEF DetailsInv, DetailsTypeOK, HumansRight
<1>6. f \in sure => d
  BY <1>1 DEF DetailsInv, SureRight
<1> HIDE DEF d
<1>7. meta' \in Metadata /\ meta'.detected = d /\ meta'.confidence = meta.confidence
  BY <1>1, <1>2, <1>3 DEF Metadata
<1>8. meta.detected => d
  BY DEF d
<1>9. SureRight' /\ sure' \subseteq FilesOf(sub, Images)
  BY <1>1, <1>4, <1>6, <1>7, <1>8 DEF DetailsInv, SureRight, DetailsTypeOK, FilesOf
<1> QED BY <1>1, <1>2, <1>3, <1>4, <1>5, <1>9, ImageKeeps

LEMMA JSONHeuristicsKeeps ==
  ASSUME DetailsInv, NEW f \in Files, JSONHeuristics(f)
  PROVE  DetailsInv'
<1>1. /\ at[f] = "object" /\ stage = "files" /\ meta \in Metadata
      /\ f \in fetched /\ sub.files[f] \in Objects
  BY DEF JSONHeuristics, DetailsInv, AtRight, MetaRight
<1>2. /\ meta' = [meta EXCEPT !.objects = @ \cup {f}, !.params = @ \cup {f}]
      /\ at' = [at EXCEPT ![f] = "generator"]
      /\ UNCHANGED <<sub, stage, confidence, fetched, cached, source, sure, labels, runs>>
  BY DEF JSONHeuristics
<1>3. /\ meta' \in Metadata /\ meta'.ai = meta.ai /\ meta'.detected = meta.detected
      /\ meta'.confidence = meta.confidence
      /\ meta'.objects = meta.objects \cup {f} /\ meta'.params = meta.params \cup {f}
  BY <1>1, <1>2 DEF Metadata, Sources
<1>4. \A g \in Files : at'[g] = IF g = f THEN "generator" ELSE at[g]
  BY <1>2 DEF DetailsInv, DetailsTypeOK
<1>5. ObjectsRight'
  BY <1>1, <1>2, <1>3, <1>4 DEF DetailsInv, ObjectsRight, ObjectsKept, FilesOf, Own
<1> QED BY <1>1, <1>2, <1>3, <1>5, TextKeeps

LEMMA SetGeneratorKeeps ==
  ASSUME DetailsInv, NEW f \in Files, SetGenerator(f)
  PROVE  DetailsInv'
<1>1. at[f] = "generator" /\ stage = "files" /\ meta \in Metadata
  BY DEF SetGenerator, DetailsInv, AtRight, MetaRight
<1>2. /\ meta' = [meta EXCEPT !.generator = "json"] /\ at' = [at EXCEPT ![f] = "done"]
      /\ UNCHANGED <<sub, stage, confidence, fetched, cached, source, sure, labels, runs>>
  BY DEF SetGenerator
<1>3. /\ meta' \in Metadata /\ meta'.ai = meta.ai /\ meta'.detected = meta.detected
      /\ meta'.confidence = meta.confidence
      /\ meta'.objects = meta.objects /\ meta'.params = meta.params
  BY <1>1, <1>2 DEF Metadata
<1>4. \A g \in Files : at'[g] = IF g = f THEN "done" ELSE at[g]
  BY <1>2 DEF DetailsInv, DetailsTypeOK
<1>5. ObjectsRight'
  BY <1>1, <1>2, <1>3, <1>4 DEF DetailsInv, ObjectsRight, ObjectsKept, FilesOf
<1> QED BY <1>1, <1>2, <1>3, <1>5, TextKeeps

LEMMA SophHeuristicsKeeps ==
  ASSUME DetailsInv, NEW f \in Files, SophHeuristics(f)
  PROVE  DetailsInv'
<1>1. /\ at[f] = "soph" /\ stage = "files" /\ meta \in Metadata
      /\ f \in fetched /\ sub.files[f] = "soph"
  BY DEF SophHeuristics, DetailsInv, AtRight, MetaRight
<1>2. /\ meta' = [meta EXCEPT !.objects = @ \cup {f}]
      /\ at' = [at EXCEPT ![f] = "done"]
      /\ UNCHANGED <<sub, stage, confidence, fetched, cached, source, sure, labels, runs>>
  BY DEF SophHeuristics
<1>3. /\ meta' \in Metadata /\ meta'.ai = meta.ai /\ meta'.detected = meta.detected
      /\ meta'.confidence = meta.confidence
      /\ meta'.objects = meta.objects \cup {f} /\ meta'.params = meta.params
  BY <1>1, <1>2 DEF Metadata, Sources
<1>4. \A g \in Files : at'[g] = IF g = f THEN "done" ELSE at[g]
  BY <1>2 DEF DetailsInv, DetailsTypeOK
<1>5. ObjectsRight'
  BY <1>1, <1>2, <1>3, <1>4 DEF DetailsInv, ObjectsRight, ObjectsKept, FilesOf, Own
<1> QED BY <1>1, <1>2, <1>3, <1>5, TextKeeps

(* What is converted is of the parameters, and something if they can be.   *)
LEMMA ConvertedFacts ==
  ASSUME NEW params \in SUBSET Files
  PROVE  /\ Converted(params) \subseteq {g \in params : sub.files[g] \in Convertible}
         /\ \A g \in params : sub.files[g] \in Convertible =>
              meta.objects # {} \/ Converted(params) # {}
BY DEF Converted, Embedding, Convertible

(* If the file that came last can be converted, there are objects after it.*)
LEMMA ParameterHeuristicsKeeps ==
  ASSUME DetailsInv, NEW f \in Files, ParameterHeuristics(f)
  PROVE  DetailsInv'
<1> DEFINE params == meta.params \cup {f}
           converted == Converted(params)
           embedded == \E g \in converted : sub.files[g] \in Embedding
           tool == ~embedded /\ \E g \in converted : "tool" \in Has[g]
           generator == IF tool THEN "prompt" ELSE IF embedded THEN "json" ELSE meta.generator
<1>1. /\ at[f] = "params" /\ stage = "files" /\ meta \in Metadata
      /\ f \in fetched /\ sub.files[f] \in Parameters
  BY DEF ParameterHeuristics, DetailsInv, AtRight, MetaRight
<1>2. /\ meta' = [meta EXCEPT !.params = params, !.objects = meta.objects \cup converted,
                              !.tool = meta.tool \/ tool, !.generator = generator]
      /\ at' = [at EXCEPT ![f] = "done"]
      /\ UNCHANGED <<sub, stage, confidence, fetched, cached, source, sure, labels, runs>>
  BY DEF ParameterHeuristics
<1>3. /\ params \subseteq Files
      /\ converted \subseteq {g \in params : sub.files[g] \in Convertible}
      /\ sub.files[f] \in Convertible => meta.objects # {} \/ converted # {}
      /\ converted \subseteq Sources
  <2>1. params \in SUBSET Files /\ f \in params
    BY <1>1 DEF Metadata
  <2> HIDE DEF params
  <2> QED BY <2>1, ConvertedFacts DEF Sources
<1>4. /\ meta' \in Metadata /\ meta'.ai = meta.ai /\ meta'.detected = meta.detected
      /\ meta'.confidence = meta.confidence
      /\ meta'.objects = meta.objects \cup converted /\ meta'.params = params
  <2>1. generator \in {"", "description", "prompt", "json"}
    BY <1>1 DEF Metadata
  <2>2. tool \in BOOLEAN
    OBVIOUS
  <2> HIDE DEF params, converted, tool, generator
  <2> QED BY <1>1, <1>2, <1>3, <2>1, <2>2 DEF Metadata
<1> HIDE DEF converted, tool, generator
<1>5. \A g \in Files : at'[g] = IF g = f THEN "done" ELSE at[g]
  BY <1>2 DEF DetailsInv, DetailsTypeOK
<1>6. ObjectsRight'
  <2>1. meta'.params \subseteq fetched
    BY <1>1, <1>4 DEF DetailsInv, ObjectsRight
  <2>2. meta'.objects \subseteq FilesOf(sub, Own \cup Convertible) \cap fetched
    BY <1>1, <1>3, <1>4, <2>1 DEF DetailsInv, ObjectsRight, FilesOf
  <2>3. \A g \in FilesOf(sub, Own) \cap fetched :
          g \in meta'.objects \/ at'[g] \in {"object", "soph"}
    BY <1>1, <1>4, <1>5 DEF DetailsInv, ObjectsRight, FilesOf
  <2>4. ASSUME NEW g \in FilesOf(sub, Convertible) \cap fetched, at'[g] # "params"
        PROVE  meta'.objects # {}
    <3>1. CASE g = f
      BY <1>3, <1>4, <3>1 DEF FilesOf
    <3>2. CASE g # f
      BY <1>1, <1>4, <1>5, <2>4, <3>2 DEF DetailsInv, ObjectsRight, FilesOf
    <3> QED BY <3>1, <3>2
  <2> QED BY <1>1, <1>2, <2>1, <2>2, <2>3, <2>4 DEF ObjectsRight, ObjectsKept, FilesOf
<1> QED BY <1>1, <1>2, <1>4, <1>6, TextKeeps

(* The server dies with the request, whose metadata nobody saw.            *)
LEMMA MapRaceKeeps ==
  ASSUME DetailsInv, NEW f \in Files, MapRace(f)
  PROVE  DetailsInv'
<1> USE DEF DetailsInv
<1>1. /\ stage' = "idle" /\ meta' = NoMeta /\ at' = [g \in Files |-> "done"]
      /\ fetched' = {} /\ source' = NoMeta /\ sure' = {}
      /\ cached' \in {cached, NoMeta}
      /\ UNCHANGED <<sub, confidence, labels, runs>>
  BY DEF MapRace
<1>2. NoMeta \notin Metadata
  BY DetailsAssumption
<1>3. DetailsTypeOK'
  BY <1>1 DEF DetailsTypeOK, FilesOf
<1>4. AtRight' /\ ObjectsRight'
  BY <1>1 DEF AtRight, ObjectsRight, ObjectsKept
<1>5. MetaRight'
  BY <1>1, <1>2 DEF MetaRight, Prompted
<1>6. HumansRight'
  BY <1>1, <1>2 DEF HumansRight, Shown, FilesOf
<1>7. SureRight'
  BY <1>1 DEF SureRight
<1> QED BY <1>3, <1>4, <1>5, <1>6, <1>7

LEMMA FetchTextKeeps ==
  ASSUME DetailsInv, NEW f \in Files, NEW ok \in BOOLEAN, FetchText(f, ok)
  PROVE  DetailsInv'
<1> USE DEF DetailsInv
<1>1. /\ at[f] = "fetch" /\ stage = "files" /\ sub.files[f] \in Texts
  BY DEF FetchText, AtRight
<1>2. /\ fetched' = IF ok THEN fetched \cup {f} ELSE fetched
      /\ UNCHANGED <<sub, meta, stage, confidence, cached, source, sure, labels, runs>>
  BY DEF FetchText
<1>3. PICK next \in {"object", "params", "soph", "done"} :
        /\ at' = [at EXCEPT ![f] = next]
        /\ next = "object" <=> ok /\ sub.files[f] \in Objects
        /\ next = "params" <=> ok /\ sub.files[f] \in Parameters
        /\ next = "soph" <=> ok /\ sub.files[f] = "soph"
  <2>1. /\ ~(sub.files[f] \in Objects /\ sub.files[f] \in Parameters)
        /\ "soph" \notin Objects \cup Parameters
    BY DEF Objects, Parameters, Convertible
  <2>2. CASE ~ok
    BY <2>2 DEF FetchText
  <2>3. CASE ok /\ sub.files[f] \in Objects
    BY <2>1, <2>3 DEF FetchText
  <2>4. CASE ok /\ sub.files[f] \in Parameters
    BY <2>1, <2>4 DEF FetchText
  <2>5. CASE ok /\ sub.files[f] = "soph"
    BY <2>1, <2>5 DEF FetchText
  <2>6. CASE ok /\ sub.files[f] \notin Objects \cup Parameters \cup {"soph"}
    BY <2>6 DEF FetchText
  <2> QED BY <2>2, <2>3, <2>4, <2>5, <2>6
<1>4. \A g \in Files : at'[g] = IF g = f THEN next ELSE at[g]
  BY <1>3 DEF DetailsTypeOK
<1>5. fetched \subseteq fetched' /\ (\A g \in fetched' : g \in fetched \/ (g = f /\ ok))
      /\ (ok => f \in fetched')
  BY <1>2
<1>6. DetailsTypeOK'
  <2>1. fetched' \subseteq FilesOf(sub, Texts)
    BY <1>1, <1>5 DEF DetailsTypeOK, FilesOf
  <2>2. at' \in [Files -> {"fetch", "object", "generator", "params", "soph", "read",
                           "write", "detect", "done"}]
    BY <1>3 DEF DetailsTypeOK
  <2> QED BY <1>2, <2>1, <2>2 DEF DetailsTypeOK, FilesOf
<1>7. AtRight'
  BY <1>1, <1>2, <1>3, <1>4, <1>5 DEF AtRight
<1>8. ObjectsRight'
  <2>1. sub.files[f] \in Convertible => sub.files[f] \in Parameters
    BY DEF Parameters
  <2> QED BY <1>1, <1>2, <1>3, <1>4, <1>5, <2>1 DEF ObjectsRight, ObjectsKept, FilesOf, Own
<1>9. MetaRight'
  BY <1>1, <1>2 DEF MetaRight, Prompted
<1>10. HumansRight'
  BY <1>1, <1>2 DEF HumansRight, Shown, FilesOf
<1>11. SureRight'
  BY <1>1, <1>2, <1>4 DEF SureRight, DetailsTypeOK, FilesOf
<1> QED BY <1>6, <1>7, <1>8, <1>9, <1>10, <1>11

LEMMA DetailsInitInv == DetailsInit => DetailsInv
<1> SUFFICES ASSUME DetailsInit PROVE DetailsInv
  OBVIOUS
<1>1. DetailsTypeOK
  BY DetailsAssumption DEF DetailsInit, DetailsTypeOK
<1>2. meta = NoMeta /\ labels = {} /\ source = NoMeta /\ cached = NoMeta /\ stage = "idle"
      /\ sure = {}
  BY DEF DetailsInit
<1>3. AtRight /\ ObjectsRight
  BY DEF DetailsInit, AtRight, ObjectsRight, ObjectsKept
<1>4. MetaRight /\ HumansRight /\ SureRight
  BY <1>2, DetailsAssumption DEF DetailsInit, MetaRight, HumansRight, SureRight
<1> QED BY <1>1, <1>3, <1>4 DEF DetailsInv

LEMMA ProcessSubmissionKeeps ==
  ASSUME DetailsInv, NEW override \in BOOLEAN, NEW parameters \in BOOLEAN,
         NEW interrogate \in BOOLEAN, ProcessSubmission(override, parameters, interrogate)
  PROVE  DetailsInv'
<1> USE DEF DetailsInv
<1> DEFINE m == SetSubmissionMeta(sub, override)
<1>1. /\ runs' = runs + 1 /\ runs < MaxRuns /\ stage = "idle" /\ meta' = m
      /\ stage' = (IF m.ai /\ parameters THEN "lookup" ELSE "join")
      /\ at' = [f \in Files |-> IF m.ai /\ interrogate /\ sub.files[f] \in Images
                                THEN "read" ELSE "done"]
      /\ fetched' = {} /\ source' = NoMeta /\ sure' = {}
      /\ UNCHANGED <<sub, confidence, cached, labels>>
  BY DEF ProcessSubmission
<1>2. /\ m \in Metadata /\ m.objects = {} /\ m.params = {} /\ ~m.detected
      /\ m.confidence = 0
  <2>1. /\ sub.tool \in BOOLEAN
        /\ (override \/ "generated" \in sub.keywords \/ sub.tool) \in BOOLEAN
    BY DetailsAssumption DEF DetailsTypeOK
  <2> QED BY <2>1 DEF SetSubmissionMeta, Metadata
<1> HIDE DEF m
<1>3. DetailsTypeOK'
  <2>1. runs' \in 0..MaxRuns
    BY <1>1, DetailsAssumption DEF DetailsTypeOK
  <2> QED BY <1>1, <1>2, <2>1 DEF DetailsTypeOK
<1>4. AtRight'
  BY <1>1 DEF AtRight
<1>5. ObjectsRight'
  BY <1>1, <1>2 DEF ObjectsRight, ObjectsKept
<1>6. MetaRight'
  BY <1>1, <1>2 DEF MetaRight, Prompted
<1>7. HumansRight' /\ SureRight'
  BY <1>1, <1>2 DEF HumansRight, SureRight, Shown, FilesOf
<1> QED BY <1>3, <1>4, <1>5, <1>6, <1>7

LEMMA RetrieveParamsKeeps ==
  ASSUME DetailsInv, NEW noCache \in BOOLEAN, RetrieveParams(noCache)
  PROVE  DetailsInv'
<1> USE DEF DetailsInv
<1>1. /\ stage = "lookup" /\ meta \in Metadata /\ meta.ai
      /\ meta.objects = {} /\ meta.params = {} /\ fetched = {}
      /\ meta.detected \in BOOLEAN /\ meta.confidence \in 0..2
      /\ UNCHANGED <<sub, confidence, fetched, cached, sure, labels, runs>>
  BY DEF RetrieveParams, MetaRight, ObjectsRight, Metadata
<1>2. CASE cached # NoMeta /\ ~noCache
  <2>1. /\ meta' = [cached EXCEPT !.detected = meta.detected, !.confidence = meta.confidence]
        /\ source' = cached /\ stage' = "join" /\ at' = at
    BY <1>2 DEF RetrieveParams
  <2>2. /\ cached \in Metadata /\ cached.ai /\ Prompted(cached)
    BY <1>2 DEF DetailsTypeOK, MetaRight
  <2>3. /\ meta' \in Metadata /\ meta'.ai /\ meta'.objects = cached.objects
        /\ meta'.missingPrompt = cached.missingPrompt
        /\ meta'.detected = meta.detected /\ meta'.confidence = meta.confidence
    BY <1>1, <2>1, <2>2 DEF Metadata
  <2>4. DetailsTypeOK'
    BY <1>1, <2>1, <2>2, <2>3 DEF DetailsTypeOK
  <2>5. AtRight'
    BY <1>1, <2>1, <2>3 DEF AtRight
  <2>6. ObjectsRight'
    BY <2>1 DEF ObjectsRight, ObjectsKept
  <2>7. MetaRight'
    BY <1>1, <2>1, <2>2, <2>3 DEF MetaRight, Prompted
  <2>8. HumansRight' /\ SureRight'
    BY <1>1, <2>1, <2>3 DEF HumansRight, SureRight, Shown, FilesOf
  <2> QED BY <2>4, <2>5, <2>6, <2>7, <2>8
<1>3. CASE ~(cached # NoMeta /\ ~noCache)
  <2>1. /\ stage' = "files"
        /\ at' = [f \in Files |-> IF sub.files[f] \in Texts THEN "fetch" ELSE at[f]]
        /\ UNCHANGED <<meta, source>>
    BY <1>3 DEF RetrieveParams
  <2>2. DetailsTypeOK'
    BY <1>1, <2>1 DEF DetailsTypeOK, FilesOf
  <2>3. AtRight'
    <3>1. ASSUME NEW f \in Files, sub.files[f] \notin Texts
          PROVE  at[f] \in {"read", "write", "detect", "done"}
      BY <1>1 DEF AtRight, DetailsTypeOK
    <3> QED BY <1>1, <2>1, <3>1 DEF AtRight
  <2>4. ObjectsRight'
    BY <1>1, <2>1 DEF ObjectsRight, ObjectsKept, FilesOf
  <2>5. MetaRight'
    BY <1>1, <2>1 DEF MetaRight, Prompted
  <2>6. HumansRight' /\ SureRight'
    <3>1. \A f \in sure : f \in Files /\ sub.files[f] \notin Texts
      BY DEF DetailsTypeOK, FilesOf, Images, Texts
    <3>2. \A f \in Files : at'[f] \in {"write", "detect", "done"} =>
            at'[f] = at[f] /\ sub.files[f] \notin Texts
      BY <2>1
    <3> QED BY <1>1, <2>1, <3>1, <3>2 DEF HumansRight, SureRight, Shown, FilesOf
  <2> QED BY <2>2, <2>3, <2>4, <2>5, <2>6
<1> QED BY <1>2, <1>3

(* All files have come: nothing is in the hands of a goroutine any more.   *)
LEMMA DescriptionKeeps ==
  ASSUME DetailsInv, DescriptionHeuristics
  PROVE  DetailsInv'
<1> USE DEF DetailsInv
<1>1. /\ stage = "files" /\ meta \in Metadata /\ stage' = "metadata"
      /\ \A f \in FilesOf(sub, Texts) : at[f] = "done"
      /\ UNCHANGED <<sub, at, confidence, fetched, cached, source, sure, labels, runs>>
  BY DEF DescriptionHeuristics, MetaRight
<1>2. /\ meta' \in Metadata /\ meta'.ai = meta.ai /\ meta'.detected = meta.detected
      /\ meta'.confidence = meta.confidence
      /\ \/ meta'.objects = meta.objects
         \/ meta.objects = {} /\ meta'.objects = {Description}
  BY <1>1 DEF DescriptionHeuristics, Metadata, Sources
<1>3. \A f \in Files : sub.files[f] \in Texts => at[f] = "done"
  BY <1>1 DEF FilesOf
<1>4. Own \subseteq Texts /\ Convertible \subseteq Texts
  BY DEF Own, Objects, Convertible, Texts, Kinds
<1>5. DetailsTypeOK'
  BY <1>1, <1>2 DEF DetailsTypeOK
<1>6. AtRight'
  <2>1. ASSUME NEW f \in Files PROVE at[f] \notin {"fetch", "object", "generator", "params", "soph"}
    <3>1. CASE sub.files[f] \in Texts
      BY <1>3, <3>1
    <3>2. CASE sub.files[f] \notin Texts
      BY <1>4, <3>2 DEF AtRight, Own, Parameters, Convertible, Texts, Kinds
    <3> QED BY <3>1, <3>2
  <2> QED BY <1>1, <1>2, <2>1 DEF AtRight
<1>7. ObjectsRight'
  <2>1. FilesOf(sub, Own) \cap fetched \subseteq meta.objects
    BY <1>1, <1>3, <1>4 DEF ObjectsRight, FilesOf
  <2>2. FilesOf(sub, Convertible) \cap fetched # {} => meta.objects # {}
    BY <1>1, <1>3, <1>4 DEF ObjectsRight, FilesOf
  <2>3. meta.objects \subseteq FilesOf(sub, Own \cup Convertible) \cap fetched
    BY <1>1 DEF ObjectsRight
  <2>4. Description \notin meta.objects
    BY <2>3, DetailsAssumption DEF FilesOf
  <2>5. ObjectsKept'
    BY <1>1, <1>2, <2>1, <2>2, <2>3, <2>4 DEF ObjectsKept, FilesOf, Own
  <2> QED BY <1>1, <2>5 DEF ObjectsRight
<1>8. MetaRight'
  BY <1>1, <1>2 DEF MetaRight, Prompted
<1>9. HumansRight' /\ SureRight'
  BY <1>1, <1>2 DEF HumansRight, SureRight, Shown, FilesOf
<1> QED BY <1>5, <1>6, <1>7, <1>8, <1>9

LEMMA ProcessObjectMetadataKeeps ==
  ASSUME DetailsInv, ProcessObjectMetadata
  PROVE  DetailsInv'
<1> USE DEF DetailsInv
<1> DEFINE some(h) == \E o \in meta.objects : h \in Has[o]
           artist == meta.artist \/ some("artist")
           tool == meta.tool \/ some("tool")
           generator == IF some("tool") THEN "prompt" ELSE meta.generator
           noPrompt == ~some("prompt")
           noModel == ~some("model")
<1>1. /\ stage = "metadata" /\ meta \in Metadata /\ meta.ai /\ stage' = "store"
      /\ UNCHANGED <<sub, at, confidence, fetched, cached, source, sure, labels, runs>>
  BY DEF ProcessObjectMetadata, MetaRight
<1>2. /\ meta' \in Metadata /\ meta'.ai /\ meta'.detected = meta.detected
      /\ meta'.confidence = meta.confidence /\ meta'.objects = meta.objects
      /\ meta'.missingPrompt = noPrompt
  <2>1. /\ (meta.ai \/ meta.objects # {}) = TRUE
        /\ meta.generator \in {"", "description", "prompt", "json"}
    BY <1>1 DEF Metadata
  <2>2. /\ artist \in BOOLEAN /\ tool \in BOOLEAN /\ noPrompt \in BOOLEAN
        /\ noModel \in BOOLEAN
    OBVIOUS
  <2>3. generator \in {"", "description", "prompt", "json"}
    BY <2>1
  <2>4. meta' = [meta EXCEPT !.ai = TRUE, !.artist = artist, !.tool = tool,
                             !.generator = generator, !.missingPrompt = noPrompt,
                             !.missingModel = noModel]
    BY <2>1 DEF ProcessObjectMetadata
  <2> HIDE DEF artist, tool, generator, noPrompt, noModel
  <2>5. meta' = [ai |-> TRUE, generated |-> meta.generated, human |-> meta.human,
                 tool |-> tool, generator |-> generator, hasTxt |-> meta.hasTxt,
                 hasJSON |-> meta.hasJSON, missingPrompt |-> noPrompt,
                 missingModel |-> noModel, missingTags |-> meta.missingTags,
                 artist |-> artist, detected |-> meta.detected,
                 confidence |-> meta.confidence, objects |-> meta.objects,
                 params |-> meta.params]
    BY <1>1, <2>4 DEF Metadata
  <2>6. meta' \in Metadata
    BY <1>1, <2>2, <2>3, <2>5 DEF Metadata
  <2> QED BY <2>5, <2>6
<1>3. Prompted(meta')
  BY <1>2 DEF Prompted
<1>4. DetailsTypeOK'
  BY <1>1, <1>2 DEF DetailsTypeOK
<1>5. AtRight'
  BY <1>1, <1>2 DEF AtRight
<1>6. ObjectsRight'
  BY <1>1, <1>2 DEF ObjectsRight, ObjectsKept, FilesOf
<1>7. MetaRight'
  BY <1>1, <1>2, <1>3 DEF MetaRight, Prompted
<1>8. HumansRight' /\ SureRight'
  BY <1>1, <1>2 DEF HumansRight, SureRight, Shown, FilesOf
<1> QED BY <1>4, <1>5, <1>6, <1>7, <1>8

LEMMA StoreParamsKeeps ==
  ASSUME DetailsInv, NEW failed \in BOOLEAN, StoreParams(failed)
  PROVE  DetailsInv'
<1> USE DEF DetailsInv
<1>1. /\ stage = "store" /\ meta \in Metadata /\ meta.ai /\ Prompted(meta)
      /\ stage' = "join" /\ (cached' = cached \/ cached' = meta)
      /\ UNCHANGED <<sub, meta, at, confidence, fetched, source, sure, labels, runs>>
  BY DEF StoreParams, MetaRight
<1>2. DetailsTypeOK'
  BY <1>1 DEF DetailsTypeOK
<1>3. AtRight' /\ ObjectsRight'
  BY <1>1 DEF AtRight, ObjectsRight, ObjectsKept
<1>4. MetaRight'
  BY <1>1 DEF MetaRight, Prompted
<1>5. HumansRight' /\ SureRight'
  BY <1>1 DEF HumansRight, SureRight, Shown, FilesOf
<1> QED BY <1>2, <1>3, <1>4, <1>5

LEMMA MakeDetailKeeps ==
  ASSUME DetailsInv, MakeDetail
  PROVE  DetailsInv'
<1> USE DEF DetailsInv
<1>1. /\ stage = "join" /\ meta \in Metadata /\ stage' = "idle" /\ labels' = TicketLabels(meta)
      /\ \A f \in Files : at[f] = "done"
      /\ UNCHANGED <<sub, meta, at, confidence, fetched, cached, source, sure, runs>>
  BY DEF MakeDetail, MetaRight
<1>2. DetailsTypeOK'
  BY <1>1 DEF DetailsTypeOK
<1>3. AtRight' /\ ObjectsRight'
  BY <1>1 DEF AtRight, ObjectsRight, ObjectsKept
<1>4. labels' = TicketLabels(meta')
  BY <1>1
<1>5. MetaRight'
  BY <1>1, <1>4 DEF MetaRight, Prompted, TicketLabels
<1>6. HumansRight' /\ SureRight'
  BY <1>1 DEF HumansRight, SureRight, Shown, FilesOf
<1> QED BY <1>2, <1>3, <1>5, <1>6

LEMMA EditKeeps ==
  ASSUME DetailsInv, NEW new \in Submitted, Edit(new)
  PROVE  DetailsInv'
<1> USE DEF DetailsInv
<1>1. /\ stage = "idle" /\ sub' = new /\ new.files = sub.files /\ meta' = NoMeta /\ sure' = {}
      /\ UNCHANGED <<stage, at, confidence, fetched, cached, source, labels, runs>>
  BY DEF Edit
<1>2. NoMeta \notin Metadata
  BY DetailsAssumption
<1>3. DetailsTypeOK'
  BY <1>1 DEF DetailsTypeOK, FilesOf
<1>4. AtRight'
  BY <1>1 DEF AtRight
<1>5. ObjectsRight'
  BY <1>1 DEF ObjectsRight, ObjectsKept
<1>6. MetaRight'
  BY <1>1, <1>2 DEF MetaRight, Prompted
<1>7. HumansRight' /\ SureRight'
  BY <1>1, <1>2 DEF HumansRight, SureRight, Shown, FilesOf
<1> QED BY <1>3, <1>4, <1>5, <1>6, <1>7

LEMMA EvictKeeps ==
  ASSUME DetailsInv, Evict
  PROVE  DetailsInv'
<1> USE DEF DetailsInv
<1>1. /\ cached' = NoMeta
      /\ UNCHANGED <<sub, meta, stage, at, confidence, fetched, source, sure, labels, runs>>
  BY DEF Evict
<1>2. DetailsTypeOK'
  BY <1>1 DEF DetailsTypeOK
<1>3. AtRight' /\ ObjectsRight'
  BY <1>1 DEF AtRight, ObjectsRight, ObjectsKept
<1>4. MetaRight'
  BY <1>1 DEF MetaRight, Prompted
<1>5. HumansRight' /\ SureRight'
  BY <1>1 DEF HumansRight, SureRight, Shown, FilesOf
<1> QED BY <1>2, <1>3, <1>4, <1>5

LEMMA DetailsStutter ==
  ASSUME DetailsInv, UNCHANGED detailVars
  PROVE  DetailsInv'
BY DEF detailVars, DetailsInv, DetailsTypeOK, AtRight, ObjectsRight, ObjectsKept, MetaRight,
       HumansRight, SureRight, Shown, FilesOf

LEMMA DetailsNextInv == DetailsInv /\ [DetailsNext]_detailVars => DetailsInv'
<1> SUFFICES ASSUME DetailsInv, [DetailsNext]_detailVars PROVE DetailsInv'
  OBVIOUS
<1>1. ASSUME NEW override \in BOOLEAN, NEW parameters \in BOOLEAN, NEW interrogate \in BOOLEAN,
             ProcessSubmission(override, parameters, interrogate)
      PROVE  DetailsInv'
  BY <1>1, ProcessSubmissionKeeps
<1>2. ASSUME NEW noCache \in BOOLEAN, RetrieveParams(noCache) PROVE DetailsInv'
  BY <1>2, RetrieveParamsKeeps
<1>3. ASSUME NEW f \in Files, NEW ok \in BOOLEAN, FetchText(f, ok) \/ ReadConfidence(f, ok)
      PROVE  DetailsInv'
  BY <1>3, FetchTextKeeps, ReadConfidenceKeeps
<1>4. ASSUME NEW f \in Files,
             JSONHeuristics(f) \/ SetGenerator(f) \/ SophHeuristics(f)
               \/ ParameterHeuristics(f) \/ MapRace(f) \/ WriteConfidence(f)
      PROVE  DetailsInv'
  BY <1>4, JSONHeuristicsKeeps, SetGeneratorKeeps, SophHeuristicsKeeps,
     ParameterHeuristicsKeeps, MapRaceKeeps, WriteConfidenceKeeps
<1>5. ASSUME NEW f \in Files, NEW again \in BOOLEAN, DetectHuman(f, again) PROVE DetailsInv'
  BY <1>5, DetectHumanKeeps
<1>6. CASE DescriptionHeuristics
  BY <1>6, DescriptionKeeps
<1>7. CASE ProcessObjectMetadata
  BY <1>7, ProcessObjectMetadataKeeps
<1>8. ASSUME NEW failed \in BOOLEAN, StoreParams(failed) PROVE DetailsInv'
  BY <1>8, StoreParamsKeeps
<1>9. CASE MakeDetail
  BY <1>9, MakeDetailKeeps
<1>10. ASSUME NEW new \in Submitted, Edit(new) PROVE DetailsInv'
  BY <1>10, EditKeeps
<1>11. CASE Evict
  BY <1>11, EvictKeeps
<1>12. CASE UNCHANGED detailVars
  BY <1>12, DetailsStutter
<1> QED BY <1>1, <1>2, <1>3, <1>4, <1>5, <1>6, <1>7, <1>8, <1>9, <1>10, <1>11, <1>12
        DEF DetailsNext

(* Where the goroutines of the files are, and what they have left behind.  *)
THEOREM DetailsInvariant == DetailsSpec => []DetailsInv
BY DetailsInitInv, DetailsNextInv, PTL DEF DetailsSpec

(***************************************************************************)
(* However the goroutines of any number of files take turns, no object of  *)
(* a file that came is lost.                                               *)
(***************************************************************************)
THEOREM DetailObjectsKept == DetailsSpec => []ObjectsKept
<1>1. DetailsInv => ObjectsKept
  BY DEF DetailsInv, ObjectsRight
<1> QED BY <1>1, DetailsInvariant, PTL

(* And the labels agree with the metadata they are made of.                *)
THEOREM DetailLabelsAgree == DetailsSpec => []LabelsAgree
<1>1. ASSUME DetailsInv PROVE LabelsAgree
  <2> USE <1>1 DEF DetailsInv
  <2>1. ASSUME stage = "join", meta.ai, meta.objects # {}
        PROVE  meta.missingPrompt <=> <<"missing", "prompt">> \in TicketLabels(meta)
    <3>1. meta \in Metadata /\ Prompted(meta)
      BY <2>1 DEF MetaRight
    <3> QED BY <2>1, <3>1, LabelFacts DEF Prompted
  <2>2. ASSUME meta # NoMeta, meta.detected
        PROVE  \E f \in FilesOf(sub, Images) : Human[f] > 1
    BY <2>2 DEF DetailsTypeOK, HumansRight, Shown
  <2>3. ASSUME stage = "idle", meta # NoMeta
        PROVE  /\ ~meta.ai => labels \subseteq {<<"tagged", "human">>}
               /\ sure # {} => <<"detected", "human">> \in labels
               /\ source # NoMeta => Visible(labels) = Visible(TicketLabels(source))
               /\ <<"cannot", "parse">> \in labels \/ <<"missing", "params">> \in labels
                    <=> meta.ai /\ meta.objects = {}
    <3>1. /\ meta \in Metadata /\ labels = TicketLabels(meta) /\ source \in Metadata \cup {NoMeta}
          /\ meta.detected => meta.ai
      BY <2>3 DEF DetailsTypeOK, MetaRight, HumansRight
    <3>2. ~meta.ai => labels \subseteq {<<"tagged", "human">>}
      BY <3>1, LabelFacts
    <3>3. source # NoMeta => Visible(labels) = Visible(TicketLabels(source))
      BY <3>1, LabelsSeen DEF MetaRight
    <3>4. <<"cannot", "parse">> \in labels \/ <<"missing", "params">> \in labels
            <=> meta.ai /\ meta.objects = {}
      BY <3>1, LabelFacts
    <3>5. sure # {} => meta.detected
      BY <2>3 DEF SureRight, AtRight, DetailsTypeOK, FilesOf
    <3> QED BY <3>1, <3>2, <3>3, <3>4, <3>5, LabelFacts
  <2>4. \A f \in sure : at[f] = "done" => meta.detected
    BY DEF SureRight
  <2> QED BY <2>1, <2>2, <2>3, <2>4 DEF LabelsAgree
<1> QED BY <1>1, DetailsInvariant, PTL

-----------------------------------------------------------------------------
(* The lastSplit of the writer that writes next.                           *)
Current == IF grouping THEN copied ELSE lastSplit

(* No point marked is after it: what follows in the buffer has none.       *)
MarksPassed == \A m \in marks : m <= flushed + Current

(* A buffer with a point to split at has not outgrown SplitSize.           *)
SplitInTime == Current < SplitSize /\ (Current > 0 => Buffered <= SplitSize)

(* The bytes flushed end where a chunk ends.                               *)
ChunkBefore == flushed # 0 => \E b \in chunks : b[2] = flushed

WriterInv ==
  /\ WriterTypeOK
  /\ SplitInRange
  /\ MarksPassed
  /\ SplitInTime
  /\ ChunkBefore
  /\ ChunksFit

(* The initial state, of an empty buffer.                                  *)
LEMMA WriterInitInv == WriterInit => WriterInv
<1> SUFFICES ASSUME WriterInit PROVE WriterInv
  OBVIOUS
<1>1. WriterTypeOK
  BY DEF WriterInit, WriterTypeOK
<1>2. Current = 0 /\ Buffered = 0 /\ SplitSize \in Nat /\ SplitSize > 0
  BY WriterAssumption DEF WriterInit, Current, Buffered
<1>3. SplitInRange /\ SplitInTime
  BY <1>2 DEF WriterInit, SplitInRange, SplitInTime, Current
<1>4. MarksPassed /\ ChunkBefore /\ ChunksFit
  BY DEF WriterInit, MarksPassed, ChunkBefore, ChunksFit
<1> QED BY <1>1, <1>3, <1>4 DEF WriterInv

(* What a flush up to the position to does to the chunks, whoever marks    *)
(* the end of the text.                                                    *)
LEMMA FlushKeepsChunks ==
  ASSUME WriterInv, NEW to \in Nat, flushed <= to,
         to - flushed > SplitSize => \A m \in marks : ~(flushed < m /\ m < to),
         flushed' = to, chunks' = chunks \cup {<<flushed, to>>},
         \A m \in marks' : m \in marks \/ (m \in Nat /\ m >= to)
  PROVE  ChunkBefore' /\ ChunksFit' /\ chunks' \subseteq Nat \X Nat
<1>1. /\ flushed \in Nat /\ marks \subseteq Nat /\ chunks \subseteq Nat \X Nat
      /\ SplitSize \in Nat
  BY WriterAssumption DEF WriterInv, WriterTypeOK
<1>2. <<flushed, to>> \in chunks'
  OBVIOUS
<1>3. ChunkBefore'
  BY <1>2 DEF ChunkBefore
<1>4. ASSUME NEW c \in chunks'
      PROVE  /\ c[2] - c[1] > SplitSize => \A m \in marks' : ~(c[1] < m /\ m < c[2])
             /\ c[1] # 0 => \E b \in chunks' : b[2] = c[1]
             /\ c[2] <= flushed'
  <2>1. CASE c \in chunks
    <3>1. c[1] \in Nat /\ c[2] \in Nat /\ c[2] <= flushed
      BY <1>1, <2>1 DEF WriterInv, ChunksFit
    <3>2. c[2] - c[1] > SplitSize => \A m \in marks : ~(c[1] < m /\ m < c[2])
      BY <2>1 DEF WriterInv, ChunksFit
    <3>3. c[1] # 0 => \E b \in chunks : b[2] = c[1]
      BY <2>1 DEF WriterInv, ChunksFit
    <3>4. ASSUME c[2] - c[1] > SplitSize, NEW m \in marks'
          PROVE  ~(c[1] < m /\ m < c[2])
      <4>1. CASE m \in marks
        BY <3>2, <3>4, <4>1
      <4>2. CASE m \in Nat /\ m >= to
        BY <3>1, <1>1, <4>2
      <4> QED BY <4>1, <4>2
    <3>5. c[2] <= flushed'
      BY <3>1, <1>1
    <3> QED BY <3>3, <3>4, <3>5
  <2>2. CASE c = <<flushed, to>>
    <3>1. c[1] = flushed /\ c[2] = to
      BY <2>2
    <3>2. ASSUME to - flushed > SplitSize, NEW m \in marks'
          PROVE  ~(flushed < m /\ m < to)
      <4>1. CASE m \in marks
        BY <3>2, <4>1
      <4>2. CASE m \in Nat /\ m >= to
        BY <4>2
      <4> QED BY <4>1, <4>2
    <3>3. flushed # 0 => \E b \in chunks : b[2] = flushed
      BY DEF WriterInv, ChunkBefore
    <3> QED BY <3>1, <3>2, <3>3
  <2> QED BY <2>1, <2>2
<1>5. ChunksFit'
  BY <1>4 DEF ChunksFit
<1>6. chunks' \subseteq Nat \X Nat
  BY <1>1
<1> QED BY <1>3, <1>5, <1>6

(* A step that flushes nothing and marks at most the end of the text.      *)
LEMMA NoFlushKeepsChunks ==
  ASSUME WriterInv, UNCHANGED <<flushed, chunks>>,
         \A m \in marks' : m \in marks \/ (m \in Nat /\ m >= flushed)
  PROVE  ChunkBefore' /\ ChunksFit'
<1>1. chunks \subseteq Nat \X Nat /\ flushed \in Nat
  BY DEF WriterInv, WriterTypeOK
<1>2. ChunkBefore'
  BY DEF WriterInv, ChunkBefore
<1>3. ASSUME NEW c \in chunks, c[2] - c[1] > SplitSize, NEW m \in marks'
      PROVE  ~(c[1] < m /\ m < c[2])
  <2>1. c[1] \in Nat /\ c[2] \in Nat /\ c[2] <= flushed
    BY <1>1 DEF WriterInv, ChunksFit
  <2>2. CASE m \in marks
    BY <1>3, <2>2 DEF WriterInv, ChunksFit
  <2>3. CASE m \in Nat /\ m >= flushed
    BY <1>1, <2>1, <2>3
  <2> QED BY <2>2, <2>3
<1>4. ChunksFit'
  BY <1>3 DEF WriterInv, ChunksFit
<1> QED BY <1>2, <1>4

(* WriteString, of the writer or of the copy: split is its lastSplit.      *)
LEMMA WriteKeeps ==
  ASSUME WriterInv, NEW n \in Nat, n > 0, NEW STATE split, split = Current,
         Write(n, split), Current' = SplitAfter(n, split), UNCHANGED marks
  PROVE  /\ written' \in Nat /\ flushed' \in Nat /\ chunks' \subseteq Nat \X Nat
         /\ SplitAfter(n, split) \in Nat
         /\ flushed' <= written' /\ Current' <= Buffered'
         /\ MarksPassed' /\ SplitInTime' /\ ChunkBefore' /\ ChunksFit'
<1>1. /\ written \in Nat /\ flushed \in Nat /\ split \in Nat
      /\ marks \subseteq Nat /\ SplitSize \in Nat /\ SplitSize > 0
  BY WriterAssumption DEF WriterInv, WriterTypeOK, Current
<1>2. /\ flushed <= written /\ split <= written - flushed /\ split < SplitSize
      /\ split > 0 => written - flushed <= SplitSize
      /\ \A m \in marks : m <= flushed + split
  BY DEF WriterInv, SplitInRange, SplitInTime, MarksPassed, Current, Buffered
<1>3. written' = written + n
  BY DEF Write
<1>4. CASE written + n - flushed > SplitSize /\ split > 0
  <2>1. flushed' = flushed + split /\ chunks' = chunks \cup {<<flushed, flushed + split>>}
    BY <1>1, <1>3, <1>4 DEF Write, Flush
  <2>2. SplitAfter(n, split) = 0
    BY <1>4 DEF SplitAfter
  <2>3. ~(flushed + split - flushed > SplitSize)
    BY <1>1, <1>2
  <2>4. flushed + split \in Nat /\ flushed <= flushed + split
    BY <1>1
  <2>5. ChunkBefore' /\ ChunksFit' /\ chunks' \subseteq Nat \X Nat
    <3>1. PICK to \in Nat : to = flushed + split
      BY <2>4
    <3>2. \A m \in marks' : m \in marks
      OBVIOUS
    <3>3. /\ flushed <= to /\ ~(to - flushed > SplitSize)
          /\ flushed' = to /\ chunks' = chunks \cup {<<flushed, to>>}
      <4>1. ~(to - flushed > SplitSize)
        BY <1>1, <2>3, <3>1
      <4> QED BY <2>1, <2>4, <3>1, <4>1
    <3> QED BY <3>2, <3>3, FlushKeepsChunks
  <2>6. flushed' <= written' /\ Current' <= Buffered' /\ SplitInTime'
    BY <1>1, <1>2, <1>3, <2>1, <2>2 DEF Buffered, SplitInTime
  <2>7. MarksPassed'
    BY <1>1, <1>2, <2>1, <2>2 DEF MarksPassed
  <2> QED BY <1>1, <1>3, <2>1, <2>2, <2>5, <2>6, <2>7
<1>5. CASE ~(written + n - flushed > SplitSize /\ split > 0)
  <2>1. flushed' = flushed /\ chunks' = chunks
    <3>1. ~(written' - flushed > SplitSize /\ split > 0)
      BY <1>1, <1>3, <1>5
    <3> QED BY <3>1 DEF Write
  <2>2. SplitAfter(n, split) = split
    BY <1>1, <1>5 DEF SplitAfter
  <2>3. ChunkBefore' /\ ChunksFit'
    BY <2>1, NoFlushKeepsChunks
  <2>4. flushed' <= written' /\ Current' <= Buffered' /\ SplitInTime'
    BY <1>1, <1>2, <1>3, <1>5, <2>1, <2>2 DEF Buffered, SplitInTime
  <2>5. MarksPassed'
    BY <1>2, <2>1, <2>2 DEF MarksPassed
  <2> QED BY <1>1, <1>3, <2>1, <2>2, <2>3, <2>4, <2>5 DEF WriterInv, WriterTypeOK
<1> QED BY <1>4, <1>5

(* Split, by the writer or after groupSubmissions.                         *)
LEMMA MarkKeeps ==
  ASSUME WriterInv, MarkSplit, Current' = lastSplit'
  PROVE  /\ written' \in Nat /\ flushed' \in Nat /\ chunks' \subseteq Nat \X Nat
         /\ lastSplit' \in Nat /\ marks' \subseteq Nat
         /\ flushed' <= written' /\ Current' <= Buffered'
         /\ MarksPassed' /\ SplitInTime' /\ ChunkBefore' /\ ChunksFit'
<1>1. /\ written \in Nat /\ flushed \in Nat /\ Current \in Nat
      /\ marks \subseteq Nat /\ SplitSize \in Nat /\ SplitSize > 0
  BY WriterAssumption DEF WriterInv, WriterTypeOK, Current
<1>2. /\ flushed <= written /\ Current <= written - flushed
      /\ Current > 0 => written - flushed <= SplitSize
      /\ \A m \in marks : m <= flushed + Current
  BY DEF WriterInv, SplitInRange, SplitInTime, MarksPassed, Current, Buffered
<1>3. written' = written /\ marks' = marks \cup {written}
  BY DEF MarkSplit
<1>4. \A m \in marks' : m \in Nat /\ m <= written
  BY <1>1, <1>2, <1>3
<1>5. CASE Buffered >= SplitSize
  <2>1. flushed' = flushed + (written - flushed) /\ lastSplit' = 0
        /\ chunks' = chunks \cup {<<flushed, flushed + (written - flushed)>>}
    BY <1>1, <1>5 DEF MarkSplit, Flush, Buffered
  <2>2. flushed' = written /\ chunks' = chunks \cup {<<flushed, written>>}
    BY <1>1, <2>1
  <2>3. written - flushed > SplitSize => \A m \in marks : ~(flushed < m /\ m < written)
    BY <1>1, <1>2
  <2>4. ChunkBefore' /\ ChunksFit' /\ chunks' \subseteq Nat \X Nat
    BY <1>1, <1>2, <1>3, <2>2, <2>3, FlushKeepsChunks
  <2>5. flushed' <= written' /\ Current' <= Buffered' /\ SplitInTime'
    BY <1>1, <1>3, <2>1, <2>2 DEF Buffered, SplitInTime
  <2>6. MarksPassed'
    BY <1>1, <1>4, <2>1, <2>2 DEF MarksPassed
  <2> QED BY <1>1, <1>3, <1>4, <2>1, <2>2, <2>4, <2>5, <2>6
<1>6. CASE ~(Buffered >= SplitSize)
  <2>1. flushed' = flushed /\ chunks' = chunks /\ lastSplit' = written - flushed
    BY <1>6 DEF MarkSplit, Buffered
  <2>2. \A m \in marks' : m \in marks \/ (m \in Nat /\ m >= flushed)
    BY <1>1, <1>2, <1>3
  <2>3. ChunkBefore' /\ ChunksFit'
    BY <2>1, <2>2, NoFlushKeepsChunks
  <2>4. flushed' <= written' /\ Current' <= Buffered' /\ SplitInTime'
    BY <1>1, <1>2, <1>3, <1>6, <2>1 DEF Buffered, SplitInTime
  <2>5. MarksPassed'
    BY <1>1, <1>2, <1>4, <2>1 DEF MarksPassed
  <2> QED BY <1>1, <1>2, <1>3, <1>4, <2>1, <2>3, <2>4, <2>5 DEF WriterInv, WriterTypeOK
<1> QED BY <1>5, <1>6

(* Every step keeps the invariant.                                         *)
LEMMA WriterNextInv == WriterInv /\ [WriterNext]_writerVars => WriterInv'
<1> SUFFICES ASSUME WriterInv, [WriterNext]_writerVars PROVE WriterInv'
  OBVIOUS
<1>0. WriterTypeOK /\ MaxWritten \in Nat
  BY WriterAssumption DEF WriterInv
<1>1. ASSUME NEW n \in 1..MaxWritten, WriteString(n) PROVE WriterInv'
  <2>1. /\ ~grouping /\ grouping' = FALSE /\ copied' = copied /\ marks' = marks
        /\ Write(n, lastSplit) /\ lastSplit' = SplitAfter(n, lastSplit)
    BY <1>1, <1>0 DEF WriteString, WriterTypeOK
  <2>2. Current = lastSplit /\ Current' = lastSplit'
    BY <2>1 DEF Current
  <2>3. n \in Nat /\ n > 0
    BY <1>0
  <2>4. /\ written' \in Nat /\ flushed' \in Nat /\ chunks' \subseteq Nat \X Nat
        /\ SplitAfter(n, lastSplit) \in Nat
        /\ flushed' <= written' /\ Current' <= Buffered'
        /\ MarksPassed' /\ SplitInTime' /\ ChunkBefore' /\ ChunksFit'
    BY <2>1, <2>2, <2>3, WriteKeeps
  <2>5. WriterTypeOK'
    BY <1>0, <2>1, <2>4 DEF WriterTypeOK
  <2> QED BY <2>4, <2>5 DEF WriterInv, SplitInRange, Current
<1>2. ASSUME NEW n \in 1..MaxWritten, GroupWriteString(n) PROVE WriterInv'
  <2>1. /\ grouping /\ grouping' = grouping /\ lastSplit' = lastSplit /\ marks' = marks
        /\ Write(n, copied) /\ copied' = SplitAfter(n, copied)
    BY <1>2 DEF GroupWriteString
  <2>2. Current = copied /\ Current' = copied'
    BY <2>1 DEF Current
  <2>3. n \in Nat /\ n > 0
    BY <1>0
  <2>4. /\ written' \in Nat /\ flushed' \in Nat /\ chunks' \subseteq Nat \X Nat
        /\ SplitAfter(n, copied) \in Nat
        /\ flushed' <= written' /\ Current' <= Buffered'
        /\ MarksPassed' /\ SplitInTime' /\ ChunkBefore' /\ ChunksFit'
    BY <2>1, <2>2, <2>3, WriteKeeps
  <2>5. WriterTypeOK'
    BY <1>0, <2>1, <2>4 DEF WriterTypeOK
  <2> QED BY <2>4, <2>5 DEF WriterInv, SplitInRange, Current
<1>3. ASSUME MarkSplit, grouping' = FALSE, copied' = copied PROVE WriterInv'
  <2>1. Current' = lastSplit'
    BY <1>3 DEF Current
  <2>2. /\ written' \in Nat /\ flushed' \in Nat /\ chunks' \subseteq Nat \X Nat
        /\ lastSplit' \in Nat /\ marks' \subseteq Nat
        /\ flushed' <= written' /\ Current' <= Buffered'
        /\ MarksPassed' /\ SplitInTime' /\ ChunkBefore' /\ ChunksFit'
    BY <1>3, <2>1, MarkKeeps
  <2>3. WriterTypeOK'
    BY <1>0, <1>3, <2>2 DEF WriterTypeOK
  <2> QED BY <2>2, <2>3 DEF WriterInv, SplitInRange, Current
<1>4. ASSUME Split PROVE WriterInv'
  BY <1>0, <1>3, <1>4 DEF Split, WriterTypeOK
<1>5. ASSUME EndGroup PROVE WriterInv'
  BY <1>3, <1>5 DEF EndGroup
<1>6. ASSUME BeginGroup PROVE WriterInv'
  <2>1. /\ Current' = Current /\ Buffered' = Buffered
        /\ UNCHANGED <<flushed, marks, chunks, written>>
    BY <1>6 DEF BeginGroup, Current, Buffered
  <2>2. WriterTypeOK'
    BY <1>0, <1>6 DEF BeginGroup, WriterTypeOK
  <2>3. SplitInRange' /\ MarksPassed' /\ SplitInTime'
    BY <2>1 DEF WriterInv, SplitInRange, MarksPassed, SplitInTime, Current
  <2>4. ChunkBefore' /\ ChunksFit'
    BY <2>1 DEF WriterInv, ChunkBefore, ChunksFit
  <2> QED BY <2>2, <2>3, <2>4 DEF WriterInv
<1>7. ASSUME String PROVE WriterInv'
  <2>1. /\ ~grouping /\ grouping' = grouping /\ copied' = copied /\ lastSplit' = 0
        /\ written' = written /\ marks' = marks
        /\ flushed' = written /\ chunks' = chunks \cup {<<flushed, written>>}
    BY <1>7 DEF String, Flush
  <2>2. /\ written \in Nat /\ flushed \in Nat /\ Current \in Nat
        /\ marks \subseteq Nat /\ SplitSize \in Nat /\ SplitSize > 0
    BY <1>0, WriterAssumption DEF WriterTypeOK, Current
  <2>3. /\ flushed <= written /\ Current <= written - flushed
        /\ Current > 0 => written - flushed <= SplitSize
        /\ \A m \in marks : m <= flushed + Current
    BY DEF WriterInv, SplitInRange, SplitInTime, MarksPassed, Current, Buffered
  <2>4. written - flushed > SplitSize => \A m \in marks : ~(flushed < m /\ m < written)
    BY <2>2, <2>3
  <2>5. ChunkBefore' /\ ChunksFit' /\ chunks' \subseteq Nat \X Nat
    BY <2>1, <2>2, <2>3, <2>4, FlushKeepsChunks
  <2>6. WriterTypeOK'
    BY <1>0, <2>1, <2>5 DEF WriterTypeOK
  <2>7. Current' = 0
    BY <2>1 DEF Current
  <2>8. SplitInRange' /\ SplitInTime'
    BY <2>1, <2>2, <2>7 DEF SplitInRange, SplitInTime, Buffered, Current
  <2>9. MarksPassed'
    BY <2>1, <2>2, <2>3, <2>7 DEF MarksPassed
  <2> QED BY <2>5, <2>6, <2>8, <2>9 DEF WriterInv
<1>8. ASSUME UNCHANGED writerVars PROVE WriterInv'
  BY <1>8 DEF writerVars, WriterInv, WriterTypeOK, SplitInRange, MarksPassed, SplitInTime,
              ChunkBefore, ChunksFit, Current, Buffered
<1> QED
  BY <1>1, <1>2, <1>4, <1>5, <1>6, <1>7, <1>8 DEF WriterNext

(* The positions of the writer that writes next, and of its chunks.        *)
THEOREM WriterInvariant == WriterSpec => []WriterInv
BY WriterInitInv, WriterNextInv, PTL DEF WriterSpec

(* The positions are positions, and each chunk is a pair of them.          *)
THEOREM WriterTyping == WriterSpec => []WriterTypeOK
<1>1. WriterInv => WriterTypeOK
  BY DEF WriterInv
<1> QED BY WriterInvariant, <1>1, PTL

(***************************************************************************)
(* However WriteString, Split and groupSubmissions follow one another,     *)
(* flush slices inside the buffer, and a chunk is longer than SplitSize    *)
(* only when it has no point to split at.                                  *)
(***************************************************************************)
THEOREM WriterIsSafe == WriterSpec => []WriterSafe
<1>1. WriterInv => WriterSafe
  BY DEF WriterInv, WriterSafe
<1> QED BY WriterInvariant, <1>1, PTL

-----------------------------------------------------------------------------
(* Each keeps its invariant in the steps of the others.                    *)
MCInv == ReportsInv /\ WriterInv /\ DetailsInv

LEMMA MCInitInv == MCInit => MCInv
BY ReportsInitInv, WriterInitInv, DetailsInitInv DEF MCInit, MCInv

LEMMA MCNextInv ==
  MCInv /\ [MCNext]_<<reportVars, writerVars, detailVars, focus>> => MCInv'
<1> SUFFICES ASSUME MCInv, [MCNext]_<<reportVars, writerVars, detailVars, focus>>
             PROVE  MCInv'
  OBVIOUS
<1>1. [Next]_reportVars /\ [WriterNext]_writerVars /\ [DetailsNext]_detailVars
  BY DEF MCNext
<1> QED BY <1>1, ReportsNextInv, WriterNextInv, DetailsNextInv DEF MCInv

(***************************************************************************)
(* The types of all three, whichever of them a behaviour is about.         *)
(***************************************************************************)
THEOREM ReportTypes == MCSpec => []ReportPartsTypesOK
<1>1. MCInv => ReportPartsTypesOK
  BY DEF MCInv, ReportsInv, WriterInv, DetailsInv, ReportPartsTypesOK
<1> QED BY MCInitInv, MCNextInv, <1>1, PTL DEF MCSpec

=============================================================================
