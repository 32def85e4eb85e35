------------------------------ MODULE AuditDB ------------------------------
(***************************************************************************)
(* The tables auditors, audits and submissions of pkg/db and the methods   *)
(* of Sqlite that relate them: InsertAuditor, DeleteAuditor, InsertAudit,  *)
(* InsertSubmission, InsertFile, GetSubmissionByID and                     *)
(* FixAuditsInSubmissions.                                                 *)
(*                                                                         *)
(* No method opens a transaction, so a call is a sequence of statements    *)
(* that interleave with those of other goroutines, and each statement may  *)
(* fail.  New turns foreign keys on for one connection of the pool: a      *)
(* statement runs on one that enforces them or on one that does not.       *)
(*                                                                         *)
(* Nothing deletes an audit or a submission.  Of a submission's columns    *)
(* audit_id is kept, and files stands for the rest.                        *)
(***************************************************************************)
EXTENDS Integers

CONSTANTS
  Sessions,     \* goroutines that call methods of Sqlite, one at a time
  Submissions,
  Auditors,
  Null,         \* SQL's NULL, a missing row, and Go's nil
  Error,
  NoCall

Files == {"none", "some"}

VARIABLES
  auditors,     \* the ids in table auditors
  audits,       \* for each submission_id, the row of table audits, or Null
  lastId,       \* the AUTOINCREMENT counter of audits
  rows,         \* for each submission_id, the row of table submissions
  pc,           \* the statement each session runs next
  call,         \* the method and its arguments
  found,        \* the audit the call has read
  todo,         \* the audits FixAuditsInSubmissions still has to write
  reply,        \* what the call that returns in this step returns, or Null
  acknowledged, \* history: submissions for which InsertAudit returned an id
  excused       \* history: an InsertAudit of the submission stopped between
                \* its statements, or a call found its audit but not the
                \* auditor, or the audit came while an InsertSubmission that
                \* had found none was on its way

tables == <<auditors, audits, lastId, rows>>
locals == <<call, found, todo>>
history == <<acknowledged, excused>>
vars == <<tables, pc, locals, reply, history>>

Audit == [id : Nat \ {0}, auditor : Auditors]
Row == [audit : (Nat \ {0}) \cup {Null}, files : Files]
Link == (Nat \ {0}) \X Submissions

Methods == {"InsertAudit", "InsertSubmission", "GetSubmissionByID", "FixAudits"}

(***************************************************************************)
(* due is a history field of GetSubmissionByID: the submission's audit was *)
(* acknowledged when the call began.                                       *)
(***************************************************************************)
Call == [method : Methods, sub : Submissions \cup {Null},
         auditor : Auditors \cup {Null}, files : Files, due : BOOLEAN]

ASSUME ConstantsAssumption ==
  /\ Null \notin Nat \cup Submissions \cup Auditors \cup Audit \cup Row
  /\ Error \notin Nat \cup {Null}
  /\ NoCall \notin Call

Statements == {"idle", "upsertAudit", "selectAudit", "selectAuditor", "link",
               "selectRow", "upsertRow", "selectAudits", "fix"}

Init ==
  /\ auditors = {}
  /\ audits = [s \in Submissions |-> Null]
  /\ lastId = 0
  /\ rows = [s \in Submissions |-> Null]
  /\ pc = [p \in Sessions |-> "idle"]
  /\ call = [p \in Sessions |-> NoCall]
  /\ found = [p \in Sessions |-> Null]
  /\ todo = [p \in Sessions |-> {}]
  /\ reply = Null
  /\ acknowledged = {}
  /\ excused = {}

-----------------------------------------------------------------------------
Goto(p, statement) ==
  /\ pc' = [pc EXCEPT ![p] = statement]
  /\ reply' = Null
  /\ UNCHANGED call

Return(p, value) ==
  /\ pc' = [pc EXCEPT ![p] = "idle"]
  /\ call' = [call EXCEPT ![p] = NoCall]
  /\ found' = [found EXCEPT ![p] = Null]
  /\ todo' = [todo EXCEPT ![p] = {}]
  /\ reply' = value

Running(p, method) == pc[p] # "idle" /\ call[p].method = method

(* One statement each.                                                     *)
InsertAuditor(a) ==
  /\ auditors' = auditors \cup {a}
  /\ reply' = Null
  /\ UNCHANGED <<audits, lastId, rows, pc, locals, history>>

DeleteAuditor(a, enforced) ==
  /\ enforced => \A s \in Submissions : audits[s] # Null => audits[s].auditor # a
  /\ auditors' = auditors \ {a}
  /\ reply' = Null
  /\ UNCHANGED <<audits, lastId, rows, pc, locals, history>>

InsertFile(s) ==
  /\ rows[s] # Null
  /\ rows' = [rows EXCEPT ![s] = [audit |-> @.audit, files |-> "some"]]
  /\ reply' = Null
  /\ UNCHANGED <<auditors, audits, lastId, pc, locals, history>>

-----------------------------------------------------------------------------
Begin(p, method, s, a, files, statement) ==
  /\ pc[p] = "idle"
  /\ pc' = [pc EXCEPT ![p] = statement]
  /\ call' = [call EXCEPT ![p] = [method |-> method, sub |-> s, auditor |-> a,
                                  files |-> files, due |-> s \in acknowledged]]
  /\ reply' = Null
  /\ UNCHANGED <<tables, found, todo, history>>

(* InsertAudit(audit), whose AuditorID is a.                               *)
InsertAudit(p, s, a) == Begin(p, "InsertAudit", s, a, "none", "upsertAudit")

(* Mutant: InsertSubmission stores the AuditID it was given.               *)
InsertSubmissionAsGiven(p, s) == Begin(p, "InsertSubmission", s, Null, "some", "upsertRow")

(* InsertSubmission(submission), whose AuditID is nil, and which has files *)
(* as every submission of Inkbunny.                                        *)
InsertSubmission(p, s) == Begin(p, "InsertSubmission", s, Null, "some", "selectAudit")

GetSubmissionByID(p, s) == Begin(p, "GetSubmissionByID", s, Null, "none", "selectRow")

FixAuditsInSubmissions(p) == Begin(p, "FixAudits", Null, Null, "none", "selectAudits")

-----------------------------------------------------------------------------
(* An InsertSubmission of s is going to write NULL.                        *)
FoundNone(q, s) ==
  /\ Running(q, "InsertSubmission")
  /\ call[q].sub = s
  /\ pc[q] = "upsertRow"
  /\ found[q] = Null

(* The first statement of InsertAudit.  A row that is there keeps its id.  *)
UpsertAudit(p, enforced) ==
  LET s == call[p].sub
      a == call[p].auditor
      id == IF audits[s] = Null THEN lastId + 1 ELSE audits[s].id
  IN  /\ pc[p] = "upsertAudit"
      /\ enforced => a \in auditors /\ rows[s] # Null
      /\ audits' = [audits EXCEPT ![s] = [id |-> id, auditor |-> a]]
      /\ lastId' = IF audits[s] = Null THEN lastId + 1 ELSE lastId
      /\ excused' = IF \E q \in Sessions : FoundNone(q, s) THEN excused \cup {s} ELSE excused
      /\ Goto(p, "selectAudit")
      /\ UNCHANGED <<auditors, rows, found, todo, acknowledged>>

(***************************************************************************)
(* What a call does without an audit: InsertAudit returns the error,       *)
(* GetSubmissionByID returns the submission it has read, InsertSubmission  *)
(* goes on with NULL.                                                      *)
(***************************************************************************)
WithoutAudit(p) ==
  /\ \/ call[p].method = "InsertAudit" /\ Return(p, Error)
     \/ call[p].method = "GetSubmissionByID" /\ Return(p, Null)
     \/ /\ call[p].method = "InsertSubmission"
        /\ found' = [found EXCEPT ![p] = Null]
        /\ Goto(p, "upsertRow")
        /\ UNCHANGED todo

(* Mutant: the audit is read into a variable that shadows the outer one.   *)
SelectAuditShadowed(p) ==
  /\ pc[p] = "selectAudit"
  /\ IF audits[call[p].sub] = Null
     THEN WithoutAudit(p)
     ELSE Goto(p, "selectAuditor") /\ UNCHANGED <<found, todo>>
  /\ UNCHANGED <<tables, history>>

(* GetAuditBySubmissionID reads the audit ...                              *)
SelectAudit(p) ==
  LET audit == audits[call[p].sub]
  IN  /\ pc[p] = "selectAudit"
      /\ IF audit = Null
         THEN WithoutAudit(p)
         ELSE /\ found' = [found EXCEPT ![p] = audit]
              /\ Goto(p, "selectAuditor")
              /\ UNCHANGED todo
      /\ UNCHANGED <<tables, history>>

(* ... and its auditor.  A missing auditor is sql.ErrNoRows as well, which *)
(* InsertSubmission and GetSubmissionByID take for a missing audit.        *)
SelectAuditor(p) ==
  /\ pc[p] = "selectAuditor"
  /\ IF found[p].auditor \notin auditors
     THEN WithoutAudit(p) /\ excused' = excused \cup {call[p].sub}
     ELSE /\ Goto(p, IF call[p].method = "InsertAudit" THEN "link" ELSE "upsertRow")
          /\ UNCHANGED <<found, todo, excused>>
  /\ UNCHANGED <<tables, acknowledged>>

SetAuditId(s, id) ==
  IF rows[s] = Null THEN rows
  ELSE [rows EXCEPT ![s] = [audit |-> id, files |-> @.files]]

(* Mutant: the id of the last audit inserted, whoever inserted it.         *)
LinkLastInserted(p) ==
  /\ pc[p] = "link"
  /\ rows' = SetAuditId(call[p].sub, lastId)
  /\ Return(p, found[p].id)
  /\ acknowledged' = acknowledged \cup {call[p].sub}
  /\ UNCHANGED <<auditors, audits, lastId, excused>>

(* The last statement of InsertAudit; without a row it only warns.         *)
LinkAudit(p) ==
  /\ pc[p] = "link"
  /\ rows' = SetAuditId(call[p].sub, found[p].id)
  /\ Return(p, found[p].id)
  /\ acknowledged' = acknowledged \cup {call[p].sub}
  /\ UNCHANGED <<auditors, audits, lastId, excused>>

(* Mutant: GetSubmissionByID does not look for the audit of a NULL.        *)
SelectRowOnly(p) ==
  /\ pc[p] = "selectRow"
  /\ Return(p, IF rows[call[p].sub] = Null THEN Error ELSE rows[call[p].sub].audit)
  /\ UNCHANGED <<tables, history>>

(* GetSubmissionByID reads the row, and looks for an audit if it has none. *)
SelectRow(p) ==
  LET row == rows[call[p].sub]
  IN  /\ pc[p] = "selectRow"
      /\ IF row = Null THEN Return(p, Error)
         ELSE IF row.audit # Null THEN Return(p, row.audit)
         ELSE Goto(p, "selectAudit") /\ UNCHANGED <<found, todo>>
      /\ UNCHANGED <<tables, history>>

(***************************************************************************)
(* The upsert of InsertSubmission, which replaces all columns.  When       *)
(* GetSubmissionByID calls it, the Submission is the one it has read,      *)
(* which has no Files.                                                     *)
(***************************************************************************)
UpsertRow(p) ==
  LET id == IF found[p] = Null THEN Null ELSE found[p].id
  IN  /\ pc[p] = "upsertRow"
      /\ rows' = [rows EXCEPT ![call[p].sub] = [audit |-> id, files |-> call[p].files]]
      /\ Return(p, id)
      /\ UNCHANGED <<auditors, audits, lastId, history>>

(* FixAuditsInSubmissions reads all audits, and then writes them.          *)
SelectAudits(p) ==
  /\ pc[p] = "selectAudits"
  /\ todo' = [todo EXCEPT ![p] = {<<audits[s].id, s>> :
                                   s \in {t \in Submissions : audits[t] # Null}}]
  /\ Goto(p, "fix")
  /\ UNCHANGED <<tables, found, history>>

Fix(p, link) ==
  /\ pc[p] = "fix"
  /\ link \in todo[p]
  /\ rows' = SetAuditId(link[2], link[1])
  /\ todo' = [todo EXCEPT ![p] = @ \ {link}]
  /\ Goto(p, "fix")
  /\ UNCHANGED <<auditors, audits, lastId, found, history>>

EndFix(p) ==
  /\ pc[p] = "fix"
  /\ todo[p] = {}
  /\ Return(p, Null)
  /\ UNCHANGED <<tables, history>>

(* A statement fails: the database is busy, or a constraint is violated.   *)
StatementFails(p) ==
  /\ pc[p] # "idle"
  /\ Return(p, Error)
  /\ excused' = IF call[p].method = "InsertAudit" /\ pc[p] # "upsertAudit"
                THEN excused \cup {call[p].sub} ELSE excused
  /\ UNCHANGED <<tables, acknowledged>>

-----------------------------------------------------------------------------
Next ==
  \/ \E a \in Auditors : InsertAuditor(a)
  \/ \E a \in Auditors, enforced \in BOOLEAN : DeleteAuditor(a, enforced)
  \/ \E s \in Submissions : InsertFile(s)
  \/ \E p \in Sessions :
       \/ \E s \in Submissions, a \in Auditors : InsertAudit(p, s, a)
       \/ \E s \in Submissions : InsertSubmission(p, s) \/ GetSubmissionByID(p, s)
       \/ FixAuditsInSubmissions(p)
       \/ \E enforced \in BOOLEAN : UpsertAudit(p, enforced)
       \/ SelectAudit(p)
       \/ SelectAuditor(p)
       \/ LinkAudit(p)
       \/ SelectRow(p)
       \/ UpsertRow(p)
       \/ SelectAudits(p)
       \/ \E link \in todo[p] : Fix(p, link)
       \/ EndFix(p)
       \/ StatementFails(p)

Spec == Init /\ [][Next]_vars

-----------------------------------------------------------------------------
(***************************************************************************)
(* Types, and which locals a statement needs.                              *)
(***************************************************************************)
TypeOK ==
  /\ auditors \subseteq Auditors
  /\ audits \in [Submissions -> Audit \cup {Null}]
  /\ lastId \in Nat
  /\ rows \in [Submissions -> Row \cup {Null}]
  /\ pc \in [Sessions -> Statements]
  /\ call \in [Sessions -> Call \cup {NoCall}]
  /\ found \in [Sessions -> Audit \cup {Null}]
  /\ todo \in [Sessions -> SUBSET Link]
  /\ acknowledged \in SUBSET Submissions
  /\ excused \in SUBSET Submissions
  /\ \A p \in Sessions :
       /\ pc[p] = "idle" <=> call[p] = NoCall
       /\ pc[p] \in {"upsertAudit", "link"} => call[p].method = "InsertAudit"
       /\ pc[p] = "selectRow" => call[p].method = "GetSubmissionByID"
       /\ pc[p] \in {"selectAuditor", "link"} => found[p] # Null
       /\ pc[p] \in {"selectAudits", "fix"} <=> Running(p, "FixAudits")
       /\ pc[p] # "idle" =>
            /\ call[p].sub = Null <=> call[p].method = "FixAudits"
            /\ call[p].auditor # Null <=> call[p].method = "InsertAudit"

(***************************************************************************)
(* Whatever calls interleave or fail, a submission is linked to no audit   *)
(* or to its own, and no two audits have one id: the UNIQUE constraint of  *)
(* audit_id cannot fail.                                                   *)
(***************************************************************************)
LinkSound ==
  /\ \A s \in Submissions : rows[s] # Null /\ rows[s].audit # Null =>
       audits[s] # Null /\ rows[s].audit = audits[s].id
  /\ \A s, t \in Submissions : s # t /\ audits[s] # Null /\ audits[t] # Null =>
       audits[s].id # audits[t].id

(* An InsertAudit of s has not come to its last statement.                 *)
BeingLinked(s) ==
  \E p \in Sessions : /\ Running(p, "InsertAudit")
                      /\ call[p].sub = s
                      /\ pc[p] # "upsertAudit"

(***************************************************************************)
(* insert.go:208: a submission that is in the database has the id of its   *)
(* audit when InsertAudit is over, and keeps it whatever is inserted, read *)
(* or fixed later.  The exceptions are an InsertAudit that failed half     *)
(* way, a call that did not find the auditor, and an audit that came       *)
(* between the statements of an InsertSubmission.                          *)
(***************************************************************************)
StaysLinked ==
  \A s \in Submissions :
    rows[s] # Null /\ audits[s] # Null /\ rows[s].audit = Null =>
      BeingLinked(s) \/ s \in excused

(***************************************************************************)
(* A GetSubmissionByID that begins after InsertAudit returned an id shows  *)
(* the audit, also when an InsertSubmission wrote NULL over it meanwhile,  *)
(* unless the auditor is missing when it looks.                            *)
(***************************************************************************)
AcknowledgedSeen ==
  [][\A p \in Sessions :
       Running(p, "GetSubmissionByID") /\ pc'[p] = "idle" /\ call[p].due =>
         \/ reply' = Error
         \/ reply' = audits[call[p].sub].id
         \/ pc[p] = "selectAuditor" /\ found[p].auditor \notin auditors]_vars

(***************************************************************************)
(* select.go:350 says of what GetSubmissionByID writes, "Store the audit   *)
(* id in the submission now": a read changes nothing else of a submission. *)
(***************************************************************************)
ReadsOnlyLink ==
  [][\A p \in Sessions :
       Running(p, "GetSubmissionByID") /\ pc'[p] # pc[p] =>
         \A s \in Submissions : rows[s] # Null => rows'[s].files = rows[s].files]_vars

=============================================================================
