--------------------------- MODULE AuditDBProofs ---------------------------
(***************************************************************************)
(* Proofs about AuditDB for all sets of sessions, submissions, auditors.   *)
(***************************************************************************)
EXTENDS AuditDB, TLAPS

(* A call has its arguments.                                               *)
LEMMA CallLocals ==
  ASSUME TypeOK, NEW p \in Sessions, pc[p] # "idle"
  PROVE  /\ call[p] \in Call
         /\ call[p].method # "FixAudits" => call[p].sub \in Submissions
         /\ call[p].method = "InsertAudit" => call[p].auditor \in Auditors
BY DEF TypeOK, Call

(* Goto and Return keep the control variables well typed.                  *)
LEMMA GotoTyping ==
  ASSUME TypeOK, NEW p \in Sessions, pc[p] # "idle",
         NEW statement \in Statements \ {"idle"}, Goto(p, statement)
  PROVE  /\ pc' \in [Sessions -> Statements]
         /\ call' \in [Sessions -> Call \cup {NoCall}]
         /\ pc'[p] = statement /\ call'[p] = call[p]
         /\ \A q \in Sessions \ {p} : pc'[q] = pc[q] /\ call'[q] = call[q]
BY DEF TypeOK, Goto

LEMMA ReturnTyping ==
  ASSUME TypeOK, NEW p \in Sessions, NEW value, Return(p, value)
  PROVE  /\ pc' \in [Sessions -> Statements]
         /\ call' \in [Sessions -> Call \cup {NoCall}]
         /\ found' \in [Sessions -> Audit \cup {Null}]
         /\ todo' \in [Sessions -> SUBSET Link]
         /\ pc'[p] = "idle" /\ call'[p] = NoCall /\ found'[p] = Null /\ todo'[p] = {}
         /\ \A q \in Sessions \ {p} : /\ pc'[q] = pc[q] /\ call'[q] = call[q]
                                      /\ found'[q] = found[q] /\ todo'[q] = todo[q]
BY DEF TypeOK, Return, Statements

(* What TypeOK says of the tables, of the locals, and of what a session's  *)
(* statement needs.                                                        *)
TablesOK ==
  /\ auditors \subseteq Auditors
  /\ audits \in [Submissions -> Audit \cup {Null}]
  /\ lastId \in Nat
  /\ rows \in [Submissions -> Row \cup {Null}]
  /\ acknowledged \in SUBSET Submissions
  /\ excused \in SUBSET Submissions

LocalsOK ==
  /\ pc \in [Sessions -> Statements]
  /\ call \in [Sessions -> Call \cup {NoCall}]
  /\ found \in [Sessions -> Audit \cup {Null}]
  /\ todo \in [Sessions -> SUBSET Link]

SessionOK(p) ==
  /\ pc[p] = "idle" <=> call[p] = NoCall
  /\ pc[p] \in {"upsertAudit", "link"} => call[p].method = "InsertAudit"
  /\ pc[p] = "selectRow" => call[p].method = "GetSubmissionByID"
  /\ pc[p] \in {"selectAuditor", "link"} => found[p] # Null
  /\ pc[p] \in {"selectAudits", "fix"} <=> Running(p, "FixAudits")
  /\ pc[p] # "idle" =>
       /\ call[p].sub = Null <=> call[p].method = "FixAudits"
       /\ call[p].auditor # Null <=> call[p].method = "InsertAudit"

LEMMA TypeOKParts ==
  TypeOK <=> TablesOK /\ LocalsOK /\ \A p \in Sessions : SessionOK(p)
BY DEF TypeOK, TablesOK, LocalsOK, SessionOK

LEMMA TypeOKNext ==
  TablesOK' /\ LocalsOK' /\ (\A p \in Sessions : SessionOK(p)') => TypeOK'
BY DEF TypeOK, TablesOK, LocalsOK, SessionOK, Running

(* A session's conjunct only depends on the session's own locals.          *)
LEMMA SessionElsewhere ==
  ASSUME NEW q, SessionOK(q), pc'[q] = pc[q], call'[q] = call[q], found'[q] = found[q]
  PROVE  SessionOK(q)'
BY DEF SessionOK, Running

LEMMA SessionIdle ==
  ASSUME NEW p, pc'[p] = "idle", call'[p] = NoCall
  PROVE  SessionOK(p)'
BY DEF SessionOK, Running

(* A call that returns leaves the locals of all sessions well typed.       *)
LEMMA ReturnLocals ==
  ASSUME TypeOK, NEW p \in Sessions, NEW value, Return(p, value)
  PROVE  LocalsOK' /\ \A q \in Sessions : SessionOK(q)'
<1>1. LocalsOK'
  BY ReturnTyping DEF LocalsOK
<1>2. ASSUME NEW q \in Sessions PROVE SessionOK(q)'
  <2>1. CASE q = p
    BY <2>1, ReturnTyping, SessionIdle
  <2>2. CASE q # p
    BY <2>2, ReturnTyping, SessionElsewhere, TypeOKParts
  <2>3. QED
    BY <2>1, <2>2
<1>3. QED
  BY <1>1, <1>2

LEMMA SetAuditIdTyping ==
  ASSUME TypeOK, NEW s \in Submissions, NEW id \in Nat \ {0}
  PROVE  /\ SetAuditId(s, id) \in [Submissions -> Row \cup {Null}]
         /\ rows[s] = Null => SetAuditId(s, id) = rows
         /\ rows[s] # Null => SetAuditId(s, id)[s] = [audit |-> id, files |-> rows[s].files]
         /\ \A t \in Submissions \ {s} : SetAuditId(s, id)[t] = rows[t]
<1>1. rows[s] # Null => [audit |-> id, files |-> rows[s].files] \in Row
  BY DEF TypeOK, Row
<1>2. QED
  BY <1>1 DEF TypeOK, SetAuditId

LEMMA BeginTyping ==
  ASSUME TypeOK, NEW p \in Sessions, NEW method \in Methods,
         NEW s \in Submissions \cup {Null}, NEW a \in Auditors \cup {Null},
         NEW files \in Files, NEW statement \in Statements \ {"idle"},
         Begin(p, method, s, a, files, statement),
         statement \in {"upsertAudit", "link"} => method = "InsertAudit",
         statement = "selectRow" => method = "GetSubmissionByID",
         statement \notin {"selectAuditor", "link"},
         statement \in {"selectAudits", "fix"} <=> method = "FixAudits",
         s = Null <=> method = "FixAudits",
         a # Null <=> method = "InsertAudit"
  PROVE  TypeOK'
<1> DEFINE c == [method |-> method, sub |-> s, auditor |-> a,
                 files |-> files, due |-> s \in acknowledged]
<1>1. c \in Call
  <2>1. (s \in acknowledged) \in BOOLEAN
    OBVIOUS
  <2>2. QED
    BY <2>1 DEF Call
<1>2. c.method = method /\ c.sub = s /\ c.auditor = a
  OBVIOUS
<1>3. call' = [call EXCEPT ![p] = c] /\ pc' = [pc EXCEPT ![p] = statement]
  BY DEF Begin
<1> HIDE DEF c
<1>4. TablesOK' /\ LocalsOK'
  BY <1>1, <1>3, TypeOKParts DEF Begin, tables, history, TablesOK, LocalsOK
<1>5. ASSUME NEW q \in Sessions PROVE SessionOK(q)'
  <2>1. CASE q = p
    BY <1>1, <1>2, <1>3, <2>1, ConstantsAssumption DEF SessionOK, Running, TypeOK
  <2>2. CASE q # p
    <3>1. pc'[q] = pc[q] /\ call'[q] = call[q] /\ found'[q] = found[q]
      BY <1>3, <2>2 DEF Begin, TypeOK
    <3>2. QED
      BY <3>1, SessionElsewhere, TypeOKParts
  <2>3. QED
    BY <2>1, <2>2
<1>6. QED
  BY <1>4, <1>5, TypeOKNext

(* A step of p that stays in its call, by Goto.                            *)
LEMMA GotoSessions ==
  ASSUME TypeOK, NEW p \in Sessions, pc[p] # "idle",
         NEW statement \in Statements \ {"idle"}, Goto(p, statement),
         \A q \in Sessions \ {p} : found'[q] = found[q],
         statement \in {"upsertAudit", "link"} => call[p].method = "InsertAudit",
         statement = "selectRow" => call[p].method = "GetSubmissionByID",
         statement \in {"selectAuditor", "link"} => found'[p] # Null,
         statement \in {"selectAudits", "fix"} <=> call[p].method = "FixAudits"
  PROVE  \A q \in Sessions : SessionOK(q)'
<1> SUFFICES ASSUME NEW q \in Sessions PROVE SessionOK(q)'
  OBVIOUS
<1>1. CASE q = p
  BY <1>1, GotoTyping, TypeOKParts DEF SessionOK, Running
<1>2. CASE q # p
  BY <1>2, GotoTyping, SessionElsewhere, TypeOKParts
<1>3. QED
  BY <1>1, <1>2

(* The steps of SelectAudit and SelectAuditor without an audit.            *)
LEMMA WithoutAuditTyping ==
  ASSUME TypeOK, NEW p \in Sessions, pc[p] \in {"selectAudit", "selectAuditor"},
         WithoutAudit(p)
  PROVE  LocalsOK' /\ \A q \in Sessions : SessionOK(q)'
<1>1. CASE Return(p, Error) \/ Return(p, Null)
  BY <1>1, ReturnLocals
<1>2. CASE /\ call[p].method = "InsertSubmission"
           /\ found' = [found EXCEPT ![p] = Null]
           /\ Goto(p, "upsertRow")
           /\ UNCHANGED todo
  <2>1. "upsertRow" \in Statements \ {"idle"}
    BY DEF Statements
  <2>2. LocalsOK'
    BY <1>2, <2>1, GotoTyping, TypeOKParts DEF LocalsOK
  <2>3. \A q \in Sessions \ {p} : found'[q] = found[q]
    BY <1>2 DEF TypeOK
  <2>4. QED
    BY <1>2, <2>1, <2>2, <2>3, GotoSessions
<1>3. QED
  BY <1>1, <1>2 DEF WithoutAudit

LEMMA TypingInit == Init => TypeOK
BY ConstantsAssumption DEF Init, TypeOK, Statements, Running

LEMMA TypingStep == TypeOK /\ [Next]_vars => TypeOK'
<1> SUFFICES ASSUME TypeOK, [Next]_vars PROVE TypeOK'
  OBVIOUS
<1>1. ASSUME NEW a \in Auditors, InsertAuditor(a) PROVE TypeOK'
  BY <1>1 DEF InsertAuditor, TypeOK, Running, locals, history
<1>2. ASSUME NEW a \in Auditors, NEW enforced \in BOOLEAN, DeleteAuditor(a, enforced)
      PROVE TypeOK'
  BY <1>2 DEF DeleteAuditor, TypeOK, Running, locals, history
<1>3. ASSUME NEW s \in Submissions, InsertFile(s) PROVE TypeOK'
  <2>1. [audit |-> rows[s].audit, files |-> "some"] \in Row
    BY <1>3 DEF InsertFile, TypeOK, Row, Files
  <2>2. QED
    BY <1>3, <2>1 DEF InsertFile, TypeOK, Running, locals, history
<1>4. ASSUME NEW p \in Sessions, NEW s \in Submissions, NEW a \in Auditors,
             InsertAudit(p, s, a)
      PROVE TypeOK'
  BY <1>4, BeginTyping, ConstantsAssumption DEF InsertAudit, Methods, Statements, Files
<1>5. ASSUME NEW p \in Sessions, NEW s \in Submissions, InsertSubmission(p, s)
      PROVE TypeOK'
  BY <1>5, BeginTyping, ConstantsAssumption DEF InsertSubmission, Methods, Statements, Files
<1>6. ASSUME NEW p \in Sessions, NEW s \in Submissions, GetSubmissionByID(p, s)
      PROVE TypeOK'
  BY <1>6, BeginTyping, ConstantsAssumption DEF GetSubmissionByID, Methods, Statements, Files
<1>7. ASSUME NEW p \in Sessions, FixAuditsInSubmissions(p) PROVE TypeOK'
  BY <1>7, BeginTyping, ConstantsAssumption
     DEF FixAuditsInSubmissions, Methods, Statements, Files
<1>8. ASSUME NEW p \in Sessions, NEW enforced \in BOOLEAN, UpsertAudit(p, enforced)
      PROVE TypeOK'
  <2> DEFINE s == call[p].sub
             id == IF audits[s] = Null THEN lastId + 1 ELSE audits[s].id
  <2>1. /\ s \in Submissions /\ call[p].auditor \in Auditors
        /\ pc[p] # "idle" /\ call[p].method = "InsertAudit"
    BY <1>8, CallLocals DEF UpsertAudit, TypeOK
  <2>2. id \in Nat \ {0}
    BY <2>1 DEF TypeOK, Audit
  <2>3. [id |-> id, auditor |-> call[p].auditor] \in Audit
    BY <2>1, <2>2 DEF Audit
  <2>4. /\ audits' = [audits EXCEPT ![s] = [id |-> id, auditor |-> call[p].auditor]]
        /\ excused' \in {excused, excused \cup {s}}
        /\ lastId' \in {lastId, lastId + 1}
        /\ Goto(p, "selectAudit")
        /\ UNCHANGED <<auditors, rows, found, todo, acknowledged>>
    BY <1>8 DEF UpsertAudit
  <2> HIDE DEF s, id
  <2>5. TablesOK'
    BY <2>1, <2>3, <2>4, TypeOKParts DEF TablesOK
  <2>6. "selectAudit" \in Statements \ {"idle"}
    BY DEF Statements
  <2>7. LocalsOK'
    BY <2>1, <2>4, <2>6, GotoTyping, TypeOKParts DEF LocalsOK
  <2>8. \A q \in Sessions : SessionOK(q)'
    BY <2>1, <2>4, <2>6, GotoSessions
  <2>9. QED
    BY <2>5, <2>7, <2>8, TypeOKNext
<1>9. ASSUME NEW p \in Sessions, SelectAudit(p) PROVE TypeOK'
  <2>1. TablesOK'
    BY <1>9, TypeOKParts DEF SelectAudit, TablesOK, tables, history
  <2>2. CASE WithoutAudit(p)
    BY <1>9, <2>1, <2>2, WithoutAuditTyping, TypeOKNext DEF SelectAudit
  <2>3. CASE /\ audits[call[p].sub] # Null
             /\ found' = [found EXCEPT ![p] = audits[call[p].sub]]
             /\ Goto(p, "selectAuditor")
             /\ UNCHANGED todo
    <3>1. pc[p] = "selectAudit" /\ call[p].method # "FixAudits"
      BY <1>9 DEF SelectAudit, TypeOK, Running
    <3>2. audits[call[p].sub] \in Audit
      BY <2>3, <3>1, CallLocals DEF TypeOK
    <3>3. "selectAuditor" \in Statements \ {"idle"}
      BY DEF Statements
    <3>4. /\ \A q \in Sessions \ {p} : found'[q] = found[q]
          /\ found'[p] # Null
      BY <2>3 DEF TypeOK
    <3>5. LocalsOK'
      BY <2>3, <3>1, <3>2, <3>3, GotoTyping, TypeOKParts DEF LocalsOK
    <3>6. \A q \in Sessions : SessionOK(q)'
      BY <2>3, <3>1, <3>3, <3>4, GotoSessions
    <3>7. QED
      BY <2>1, <3>5, <3>6, TypeOKNext
  <2>4. QED
    BY <1>9, <2>2, <2>3 DEF SelectAudit
<1>10. ASSUME NEW p \in Sessions, SelectAuditor(p) PROVE TypeOK'
  <2>1. pc[p] = "selectAuditor" /\ call[p].method # "FixAudits"
    BY <1>10 DEF SelectAuditor, TypeOK, Running
  <2>2. TablesOK'
    BY <1>10, <2>1, CallLocals, TypeOKParts DEF SelectAuditor, TablesOK, tables
  <2>3. CASE WithoutAudit(p)
    BY <2>1, <2>2, <2>3, WithoutAuditTyping, TypeOKNext
  <2>4. CASE /\ Goto(p, IF call[p].method = "InsertAudit" THEN "link" ELSE "upsertRow")
             /\ UNCHANGED <<found, todo>>
    <3> DEFINE statement == IF call[p].method = "InsertAudit" THEN "link" ELSE "upsertRow"
    <3>1. /\ statement \in Statements \ {"idle", "upsertAudit", "selectRow", "selectAudits", "fix"}
          /\ statement = "link" => call[p].method = "InsertAudit"
      BY DEF Statements
    <3>2. Goto(p, statement) /\ found'[p] # Null
      BY <2>1, <2>4 DEF TypeOK
    <3> HIDE DEF statement
    <3>3. LocalsOK'
      BY <2>1, <2>4, <3>1, <3>2, GotoTyping, TypeOKParts DEF LocalsOK
    <3>4. \A q \in Sessions : SessionOK(q)'
      BY <2>1, <2>4, <3>1, <3>2, GotoSessions
    <3>5. QED
      BY <2>2, <3>3, <3>4, TypeOKNext
  <2>5. QED
    BY <1>10, <2>3, <2>4 DEF SelectAuditor
<1>11. ASSUME NEW p \in Sessions, LinkAudit(p) PROVE TypeOK'
  <2>1. /\ call[p].sub \in Submissions
        /\ found[p].id \in Nat \ {0}
    BY <1>11, CallLocals DEF LinkAudit, TypeOK, Audit
  <2>2. TablesOK'
    BY <1>11, <2>1, SetAuditIdTyping, TypeOKParts DEF LinkAudit, TablesOK
  <2>3. QED
    BY <1>11, <2>2, ReturnLocals, TypeOKNext DEF LinkAudit
<1>12. ASSUME NEW p \in Sessions, SelectRow(p) PROVE TypeOK'
  <2>1. TablesOK'
    BY <1>12, TypeOKParts DEF SelectRow, TablesOK, tables, history
  <2>2. CASE \/ Return(p, Error)
             \/ Return(p, rows[call[p].sub].audit)
    BY <2>1, <2>2, ReturnLocals, TypeOKNext
  <2>3. CASE Goto(p, "selectAudit") /\ UNCHANGED <<found, todo>>
    <3>1. pc[p] = "selectRow" /\ call[p].method = "GetSubmissionByID"
      BY <1>12 DEF SelectRow, TypeOK
    <3>2. "selectAudit" \in Statements \ {"idle"}
      BY DEF Statements
    <3>3. LocalsOK'
      BY <2>3, <3>1, <3>2, GotoTyping, TypeOKParts DEF LocalsOK
    <3>4. \A q \in Sessions : SessionOK(q)'
      BY <2>3, <3>1, <3>2, GotoSessions
    <3>5. QED
      BY <2>1, <3>3, <3>4, TypeOKNext
  <2>4. QED
    BY <1>12, <2>2, <2>3 DEF SelectRow
<1>13. ASSUME NEW p \in Sessions, UpsertRow(p) PROVE TypeOK'
  <2> DEFINE id == IF found[p] = Null THEN Null ELSE found[p].id
  <2>1. /\ call[p].sub \in Submissions /\ call[p].files \in Files
        /\ id \in (Nat \ {0}) \cup {Null}
    BY <1>13, CallLocals DEF UpsertRow, TypeOK, Audit, Call, Running
  <2>2. [audit |-> id, files |-> call[p].files] \in Row
    BY <2>1 DEF Row
  <2>3. /\ rows' = [rows EXCEPT ![call[p].sub] = [audit |-> id, files |-> call[p].files]]
        /\ Return(p, id)
        /\ UNCHANGED <<auditors, audits, lastId, history>>
    BY <1>13 DEF UpsertRow
  <2> HIDE DEF id
  <2>4. TablesOK'
    BY <2>1, <2>2, <2>3, TypeOKParts DEF TablesOK, history
  <2>5. QED
    BY <2>3, <2>4, ReturnLocals, TypeOKNext
<1>14. ASSUME NEW p \in Sessions, SelectAudits(p) PROVE TypeOK'
  <2> DEFINE links == {<<audits[s].id, s>> : s \in {t \in Submissions : audits[t] # Null}}
  <2>1. links \in SUBSET Link
    BY DEF TypeOK, Audit, Link
  <2>2. /\ todo' = [todo EXCEPT ![p] = links]
        /\ pc[p] = "selectAudits" /\ Goto(p, "fix")
        /\ UNCHANGED <<tables, found, history>>
    BY <1>14 DEF SelectAudits
  <2> HIDE DEF links
  <2>3. "fix" \in Statements \ {"idle"} /\ call[p].method = "FixAudits"
    BY <2>2 DEF Statements, TypeOK, Running
  <2>4. TablesOK'
    BY <2>2, TypeOKParts DEF TablesOK, tables, history
  <2>5. LocalsOK'
    BY <2>1, <2>2, <2>3, GotoTyping, TypeOKParts DEF LocalsOK
  <2>6. \A q \in Sessions : SessionOK(q)'
    BY <2>2, <2>3, GotoSessions
  <2>7. QED
    BY <2>4, <2>5, <2>6, TypeOKNext
<1>15. ASSUME NEW p \in Sessions, NEW link \in todo[p], Fix(p, link) PROVE TypeOK'
  <2>1. link \in Link /\ link[1] \in Nat \ {0} /\ link[2] \in Submissions
    BY <1>15 DEF TypeOK, Link
  <2>2. /\ todo' = [todo EXCEPT ![p] = todo[p] \ {link}]
        /\ rows' = SetAuditId(link[2], link[1])
        /\ pc[p] = "fix" /\ Goto(p, "fix")
        /\ UNCHANGED <<auditors, audits, lastId, found, history>>
    BY <1>15 DEF Fix
  <2>3. "fix" \in Statements \ {"idle"} /\ call[p].method = "FixAudits"
    BY <2>2 DEF Statements, TypeOK, Running
  <2>4. TablesOK'
    BY <2>1, <2>2, SetAuditIdTyping, TypeOKParts DEF TablesOK, history
  <2>5. LocalsOK'
    BY <2>2, <2>3, GotoTyping, TypeOKParts DEF LocalsOK
  <2>6. \A q \in Sessions : SessionOK(q)'
    BY <2>2, <2>3, GotoSessions
  <2>7. QED
    BY <2>4, <2>5, <2>6, TypeOKNext
<1>16. ASSUME NEW p \in Sessions, EndFix(p) PROVE TypeOK'
  <2>1. TablesOK'
    BY <1>16, TypeOKParts DEF EndFix, TablesOK, tables, history
  <2>2. QED
    BY <1>16, <2>1, ReturnLocals, TypeOKNext DEF EndFix
<1>17. ASSUME NEW p \in Sessions, StatementFails(p) PROVE TypeOK'
  <2>1. TablesOK'
    BY <1>17, CallLocals, TypeOKParts DEF StatementFails, TablesOK, tables
  <2>2. QED
    BY <1>17, <2>1, ReturnLocals, TypeOKNext DEF StatementFails
<1>18. CASE UNCHANGED vars
  BY <1>18 DEF vars, tables, locals, history, TypeOK, Running
<1>19. QED
  BY <1>1, <1>2, <1>3, <1>4, <1>5, <1>6, <1>7, <1>8, <1>9, <1>10, <1>11, <1>12,
     <1>13, <1>14, <1>15, <1>16, <1>17, <1>18 DEF Next

(* Types, and which locals a statement needs.                              *)
THEOREM Typing == Spec => []TypeOK
BY TypingInit, TypingStep, PTL DEF Spec

-----------------------------------------------------------------------------
(***************************************************************************)
(* Ids are never reused, and whatever a call remembers of an audit stays   *)
(* true of the table: this is why LinkSound is kept.                       *)
(***************************************************************************)
IdsSound ==
  /\ \A s \in Submissions : audits[s] # Null => audits[s].id \leq lastId
  /\ \A s, t \in Submissions : s # t /\ audits[s] # Null /\ audits[t] # Null =>
       audits[s].id # audits[t].id

FoundSound(p) ==
  found[p] # Null =>
    /\ pc[p] # "idle"
    /\ call[p].sub \in Submissions
    /\ audits[call[p].sub] # Null
    /\ found[p].id = audits[call[p].sub].id

TodoSound(p) ==
  \A link \in todo[p] : audits[link[2]] # Null /\ link[1] = audits[link[2]].id

RowsSound ==
  \A s \in Submissions : rows[s] # Null /\ rows[s].audit # Null =>
    audits[s] # Null /\ rows[s].audit = audits[s].id

LinkInv ==
  /\ TypeOK
  /\ IdsSound
  /\ \A p \in Sessions : FoundSound(p) /\ TodoSound(p)
  /\ RowsSound

(* An audit that is there stays, with its id.                              *)
AuditsStay ==
  \A s \in Submissions : audits[s] # Null =>
    audits'[s] # Null /\ audits'[s].id = audits[s].id

(* Only UpsertAudit writes the audits.                                     *)
LEMMA AuditSteps ==
  ASSUME [Next]_vars
  PROVE  \/ UNCHANGED <<audits, lastId>>
         \/ \E p \in Sessions, enforced \in BOOLEAN : UpsertAudit(p, enforced)
BY DEF Next, vars, tables, InsertAuditor, DeleteAuditor, InsertFile, Begin, InsertAudit,
       InsertSubmission, GetSubmissionByID, FixAuditsInSubmissions, SelectAudit,
       SelectAuditor, LinkAudit, SelectRow, UpsertRow, SelectAudits, Fix, EndFix,
       StatementFails

(* UpsertAudit keeps the id of the audit or takes a new one.               *)
LEMMA IdsStep ==
  ASSUME TypeOK, IdsSound, [Next]_vars
  PROVE  IdsSound' /\ AuditsStay
<1>1. CASE UNCHANGED <<audits, lastId>>
  BY <1>1 DEF IdsSound, AuditsStay
<1>2. CASE \E p \in Sessions, enforced \in BOOLEAN : UpsertAudit(p, enforced)
  <2>1. PICK p \in Sessions, enforced \in BOOLEAN : UpsertAudit(p, enforced)
    BY <1>2
  <2> DEFINE s == call[p].sub
             audit == [id |-> IF audits[s] = Null THEN lastId + 1 ELSE audits[s].id,
                       auditor |-> call[p].auditor]
  <2>2. s \in Submissions /\ call[p].auditor \in Auditors
    BY <2>1, CallLocals DEF UpsertAudit, TypeOK
  <2>3. /\ audit.id = IF audits[s] = Null THEN lastId + 1 ELSE audits[s].id
        /\ audits' = [audits EXCEPT ![s] = audit]
        /\ lastId' = IF audits[s] = Null THEN lastId + 1 ELSE lastId
    BY <2>1 DEF UpsertAudit
  <2>4. audit \in Audit
    BY <2>2 DEF TypeOK, Audit
  <2>5. audit # Null
    BY <2>4, ConstantsAssumption
  <2> HIDE DEF s, audit
  <2>6. \A t \in Submissions : audits[t] # Null => audits[t].id \in Nat
    BY DEF TypeOK, Audit
  <2>7. audits'[s] = audit /\ \A t \in Submissions \ {s} : audits'[t] = audits[t]
    BY <2>2, <2>3 DEF TypeOK
  <2>8. AuditsStay
    BY <2>3, <2>5, <2>7 DEF AuditsStay
  <2>9. lastId \in Nat /\ audit.id \in Nat
    BY <2>4 DEF TypeOK, Audit
  <2>10. IdsSound'
    BY <2>2, <2>3, <2>5, <2>6, <2>7, <2>9 DEF IdsSound
  <2>11. QED
    BY <2>8, <2>10
<1>3. QED
  BY <1>1, <1>2, AuditSteps

(* What a step may do to the audit a session has found.                    *)
FoundStep(q) ==
  \/ found'[q] = Null
  \/ /\ found'[q] = found[q] /\ call'[q] = call[q]
     /\ pc[q] # "idle" => pc'[q] # "idle"
  \/ /\ found'[q] = audits[call[q].sub] /\ audits' = audits /\ call'[q] = call[q]
     /\ pc'[q] # "idle" /\ call[q].sub \in Submissions

LEMMA ReturnFound ==
  ASSUME TypeOK, NEW p \in Sessions, NEW value, Return(p, value), NEW q \in Sessions
  PROVE  FoundStep(q)
BY ReturnTyping DEF FoundStep

LEMMA GotoFound ==
  ASSUME TypeOK, NEW p \in Sessions, pc[p] # "idle",
         NEW statement \in Statements \ {"idle"}, Goto(p, statement), UNCHANGED found,
         NEW q \in Sessions
  PROVE  FoundStep(q)
<1>1. CASE q = p
  BY <1>1, GotoTyping DEF FoundStep
<1>2. CASE q # p
  BY <1>2, GotoTyping DEF FoundStep
<1>3. QED
  BY <1>1, <1>2

LEMMA WithoutAuditFound ==
  ASSUME TypeOK, NEW p \in Sessions, pc[p] # "idle", WithoutAudit(p), NEW q \in Sessions
  PROVE  FoundStep(q)
<1>1. CASE Return(p, Error) \/ Return(p, Null)
  BY <1>1, ReturnFound
<1>2. CASE found' = [found EXCEPT ![p] = Null] /\ Goto(p, "upsertRow")
  <2>1. CASE q = p
    BY <1>2, <2>1 DEF FoundStep, TypeOK
  <2>2. CASE q # p
    <3>1. found'[q] = found[q]
      BY <1>2, <2>2 DEF TypeOK
    <3>2. pc'[q] = pc[q] /\ call'[q] = call[q]
      BY <1>2, <2>2 DEF Goto, TypeOK
    <3>3. QED
      BY <3>1, <3>2 DEF FoundStep
  <2>3. QED
    BY <2>1, <2>2
<1>3. QED
  BY <1>1, <1>2 DEF WithoutAudit

(* A call begins with nothing found.                                       *)
LEMMA BeginFound ==
  ASSUME TypeOK, NEW p \in Sessions, NEW method, NEW s, NEW a, NEW files, NEW statement,
         Begin(p, method, s, a, files, statement), FoundSound(p), NEW q \in Sessions
  PROVE  FoundStep(q)
<1>1. CASE q = p
  BY <1>1 DEF Begin, FoundStep, FoundSound, TypeOK
<1>2. CASE q # p
  <2>1. pc'[q] = pc[q] /\ call'[q] = call[q] /\ found'[q] = found[q]
    BY <1>2 DEF Begin, TypeOK
  <2>2. QED
    BY <2>1 DEF FoundStep
<1>3. QED
  BY <1>1, <1>2

LEMMA FoundSteps ==
  ASSUME TypeOK, \A p \in Sessions : FoundSound(p), [Next]_vars, NEW q \in Sessions
  PROVE  FoundStep(q)
<1>1. CASE UNCHANGED <<pc, locals>>
  BY <1>1 DEF FoundStep, locals
<1>2. ASSUME NEW p \in Sessions, NEW s \in Submissions, NEW a \in Auditors,
             InsertAudit(p, s, a)
      PROVE FoundStep(q)
  BY <1>2, BeginFound DEF InsertAudit
<1>3. ASSUME NEW p \in Sessions, NEW s \in Submissions,
             \/ InsertSubmission(p, s) \/ GetSubmissionByID(p, s)
      PROVE FoundStep(q)
  BY <1>3, BeginFound DEF InsertSubmission, GetSubmissionByID
<1>4. ASSUME NEW p \in Sessions, FixAuditsInSubmissions(p) PROVE FoundStep(q)
  BY <1>4, BeginFound DEF FixAuditsInSubmissions
<1>5. ASSUME NEW p \in Sessions, NEW enforced \in BOOLEAN, UpsertAudit(p, enforced)
      PROVE FoundStep(q)
  BY <1>5, GotoFound DEF UpsertAudit, Statements
<1>6. ASSUME NEW p \in Sessions, SelectAudit(p) PROVE FoundStep(q)
  <2>1. CASE WithoutAudit(p)
    BY <1>6, <2>1, WithoutAuditFound DEF SelectAudit
  <2>2. CASE /\ found' = [found EXCEPT ![p] = audits[call[p].sub]]
             /\ Goto(p, "selectAuditor")
    <3>1. /\ pc'[p] = "selectAuditor" /\ call'[p] = call[p]
          /\ \A r \in Sessions \ {p} : pc'[r] = pc[r] /\ call'[r] = call[r]
      BY <2>2 DEF Goto, TypeOK
    <3>2. call[p].sub \in Submissions /\ audits' = audits
      BY <1>6, CallLocals DEF SelectAudit, tables, TypeOK, Running
    <3>3. /\ found'[p] = audits[call[p].sub]
          /\ \A r \in Sessions \ {p} : found'[r] = found[r]
      BY <2>2 DEF TypeOK
    <3>4. QED
      BY <3>1, <3>2, <3>3 DEF FoundStep
  <2>3. QED
    BY <1>6, <2>1, <2>2 DEF SelectAudit
<1>7. ASSUME NEW p \in Sessions, SelectAuditor(p) PROVE FoundStep(q)
  <2>1. CASE WithoutAudit(p)
    BY <1>7, <2>1, WithoutAuditFound DEF SelectAuditor
  <2>2. CASE /\ Goto(p, IF call[p].method = "InsertAudit" THEN "link" ELSE "upsertRow")
             /\ UNCHANGED found
    <3>1. {"link", "upsertRow"} \subseteq Statements \ {"idle"}
      BY DEF Statements
    <3>2. QED
      BY <1>7, <2>2, <3>1, GotoFound DEF SelectAuditor
  <2>3. QED
    BY <1>7, <2>1, <2>2 DEF SelectAuditor
<1>8. ASSUME NEW p \in Sessions, SelectRow(p) PROVE FoundStep(q)
  BY <1>8, ReturnFound, GotoFound DEF SelectRow, Statements
<1>9. ASSUME NEW p \in Sessions,
             \/ LinkAudit(p) \/ UpsertRow(p) \/ EndFix(p) \/ StatementFails(p)
      PROVE FoundStep(q)
  BY <1>9, ReturnFound DEF LinkAudit, UpsertRow, EndFix, StatementFails
<1>10. ASSUME NEW p \in Sessions, SelectAudits(p) \/ \E link \in todo[p] : Fix(p, link)
       PROVE FoundStep(q)
  BY <1>10, GotoFound DEF SelectAudits, Fix, Statements
<1>11. QED
  BY <1>1, <1>2, <1>3, <1>4, <1>5, <1>6, <1>7, <1>8, <1>9, <1>10
     DEF Next, vars, InsertAuditor, DeleteAuditor, InsertFile

LEMMA FoundSoundStep ==
  ASSUME TypeOK, \A p \in Sessions : FoundSound(p), AuditsStay, [Next]_vars,
         NEW q \in Sessions
  PROVE  FoundSound(q)'
BY FoundSteps DEF FoundStep, FoundSound, AuditsStay

(* What is left to fix only shrinks, or was just read from the table.      *)
TodoStep(q) ==
  \/ todo'[q] \subseteq todo[q]
  \/ /\ audits' = audits
     /\ \A link \in todo'[q] :
          /\ link[2] \in Submissions
          /\ audits[link[2]] # Null
          /\ link[1] = audits[link[2]].id

LEMMA ReturnTodo ==
  ASSUME TypeOK, NEW p \in Sessions, NEW value, Return(p, value), NEW q \in Sessions
  PROVE  TodoStep(q)
BY ReturnTyping DEF TodoStep

LEMMA TodoSteps ==
  ASSUME TypeOK, [Next]_vars, NEW q \in Sessions
  PROVE  TodoStep(q)
<1>1. CASE UNCHANGED todo
  BY <1>1 DEF TodoStep
<1>2. ASSUME NEW p \in Sessions, NEW value, Return(p, value) PROVE TodoStep(q)
  BY <1>2, ReturnTodo
<1>3. ASSUME NEW p \in Sessions, SelectAudits(p) PROVE TodoStep(q)
  <2>1. /\ todo' = [todo EXCEPT ![p] = {<<audits[s].id, s>> :
                                         s \in {t \in Submissions : audits[t] # Null}}]
        /\ audits' = audits
    BY <1>3 DEF SelectAudits, tables
  <2>2. CASE q = p
    BY <2>1, <2>2 DEF TodoStep, TypeOK
  <2>3. CASE q # p
    BY <2>1, <2>3 DEF TodoStep, TypeOK
  <2>4. QED
    BY <2>2, <2>3
<1>4. ASSUME NEW p \in Sessions, NEW link \in todo[p], Fix(p, link) PROVE TodoStep(q)
  BY <1>4 DEF Fix, TodoStep, TypeOK
<1>5. UNCHANGED todo
      \/ (\E p \in Sessions :
            \/ Return(p, Error) \/ Return(p, Null) \/ Return(p, found[p].id)
            \/ Return(p, rows[call[p].sub].audit)
            \/ SelectAudits(p) \/ \E link \in todo[p] : Fix(p, link))
  BY DEF Next, vars, locals, InsertAuditor, DeleteAuditor, InsertFile, Begin, InsertAudit,
         InsertSubmission, GetSubmissionByID, FixAuditsInSubmissions, UpsertAudit,
         SelectAudit, SelectAuditor, WithoutAudit, LinkAudit, SelectRow, UpsertRow,
         EndFix, StatementFails
<1>6. QED
  BY <1>1, <1>2, <1>3, <1>4, <1>5

LEMMA TodoSoundStep ==
  ASSUME TypeOK, AuditsStay, [Next]_vars, NEW q \in Sessions, TodoSound(q)
  PROVE  TodoSound(q)'
<1>1. \A link \in todo[q] : link[2] \in Submissions
  BY DEF TypeOK, Link
<1>2. QED
  BY <1>1, TodoSteps DEF TodoStep, TodoSound, AuditsStay

(* What a step may write into a submission's audit_id.                     *)
RowStep(s) ==
  \/ rows'[s] = rows[s]
  \/ rows[s] # Null /\ rows'[s].audit = rows[s].audit
  \/ rows'[s].audit = Null
  \/ \E p \in Sessions : /\ found[p] # Null
                         /\ call[p].sub = s
                         /\ rows'[s].audit = found[p].id
  \/ \E p \in Sessions : \E link \in todo[p] : link[2] = s /\ rows'[s].audit = link[1]

LEMMA SetAuditIdRow ==
  ASSUME TypeOK, NEW t \in Submissions, NEW id \in Nat \ {0}, rows' = SetAuditId(t, id),
         NEW s \in Submissions
  PROVE  rows'[s] = rows[s] \/ (s = t /\ rows'[s].audit = id)
<1>1. CASE rows[t] = Null
  BY <1>1 DEF SetAuditId
<1>2. CASE rows[t] # Null
  <2> DEFINE row == [audit |-> id, files |-> rows[t].files]
  <2>1. rows' = [rows EXCEPT ![t] = row]
    BY <1>2, SetAuditIdTyping DEF SetAuditId
  <2>2. row.audit = id
    OBVIOUS
  <2> HIDE DEF row
  <2>3. QED
    BY <2>1, <2>2 DEF TypeOK
<1>3. QED
  BY <1>1, <1>2

LEMMA RowSteps ==
  ASSUME TypeOK, [Next]_vars, NEW s \in Submissions
  PROVE  RowStep(s)
<1>1. CASE UNCHANGED rows
  BY <1>1 DEF RowStep
<1>2. ASSUME NEW t \in Submissions, InsertFile(t) PROVE RowStep(s)
  <2>1. rows[t] # Null /\ rows' = [rows EXCEPT ![t] = [audit |-> rows[t].audit, files |-> "some"]]
    BY <1>2 DEF InsertFile
  <2>2. QED
    BY <2>1 DEF RowStep, TypeOK
<1>3. ASSUME NEW p \in Sessions, LinkAudit(p) PROVE RowStep(s)
  <2>1. /\ call[p].sub \in Submissions /\ found[p] # Null
        /\ found[p].id \in Nat \ {0}
        /\ rows' = SetAuditId(call[p].sub, found[p].id)
    BY <1>3, CallLocals DEF LinkAudit, TypeOK, Audit
  <2>2. rows'[s] = rows[s] \/ (s = call[p].sub /\ rows'[s].audit = found[p].id)
    BY <2>1, SetAuditIdRow
  <2>3. QED
    BY <2>1, <2>2 DEF RowStep
<1>4. ASSUME NEW p \in Sessions, UpsertRow(p) PROVE RowStep(s)
  <2> DEFINE row == [audit |-> IF found[p] = Null THEN Null ELSE found[p].id,
                     files |-> call[p].files]
  <2>1. rows' = [rows EXCEPT ![call[p].sub] = row]
    BY <1>4 DEF UpsertRow
  <2>2. row.audit = IF found[p] = Null THEN Null ELSE found[p].id
    OBVIOUS
  <2> HIDE DEF row
  <2>3. CASE s = call[p].sub
    <3>1. rows'[s].audit = IF found[p] = Null THEN Null ELSE found[p].id
      BY <2>1, <2>2, <2>3 DEF TypeOK
    <3>2. QED
      BY <2>3, <3>1 DEF RowStep
  <2>4. CASE s # call[p].sub
    <3>1. rows'[s] = rows[s]
      BY <2>1, <2>4 DEF TypeOK
    <3>2. QED
      BY <3>1 DEF RowStep
  <2>5. QED
    BY <2>3, <2>4
<1>5. ASSUME NEW p \in Sessions, NEW link \in todo[p], Fix(p, link) PROVE RowStep(s)
  <2>1. /\ link[1] \in Nat \ {0} /\ link[2] \in Submissions
        /\ rows' = SetAuditId(link[2], link[1])
    BY <1>5 DEF Fix, TypeOK, Link
  <2>2. rows'[s] = rows[s] \/ (s = link[2] /\ rows'[s].audit = link[1])
    BY <2>1, SetAuditIdRow
  <2>3. QED
    BY <1>5, <2>2 DEF RowStep
<1>6. QED
  BY <1>1, <1>2, <1>3, <1>4, <1>5
     DEF Next, vars, tables, InsertAuditor, DeleteAuditor, Begin, InsertAudit,
         InsertSubmission, GetSubmissionByID, FixAuditsInSubmissions, UpsertAudit,
         SelectAudit, SelectAuditor, SelectRow, SelectAudits, EndFix, StatementFails

LEMMA RowsSoundStep ==
  ASSUME LinkInv, AuditsStay, [Next]_vars
  PROVE  RowsSound'
<1> SUFFICES ASSUME NEW s \in Submissions, rows'[s] # Null, rows'[s].audit # Null
             PROVE  audits'[s] # Null /\ rows'[s].audit = audits'[s].id
  BY DEF RowsSound
<1>1. audits[s] # Null /\ rows'[s].audit = audits[s].id
  BY RowSteps DEF RowStep, LinkInv, RowsSound, FoundSound, TodoSound
<1>2. QED
  BY <1>1 DEF AuditsStay

LEMMA LinkInvInit == Init => LinkInv
BY TypingInit DEF Init, LinkInv, IdsSound, FoundSound, TodoSound, RowsSound

LEMMA LinkInvStep == LinkInv /\ [Next]_vars => LinkInv'
<1> SUFFICES ASSUME LinkInv, [Next]_vars PROVE LinkInv'
  OBVIOUS
<1>1. TypeOK'
  BY TypingStep DEF LinkInv
<1>2. IdsSound' /\ AuditsStay
  BY IdsStep DEF LinkInv
<1>3. \A p \in Sessions : FoundSound(p)' /\ TodoSound(p)'
  BY <1>2, FoundSoundStep, TodoSoundStep DEF LinkInv
<1>4. RowsSound'
  BY <1>2, RowsSoundStep
<1>5. QED
  BY <1>1, <1>2, <1>3, <1>4 DEF LinkInv

LEMMA LinkInvHolds == Spec => []LinkInv
BY LinkInvInit, LinkInvStep, PTL DEF Spec

(* A submission is linked to no audit or to its own, and ids are unique.   *)
THEOREM LinksAreSound == Spec => []LinkSound
<1>1. LinkInv => LinkSound
  BY DEF LinkInv, IdsSound, RowsSound, LinkSound
<1>2. QED
  BY <1>1, LinkInvHolds, PTL

-----------------------------------------------------------------------------
(***************************************************************************)
(* An audit that is not linked is explained: the InsertSubmission that is  *)
(* about to write NULL has missed it, and GetSubmissionByID writes only    *)
(* what it has found.                                                      *)
(***************************************************************************)
MissedExcused ==
  \A q \in Sessions, s \in Submissions :
    FoundNone(q, s) /\ audits[s] # Null => s \in excused

GetHasFound ==
  \A q \in Sessions :
    pc[q] = "upsertRow" =>
      /\ call[q].method \in {"InsertSubmission", "GetSubmissionByID"}
      /\ call[q].method = "GetSubmissionByID" => found[q] # Null

StaysInv == LinkInv /\ MissedExcused /\ GetHasFound /\ StaysLinked

(* Nothing takes an excuse back.                                           *)
LEMMA ExcusesStay == [Next]_vars => excused \subseteq excused'
BY DEF Next, vars, history, InsertAuditor, DeleteAuditor, InsertFile, Begin, InsertAudit,
       InsertSubmission, GetSubmissionByID, FixAuditsInSubmissions, UpsertAudit,
       SelectAudit, SelectAuditor, LinkAudit, SelectRow, UpsertRow, SelectAudits, Fix,
       EndFix, StatementFails

(* How a call comes to the upsert of InsertSubmission.                     *)
UpsertRowStep(q) ==
  \/ pc[q] = "upsertRow" /\ call'[q] = call[q] /\ found'[q] = found[q]
  \/ /\ call'[q] = call[q] /\ call[q].method = "InsertSubmission"
     /\ audits' = audits /\ found'[q] = Null
     /\ audits[call[q].sub] = Null \/ call[q].sub \in excused'
  \/ /\ call'[q] = call[q] /\ found'[q] # Null
     /\ call[q].method \in {"InsertSubmission", "GetSubmissionByID"}

(* A call that goes on to another statement, or returns.                   *)
LEMMA GotoElsewhere ==
  ASSUME TypeOK, NEW p \in Sessions, NEW statement, Goto(p, statement), UNCHANGED found,
         statement # "upsertRow", NEW q \in Sessions, pc'[q] = "upsertRow"
  PROVE  UpsertRowStep(q)
BY DEF TypeOK, Goto, UpsertRowStep

LEMMA ReturnElsewhere ==
  ASSUME TypeOK, NEW p \in Sessions, NEW value, Return(p, value),
         NEW q \in Sessions, pc'[q] = "upsertRow"
  PROVE  UpsertRowStep(q)
<1>1. q # p
  BY DEF TypeOK, Return
<1>2. QED
  BY <1>1 DEF TypeOK, Return, UpsertRowStep

LEMMA BeginElsewhere ==
  ASSUME TypeOK, NEW p \in Sessions, NEW method, NEW s, NEW a, NEW files, NEW statement,
         Begin(p, method, s, a, files, statement), statement # "upsertRow",
         NEW q \in Sessions, pc'[q] = "upsertRow"
  PROVE  UpsertRowStep(q)
<1>1. q # p
  BY DEF TypeOK, Begin
<1>2. pc'[q] = pc[q] /\ call'[q] = call[q] /\ found'[q] = found[q]
  BY <1>1 DEF TypeOK, Begin
<1>3. QED
  BY <1>2 DEF UpsertRowStep

LEMMA WithoutAuditElsewhere ==
  ASSUME TypeOK, NEW p \in Sessions, pc[p] # "idle", WithoutAudit(p), UNCHANGED audits,
         audits[call[p].sub] = Null \/ call[p].sub \in excused',
         NEW q \in Sessions, pc'[q] = "upsertRow"
  PROVE  UpsertRowStep(q)
<1>1. CASE Return(p, Error) \/ Return(p, Null)
  BY <1>1, ReturnElsewhere
<1>2. CASE /\ call[p].method = "InsertSubmission"
           /\ found' = [found EXCEPT ![p] = Null]
           /\ Goto(p, "upsertRow")
  <2>1. call' = call
    BY <1>2 DEF Goto
  <2>2. CASE q = p
    <3>1. found'[q] = Null
      BY <1>2, <2>2 DEF TypeOK
    <3>2. QED
      BY <1>2, <2>1, <2>2, <3>1 DEF UpsertRowStep
  <2>3. CASE q # p
    <3>1. pc'[q] = pc[q] /\ found'[q] = found[q]
      BY <1>2, <2>3 DEF TypeOK, Goto
    <3>2. QED
      BY <2>1, <3>1 DEF UpsertRowStep
  <2>4. QED
    BY <2>2, <2>3
<1>3. QED
  BY <1>1, <1>2 DEF WithoutAudit

LEMMA UpsertRowSteps ==
  ASSUME TypeOK, [Next]_vars, NEW q \in Sessions, pc'[q] = "upsertRow"
  PROVE  UpsertRowStep(q)
<1>1. CASE UNCHANGED <<pc, locals>>
  BY <1>1 DEF locals, UpsertRowStep
<1>2. ASSUME NEW p \in Sessions, NEW s \in Submissions, NEW a \in Auditors,
             InsertAudit(p, s, a)
      PROVE  UpsertRowStep(q)
  BY <1>2, BeginElsewhere DEF InsertAudit
<1>3. ASSUME NEW p \in Sessions, NEW s \in Submissions,
             InsertSubmission(p, s) \/ GetSubmissionByID(p, s)
      PROVE  UpsertRowStep(q)
  BY <1>3, BeginElsewhere DEF InsertSubmission, GetSubmissionByID
<1>4. ASSUME NEW p \in Sessions, FixAuditsInSubmissions(p) PROVE UpsertRowStep(q)
  BY <1>4, BeginElsewhere DEF FixAuditsInSubmissions
<1>5. ASSUME NEW p \in Sessions, SelectAudit(p) PROVE UpsertRowStep(q)
  <2>1. pc[p] = "selectAudit" /\ audits' = audits
    BY <1>5 DEF SelectAudit, tables
  <2>2. CASE audits[call[p].sub] = Null /\ WithoutAudit(p)
    BY <2>1, <2>2, WithoutAuditElsewhere
  <2>3. CASE /\ found' = [found EXCEPT ![p] = audits[call[p].sub]]
             /\ Goto(p, "selectAuditor")
    <3>1. q # p
      BY <2>3 DEF TypeOK, Goto
    <3>2. pc'[q] = pc[q] /\ call'[q] = call[q] /\ found'[q] = found[q]
      BY <2>3, <3>1 DEF TypeOK, Goto
    <3>3. QED
      BY <3>2 DEF UpsertRowStep
  <2>4. QED
    BY <1>5, <2>2, <2>3 DEF SelectAudit
<1>6. ASSUME NEW p \in Sessions, SelectAuditor(p) PROVE UpsertRowStep(q)
  <2>1. /\ pc[p] = "selectAuditor" /\ audits' = audits /\ found[p] # Null
        /\ call[p].method # "FixAudits" /\ call[p] \in Call
    BY <1>6 DEF SelectAuditor, tables, TypeOK, Running
  <2>2. CASE WithoutAudit(p) /\ excused' = excused \cup {call[p].sub}
    BY <2>1, <2>2, WithoutAuditElsewhere
  <2>3. CASE /\ Goto(p, IF call[p].method = "InsertAudit" THEN "link" ELSE "upsertRow")
             /\ UNCHANGED found
    <3>1. CASE q = p
      <4>1. call[p].method # "InsertAudit" /\ call' = call
        BY <2>3, <3>1 DEF TypeOK, Goto
      <4>2. call[p].method \in {"InsertSubmission", "GetSubmissionByID"}
        BY <2>1, <4>1 DEF Call, Methods
      <4>3. QED
        BY <2>1, <2>3, <3>1, <4>1, <4>2 DEF UpsertRowStep
    <3>2. CASE q # p
      BY <2>3, <3>2 DEF TypeOK, Goto, UpsertRowStep
    <3>3. QED
      BY <3>1, <3>2
  <2>4. QED
    BY <1>6, <2>2, <2>3 DEF SelectAuditor
<1>7. ASSUME NEW p \in Sessions, SelectRow(p) PROVE UpsertRowStep(q)
  BY <1>7, ReturnElsewhere, GotoElsewhere DEF SelectRow
<1>8. ASSUME NEW p \in Sessions,
             \/ LinkAudit(p) \/ UpsertRow(p) \/ EndFix(p) \/ StatementFails(p)
      PROVE  UpsertRowStep(q)
  BY <1>8, ReturnElsewhere DEF LinkAudit, UpsertRow, EndFix, StatementFails
<1>9. ASSUME NEW p \in Sessions,
             \/ \E enforced \in BOOLEAN : UpsertAudit(p, enforced)
             \/ SelectAudits(p) \/ \E link \in todo[p] : Fix(p, link)
      PROVE  UpsertRowStep(q)
  BY <1>9, GotoElsewhere DEF UpsertAudit, SelectAudits, Fix
<1>10. QED
  BY <1>1, <1>2, <1>3, <1>4, <1>5, <1>6, <1>7, <1>8, <1>9
     DEF Next, vars, InsertAuditor, DeleteAuditor, InsertFile

LEMMA GetHasFoundStep ==
  ASSUME TypeOK, GetHasFound, [Next]_vars
  PROVE  GetHasFound'
BY UpsertRowSteps DEF UpsertRowStep, GetHasFound

LEMMA MissedExcusedStep ==
  ASSUME TypeOK, MissedExcused, [Next]_vars
  PROVE  MissedExcused'
<1> SUFFICES ASSUME NEW q \in Sessions, NEW s \in Submissions,
                    FoundNone(q, s)', audits'[s] # Null
             PROVE  s \in excused'
  BY DEF MissedExcused
<1>1. /\ pc'[q] = "upsertRow" /\ call'[q].method = "InsertSubmission"
      /\ call'[q].sub = s /\ found'[q] = Null
  BY DEF FoundNone, Running
<1>2. UpsertRowStep(q)
  BY <1>1, UpsertRowSteps
<1>3. CASE pc[q] = "upsertRow" /\ call'[q] = call[q] /\ found'[q] = found[q]
  <2>1. FoundNone(q, s)
    BY <1>1, <1>3 DEF FoundNone, Running
  <2>2. CASE audits[s] # Null
    BY <2>1, <2>2, ExcusesStay DEF MissedExcused
  <2>3. CASE audits[s] = Null
    <3>1. PICK p \in Sessions, enforced \in BOOLEAN : UpsertAudit(p, enforced)
      BY <2>3, AuditSteps
    <3>2. call[p].sub = s
      BY <2>3, <3>1 DEF UpsertAudit, TypeOK
    <3>3. QED
      BY <2>1, <3>1, <3>2 DEF UpsertAudit
  <2>4. QED
    BY <2>2, <2>3
<1>4. CASE /\ call'[q] = call[q] /\ audits' = audits
           /\ audits[call[q].sub] = Null \/ call[q].sub \in excused'
  BY <1>1, <1>4
<1>5. QED
  BY <1>1, <1>2, <1>3, <1>4 DEF UpsertRowStep

(* What a session does itself; the steps of others leave its call alone.   *)
OwnStep(p) ==
  \/ pc[p] = "idle"
  \/ \E enforced \in BOOLEAN : UpsertAudit(p, enforced)
  \/ SelectAudit(p) \/ SelectAuditor(p) \/ LinkAudit(p)
  \/ SelectRow(p) \/ UpsertRow(p)
  \/ SelectAudits(p) \/ (\E link \in todo[p] : Fix(p, link)) \/ EndFix(p)
  \/ StatementFails(p)

LEMMA OtherSteps ==
  ASSUME TypeOK, [Next]_vars, NEW p \in Sessions, ~ OwnStep(p)
  PROVE  pc'[p] = pc[p] /\ call'[p] = call[p]
<1>1. CASE UNCHANGED <<pc, call>>
  BY <1>1
<1>2. ASSUME NEW q \in Sessions, NEW s \in Submissions, NEW a \in Auditors,
             InsertAudit(q, s, a)
      PROVE  pc'[p] = pc[p] /\ call'[p] = call[p]
  BY <1>2 DEF InsertAudit, Begin, OwnStep, TypeOK
<1>3. ASSUME NEW q \in Sessions, NEW s \in Submissions,
             InsertSubmission(q, s) \/ GetSubmissionByID(q, s)
      PROVE  pc'[p] = pc[p] /\ call'[p] = call[p]
  BY <1>3 DEF InsertSubmission, GetSubmissionByID, Begin, OwnStep, TypeOK
<1>4. ASSUME NEW q \in Sessions, FixAuditsInSubmissions(q)
      PROVE  pc'[p] = pc[p] /\ call'[p] = call[p]
  BY <1>4 DEF FixAuditsInSubmissions, Begin, OwnStep, TypeOK
<1>5. ASSUME NEW q \in Sessions, OwnStep(q), pc[q] # "idle"
      PROVE  pc'[p] = pc[p] /\ call'[p] = call[p]
  <2>1. q # p
    BY <1>5
  <2>2. ASSUME NEW statement, Goto(q, statement)
        PROVE  pc'[p] = pc[p] /\ call'[p] = call[p]
    BY <2>1, <2>2 DEF Goto, TypeOK
  <2>3. ASSUME NEW value, Return(q, value)
        PROVE  pc'[p] = pc[p] /\ call'[p] = call[p]
    BY <2>1, <2>3 DEF Return, TypeOK
  <2>4. (\E statement \in Statements : Goto(q, statement))
        \/ (\E value \in {Null, Error, found[q].id, rows[call[q].sub].audit} :
              Return(q, value))
    BY <1>5 DEF OwnStep, UpsertAudit, SelectAudit, SelectAuditor, WithoutAudit, LinkAudit,
                SelectRow, UpsertRow, SelectAudits, Fix, EndFix, StatementFails, Statements
  <2>5. QED
    BY <2>2, <2>3, <2>4
<1>6. ASSUME NEW q \in Sessions, OwnStep(q), pc[q] = "idle"
      PROVE  ~ \/ \E enforced \in BOOLEAN : UpsertAudit(q, enforced)
               \/ SelectAudit(q) \/ SelectAuditor(q) \/ LinkAudit(q)
               \/ SelectRow(q) \/ UpsertRow(q)
               \/ SelectAudits(q) \/ (\E link \in todo[q] : Fix(q, link)) \/ EndFix(q)
               \/ StatementFails(q)
  BY <1>6 DEF UpsertAudit, SelectAudit, SelectAuditor, LinkAudit, SelectRow, UpsertRow,
              SelectAudits, Fix, EndFix, StatementFails
<1>7. QED
  BY <1>1, <1>2, <1>3, <1>4, <1>5, <1>6
     DEF Next, vars, locals, InsertAuditor, DeleteAuditor, InsertFile, OwnStep

(* An InsertAudit that has upserted its audit goes on, links it, or is     *)
(* excused.                                                                *)
LEMMA BeingLinkedSteps ==
  ASSUME TypeOK, GetHasFound, [Next]_vars, NEW p \in Sessions, Running(p, "InsertAudit"),
         pc[p] # "upsertAudit", audits[call[p].sub] # Null
  PROVE  \/ LinkAudit(p)
         \/ call[p].sub \in excused'
         \/ Running(p, "InsertAudit")' /\ call'[p] = call[p] /\ pc'[p] # "upsertAudit"
<1>1. pc[p] \in {"selectAudit", "selectAuditor", "link"} /\ call[p].method = "InsertAudit"
  BY DEF TypeOK, GetHasFound, Running, Statements
<1>2. CASE pc'[p] = pc[p] /\ call'[p] = call[p]
  BY <1>1, <1>2 DEF Running
<1>3. CASE SelectAudit(p)
  BY <1>1, <1>3 DEF SelectAudit, Goto, Running, TypeOK
<1>4. CASE SelectAuditor(p)
  BY <1>1, <1>4 DEF SelectAuditor, Goto, Running, TypeOK
<1>5. CASE StatementFails(p)
  BY <1>1, <1>5 DEF StatementFails
<1>6. QED
  BY <1>1, <1>2, <1>3, <1>4, <1>5, OtherSteps
     DEF OwnStep, UpsertAudit, SelectRow, UpsertRow, SelectAudits, Fix, EndFix

(* A row without an audit had none before, or an upsert wrote NULL.        *)
LEMMA NullRowSteps ==
  ASSUME TypeOK, [Next]_vars, NEW s \in Submissions,
         rows'[s] # Null, rows'[s].audit = Null
  PROVE  \/ rows[s] # Null /\ rows[s].audit = Null
         \/ \E p \in Sessions : UpsertRow(p) /\ call[p].sub = s /\ found[p] = Null
<1>1. CASE UNCHANGED rows
  BY <1>1
<1>2. ASSUME NEW t \in Submissions, InsertFile(t)
      PROVE  rows[s] # Null /\ rows[s].audit = Null
  <2>1. rows' = [rows EXCEPT ![t] = [audit |-> rows[t].audit, files |-> "some"]]
        /\ rows[t] # Null
    BY <1>2 DEF InsertFile
  <2>2. QED
    BY <2>1 DEF TypeOK
<1>3. ASSUME NEW t \in Submissions, NEW id \in Nat \ {0}, rows' = SetAuditId(t, id)
      PROVE  rows[s] # Null /\ rows[s].audit = Null
  BY <1>3, SetAuditIdRow, ConstantsAssumption
<1>4. ASSUME NEW p \in Sessions, LinkAudit(p) \/ \E link \in todo[p] : Fix(p, link)
      PROVE  rows[s] # Null /\ rows[s].audit = Null
  <2>1. CASE LinkAudit(p)
    <3>1. call[p].sub \in Submissions /\ found[p].id \in Nat \ {0}
      BY <2>1, CallLocals DEF LinkAudit, TypeOK, Audit
    <3>2. QED
      BY <1>3, <2>1, <3>1 DEF LinkAudit
  <2>2. CASE \E link \in todo[p] : Fix(p, link)
    <3>1. PICK link \in todo[p] : Fix(p, link)
      BY <2>2
    <3>2. link[2] \in Submissions /\ link[1] \in Nat \ {0}
      BY DEF TypeOK, Link
    <3>3. QED
      BY <1>3, <3>1, <3>2 DEF Fix
  <2>3. QED
    BY <1>4, <2>1, <2>2
<1>5. ASSUME NEW p \in Sessions, UpsertRow(p)
      PROVE  \/ rows[s] # Null /\ rows[s].audit = Null
             \/ UpsertRow(p) /\ call[p].sub = s /\ found[p] = Null
  <2> DEFINE row == [audit |-> IF found[p] = Null THEN Null ELSE found[p].id,
                     files |-> call[p].files]
  <2>1. rows' = [rows EXCEPT ![call[p].sub] = row]
    BY <1>5 DEF UpsertRow
  <2>2. row.audit = Null => found[p] = Null
    <3>1. found[p] # Null => found[p].id # Null
      BY ConstantsAssumption DEF TypeOK, Audit
    <3>2. QED
      BY <3>1
  <2> HIDE DEF row
  <2>3. QED
    BY <1>5, <2>1, <2>2 DEF TypeOK
<1>6. QED
  BY <1>1, <1>2, <1>4, <1>5
     DEF Next, vars, tables, InsertAuditor, DeleteAuditor, Begin, InsertAudit,
         InsertSubmission, GetSubmissionByID, FixAuditsInSubmissions, UpsertAudit,
         SelectAudit, SelectAuditor, SelectRow, SelectAudits, EndFix, StatementFails

LEMMA StaysLinkedStep ==
  ASSUME StaysInv, [Next]_vars
  PROVE  StaysLinked'
<1> USE DEF StaysInv, LinkInv
<1> SUFFICES ASSUME NEW s \in Submissions, rows'[s] # Null, audits'[s] # Null,
                    rows'[s].audit = Null, s \notin excused'
             PROVE  BeingLinked(s)'
  BY DEF StaysLinked
<1>1. s \notin excused
  BY ExcusesStay
<1>2. ASSUME NEW p \in Sessions, UpsertRow(p), call[p].sub = s, found[p] = Null
      PROVE  FALSE
  <2>1. FoundNone(p, s)
    BY <1>2 DEF UpsertRow, GetHasFound, FoundNone, Running
  <2>2. audits[s] # Null
    BY <1>2 DEF UpsertRow
  <2>3. QED
    BY <1>1, <2>1, <2>2 DEF MissedExcused
<1>3. rows[s] # Null /\ rows[s].audit = Null
  BY <1>2, NullRowSteps
<1>4. CASE audits[s] = Null
  <2>1. PICK p \in Sessions, enforced \in BOOLEAN : UpsertAudit(p, enforced)
    BY <1>4, AuditSteps
  <2>2. call[p].sub = s
    BY <1>4, <2>1 DEF UpsertAudit, TypeOK
  <2>3. call[p].method = "InsertAudit" /\ pc'[p] = "selectAudit" /\ call'[p] = call[p]
    BY <2>1 DEF UpsertAudit, Goto, TypeOK
  <2>4. QED
    BY <2>2, <2>3 DEF BeingLinked, Running
<1>5. CASE audits[s] # Null
  <2>1. PICK p \in Sessions : /\ Running(p, "InsertAudit")
                              /\ call[p].sub = s
                              /\ pc[p] # "upsertAudit"
    BY <1>1, <1>3, <1>5 DEF StaysLinked, BeingLinked
  <2>2. ~ LinkAudit(p)
    <3>1. ASSUME LinkAudit(p) PROVE FALSE
      <4>1. found[p].id \in Nat \ {0}
        BY <3>1 DEF LinkAudit, TypeOK, Audit
      <4>2. rows'[s] = [audit |-> found[p].id, files |-> rows[s].files]
        BY <1>3, <2>1, <3>1, <4>1, SetAuditIdTyping DEF LinkAudit
      <4>3. rows'[s].audit = found[p].id
        BY <4>2
      <4>4. QED
        BY <4>1, <4>3, ConstantsAssumption
    <3>2. QED
      BY <3>1
  <2>3. Running(p, "InsertAudit")' /\ call'[p] = call[p] /\ pc'[p] # "upsertAudit"
    BY <1>5, <2>1, <2>2, BeingLinkedSteps
  <2>4. QED
    BY <2>1, <2>3 DEF BeingLinked
<1>6. QED
  BY <1>4, <1>5

LEMMA StaysInvInit == Init => StaysInv
BY LinkInvInit DEF Init, StaysInv, MissedExcused, FoundNone, Running, GetHasFound, StaysLinked

LEMMA StaysInvStep == StaysInv /\ [Next]_vars => StaysInv'
<1> SUFFICES ASSUME StaysInv, [Next]_vars PROVE StaysInv'
  OBVIOUS
<1>1. LinkInv'
  BY LinkInvStep DEF StaysInv
<1>2. MissedExcused' /\ GetHasFound'
  BY MissedExcusedStep, GetHasFoundStep DEF StaysInv, LinkInv
<1>3. QED
  BY <1>1, <1>2, StaysLinkedStep DEF StaysInv

LEMMA StaysInvHolds == Spec => []StaysInv
BY StaysInvInit, StaysInvStep, PTL DEF Spec

(* A submission keeps the id of its audit, but for the named exceptions.   *)
THEOREM SubmissionsStayLinked == Spec => []StaysLinked
<1>1. StaysInv => StaysLinked
  BY DEF StaysInv
<1>2. QED
  BY <1>1, StaysInvHolds, PTL

-----------------------------------------------------------------------------
(* What is acknowledged is in the table, also for the calls that began     *)
(* after.                                                                  *)
AckedInv ==
  /\ StaysInv
  /\ \A s \in acknowledged : audits[s] # Null
  /\ \A p \in Sessions : pc[p] # "idle" /\ call[p].due =>
       call[p].sub \in Submissions /\ audits[call[p].sub] # Null

(* Only LinkAudit acknowledges, an audit that is there.                    *)
LEMMA AckedStep ==
  ASSUME AckedInv, [Next]_vars, NEW s \in acknowledged'
  PROVE  s \in Submissions /\ audits[s] # Null
<1> USE DEF AckedInv, StaysInv, LinkInv
<1>1. CASE UNCHANGED acknowledged
  BY <1>1 DEF TypeOK
<1>2. ASSUME NEW p \in Sessions, LinkAudit(p)
      PROVE  s \in Submissions /\ audits[s] # Null
  BY <1>2 DEF LinkAudit, FoundSound, TypeOK
<1>3. QED
  BY <1>1, <1>2
     DEF Next, vars, history, InsertAuditor, DeleteAuditor, InsertFile, Begin, InsertAudit,
         InsertSubmission, GetSubmissionByID, FixAuditsInSubmissions, UpsertAudit,
         SelectAudit, SelectAuditor, SelectRow, UpsertRow, SelectAudits, Fix, EndFix,
         StatementFails

(* A call keeps its arguments until it returns.                            *)
LEMMA CallSteps ==
  ASSUME TypeOK, [Next]_vars, NEW p \in Sessions, pc[p] # "idle", pc'[p] # "idle"
  PROVE  call'[p] = call[p]
BY OtherSteps
   DEF OwnStep, UpsertAudit, SelectAudit, SelectAuditor, WithoutAudit, LinkAudit, SelectRow,
       UpsertRow, SelectAudits, Fix, EndFix, StatementFails, Goto, Return, TypeOK

(* A call is due when it begins after the acknowledgement.                 *)
LEMMA BeginSteps ==
  ASSUME TypeOK, [Next]_vars, NEW p \in Sessions, pc[p] = "idle", pc'[p] # "idle"
  PROVE  /\ audits' = audits
         /\ call'[p].due => call'[p].sub \in acknowledged
<1>1. ASSUME NEW q \in Sessions, NEW method, NEW s, NEW a, NEW files, NEW statement,
             Begin(q, method, s, a, files, statement)
      PROVE  /\ audits' = audits
             /\ call'[p].due => call'[p].sub \in acknowledged
  <2> DEFINE c == [method |-> method, sub |-> s, auditor |-> a,
                   files |-> files, due |-> s \in acknowledged]
  <2>1. call' = [call EXCEPT ![q] = c] /\ audits' = audits /\ p = q
    BY <1>1 DEF Begin, tables, TypeOK
  <2>2. (c.due <=> s \in acknowledged) /\ c.sub = s
    OBVIOUS
  <2> HIDE DEF c
  <2>3. call'[p] = c
    BY <2>1 DEF TypeOK
  <2>4. QED
    BY <2>1, <2>2, <2>3
<1>2. \/ \E q \in Sessions, s \in Submissions, a \in Auditors : InsertAudit(q, s, a)
      \/ \E q \in Sessions, s \in Submissions :
           InsertSubmission(q, s) \/ GetSubmissionByID(q, s)
      \/ \E q \in Sessions : FixAuditsInSubmissions(q)
  <2>1. ASSUME NEW q \in Sessions, OwnStep(q), pc[q] # "idle" PROVE FALSE
    <3>1. q # p
      BY <2>1
    <3>2. pc'[p] = pc[p]
      BY <2>1, <3>1
         DEF OwnStep, UpsertAudit, SelectAudit, SelectAuditor, WithoutAudit, LinkAudit,
             SelectRow, UpsertRow, SelectAudits, Fix, EndFix, StatementFails, Goto, Return,
             TypeOK
    <3>3. QED
      BY <3>2
  <2>2. pc' # pc
    OBVIOUS
  <2>3. ASSUME NEW q \in Sessions, pc[q] = "idle"
        PROVE  ~ \/ \E enforced \in BOOLEAN : UpsertAudit(q, enforced)
                 \/ SelectAudit(q) \/ SelectAuditor(q) \/ LinkAudit(q)
                 \/ SelectRow(q) \/ UpsertRow(q)
                 \/ SelectAudits(q) \/ (\E link \in todo[q] : Fix(q, link)) \/ EndFix(q)
                 \/ StatementFails(q)
    BY <2>3 DEF UpsertAudit, SelectAudit, SelectAuditor, LinkAudit, SelectRow, UpsertRow,
                SelectAudits, Fix, EndFix, StatementFails
  <2>4. QED
    BY <2>1, <2>2, <2>3 DEF Next, vars, InsertAuditor, DeleteAuditor, InsertFile, OwnStep
<1>3. QED
  BY <1>1, <1>2 DEF InsertAudit, InsertSubmission, GetSubmissionByID, FixAuditsInSubmissions

LEMMA DueStep ==
  ASSUME AckedInv, [Next]_vars, NEW p \in Sessions, pc'[p] # "idle", call'[p].due
  PROVE  call'[p].sub \in Submissions /\ audits'[call'[p].sub] # Null
<1> USE DEF AckedInv, StaysInv, LinkInv
<1>1. CASE pc[p] # "idle"
  <2>1. call'[p] = call[p]
    BY <1>1, CallSteps
  <2>2. QED
    BY <1>1, <2>1, IdsStep DEF AuditsStay
<1>2. CASE pc[p] = "idle"
  BY <1>2, BeginSteps DEF TypeOK
<1>3. QED
  BY <1>1, <1>2

(* What the last step of a GetSubmissionByID that was due returns.         *)
LEMMA SeenStep ==
  ASSUME AckedInv, [Next]_vars, NEW p \in Sessions,
         Running(p, "GetSubmissionByID"), pc'[p] = "idle", call[p].due
  PROVE  \/ reply' = Error
         \/ reply' = audits[call[p].sub].id
         \/ pc[p] = "selectAuditor" /\ found[p].auditor \notin auditors
<1> USE DEF AckedInv, StaysInv, LinkInv
<1>1. /\ call[p].sub \in Submissions /\ audits[call[p].sub] # Null
      /\ pc[p] # "idle" /\ call[p].method = "GetSubmissionByID"
  BY DEF Running
<1>2. CASE SelectAudit(p)
  BY <1>1, <1>2 DEF SelectAudit, Goto, TypeOK
<1>3. CASE SelectAuditor(p)
  BY <1>1, <1>3 DEF SelectAuditor, Goto, TypeOK
<1>4. CASE SelectRow(p)
  <2>1. CASE rows[call[p].sub] = Null
    BY <1>4, <2>1 DEF SelectRow, Return
  <2>2. CASE rows[call[p].sub] # Null /\ rows[call[p].sub].audit # Null
    BY <1>1, <1>4, <2>2 DEF SelectRow, Return, RowsSound
  <2>3. CASE Goto(p, "selectAudit")
    BY <2>3 DEF Goto, TypeOK
  <2>4. QED
    BY <1>4, <2>1, <2>2, <2>3 DEF SelectRow
<1>5. CASE UpsertRow(p)
  <2>1. found[p] # Null
    BY <1>1, <1>5 DEF UpsertRow, GetHasFound
  <2>2. found[p].id = audits[call[p].sub].id
    BY <2>1 DEF FoundSound
  <2>3. QED
    BY <1>5, <2>1, <2>2 DEF UpsertRow, Return
<1>6. CASE StatementFails(p)
  BY <1>6 DEF StatementFails, Return
<1>7. QED
  BY <1>1, <1>2, <1>3, <1>4, <1>5, <1>6, OtherSteps
     DEF OwnStep, UpsertAudit, LinkAudit, SelectAudits, Fix, EndFix, TypeOK, Running

LEMMA AckedInvHolds == Spec => []AckedInv
<1>1. Init => AckedInv
  BY StaysInvInit DEF Init, AckedInv
<1>2. AckedInv /\ [Next]_vars => AckedInv'
  <2> SUFFICES ASSUME AckedInv, [Next]_vars PROVE AckedInv'
    OBVIOUS
  <2>1. StaysInv'
    BY StaysInvStep DEF AckedInv
  <2>2. \A s \in acknowledged' : audits'[s] # Null
    BY AckedStep, IdsStep DEF AckedInv, StaysInv, LinkInv, AuditsStay
  <2>3. QED
    BY <2>1, <2>2, DueStep DEF AckedInv
<1>3. QED
  BY <1>1, <1>2, PTL DEF Spec

(* A GetSubmissionByID that begins after InsertAudit returned an id shows  *)
(* the audit, or fails, or does not find the auditor.                      *)
THEOREM AcknowledgedIsSeen == Spec => AcknowledgedSeen
<1>1. AckedInv /\ [Next]_vars =>
        [\A p \in Sessions :
           Running(p, "GetSubmissionByID") /\ pc'[p] = "idle" /\ call[p].due =>
             \/ reply' = Error
             \/ reply' = audits[call[p].sub].id
             \/ pc[p] = "selectAuditor" /\ found[p].auditor \notin auditors]_vars
  BY SeenStep
<1>2. QED
  BY <1>1, AckedInvHolds, PTL DEF Spec, AcknowledgedSeen

=============================================================================
