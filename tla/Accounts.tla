------------------------------ MODULE Accounts ------------------------------
(***************************************************************************)
(* Sessions and authorization: login, guest, logout and validate, the      *)
(* middlewares that find out who sends a request, and newAuditor,          *)
(* upsertAuditor and deleteAuditor, which change who may.                  *)
(*                                                                         *)
(* A session is known in two places: at Inkbunny, which creates and ends   *)
(* it, and in the table sids, by the hash of its sid.  A request reads     *)
(* sids and auditors with separate statements, and acts after.             *)
(*                                                                         *)
(* The routes are those of cmd/server.  The start of cmd/extension, which  *)
(* uses the same file, inserts the auditors that it is configured with.    *)
(* A session is a number, a role is that of an auditor or not.             *)
(***************************************************************************)
EXTENDS Integers

CONSTANTS
  Users,        \* of Inkbunny, who may log in; a guest is one of them
  Handlers,     \* goroutines that serve a request, one at a time
  Configured,   \* the users of auditors.json, inserted when cmd/extension starts
  MaxSid,       \* bound: sessions
  NoUser

ASSUME AccountsAssumption ==
  /\ Configured \subseteq Users
  /\ NoUser \notin Users
  /\ MaxSid \in Nat

Sids == 1..MaxSid
Roles == {"auditor", "user"}
NoRole == "none"

VARIABLES
  owner,        \* the user of each session Inkbunny has created, or NoUser
  alive,        \* the sessions Inkbunny has not ended
  sids,         \* table sids: the user of each session, or NoUser
  auditors,     \* table auditors: the role of each user, or NoRole
  cookies,      \* the sessions clients were told
  at,           \* the next step of each request
  route,        \* what its route does once it is let in
  sid,          \* the session it presents, or was given by Inkbunny
  id,           \* the user it was found to come from
  known,        \* the auditors it has read
  validity,     \* history: the session was in sids during the request
  authority,    \* history: its user was an auditor during the request
  loggedOut,    \* history: the sessions whose logout was answered
  orphans       \* history: sessions that expired at Inkbunny, or of a login
                \* or a logout that failed or was cut off half way

inkbunny == <<owner, alive>>
tables == <<sids, auditors>>
request == <<route, sid, id, known>>
accountVars == <<inkbunny, tables, cookies, at, request, validity, authority,
                 loggedOut, orphans>>

Steps == {"idle", "store", "lookup", "try", "require", "end", "remove",
          "validate", "staff", "edit", "reduced"}
Routes == {"logout", "validate", "PUT", "PATCH", "DELETE", "reduced", "none"}

AccountsInit ==
  /\ owner = [s \in Sids |-> NoUser]
  /\ alive = {}
  /\ sids = [s \in Sids |-> NoUser]
  /\ auditors = [u \in Users |-> IF u \in Configured THEN "auditor" ELSE NoRole]
  /\ cookies = {}
  /\ at = [h \in Handlers |-> "idle"]
  /\ route = [h \in Handlers |-> "none"]
  /\ sid = [h \in Handlers |-> 0]
  /\ id = [h \in Handlers |-> NoUser]
  /\ known = [h \in Handlers |-> {}]
  /\ validity = [h \in Handlers |-> FALSE]
  /\ authority = [h \in Handlers |-> FALSE]
  /\ loggedOut = {}
  /\ orphans = {}

Go(h, next) == at' = [at EXCEPT ![h] = next]

(* The request is answered.                                                *)
Done(h) ==
  /\ Go(h, "idle")
  /\ route' = [route EXCEPT ![h] = "none"]
  /\ sid' = [sid EXCEPT ![h] = 0]
  /\ id' = [id EXCEPT ![h] = NoUser]
  /\ known' = [known EXCEPT ![h] = {}]

-----------------------------------------------------------------------------
(* login, and guest without a session that is valid here: Inkbunny creates *)
(* a session.  A login that Inkbunny refuses changes nothing.              *)
Login(h, u, s) ==
  /\ at[h] = "idle"
  /\ owner[s] = NoUser
  /\ owner' = [owner EXCEPT ![s] = u]
  /\ alive' = alive \cup {s}
  /\ Go(h, "store")
  /\ sid' = [sid EXCEPT ![h] = s]
  /\ UNCHANGED <<tables, cookies, route, id, known, loggedOut, orphans>>

(* db.Error and InsertSIDHash, then the cookie, which guest also sets when *)
(* ChangeRating fails after.                                               *)
InsertSIDHash(h, failed) ==
  LET s == sid[h]
  IN  /\ at[h] = "store"
      /\ sids' = IF failed THEN sids ELSE [sids EXCEPT ![s] = owner[s]]
      /\ cookies' = IF failed THEN cookies ELSE cookies \cup {s}
      /\ orphans' = IF failed THEN orphans \cup {s} ELSE orphans
      /\ Done(h)
      /\ UNCHANGED <<inkbunny, auditors, loggedOut>>

-----------------------------------------------------------------------------
(* LoggedInMiddleware asks twice: ValidSID, and then GetUserIDFromSID.     *)
ValidSID(h, s, to) ==
  /\ at[h] = "idle"
  /\ sids[s] # NoUser
  /\ Go(h, "lookup")
  /\ sid' = [sid EXCEPT ![h] = s]
  /\ route' = [route EXCEPT ![h] = to]
  /\ UNCHANGED <<inkbunny, tables, cookies, id, known, loggedOut, orphans>>

GetUserIDFromSID(h) ==
  /\ at[h] = "lookup"
  /\ IF sids[sid[h]] = NoUser
     THEN Done(h)
     ELSE /\ Go(h, CASE route[h] = "logout" -> "end"
                     [] route[h] = "validate" -> "validate"
                     [] OTHER -> "require")
          /\ id' = [id EXCEPT ![h] = sids[sid[h]]]
          /\ UNCHANGED <<route, sid, known>>
  /\ UNCHANGED <<inkbunny, tables, cookies, loggedOut, orphans>>

(* Mutant: any auditor of the table, of role user too, passes.             *)
RequireAuditorOfAnyRole(h) ==
  /\ at[h] = "require"
  /\ IF auditors[id[h]] \in Roles
     THEN Go(h, "staff") /\ UNCHANGED request
     ELSE Done(h)
  /\ UNCHANGED <<inkbunny, tables, cookies, loggedOut, orphans>>

RequireAuditor(h) ==
  /\ at[h] = "require"
  /\ IF auditors[id[h]] = "auditor"
     THEN Go(h, "staff") /\ UNCHANGED request
     ELSE Done(h)
  /\ UNCHANGED <<inkbunny, tables, cookies, loggedOut, orphans>>

(* RequireSID lets any sid pass: fetchSID finds its user, or none.         *)
RequireSID(h, s) ==
  /\ at[h] = "idle"
  /\ Go(h, "try")
  /\ sid' = [sid EXCEPT ![h] = s]
  /\ id' = [id EXCEPT ![h] = sids[s]]
  /\ route' = [route EXCEPT ![h] = "reduced"]
  /\ UNCHANGED <<inkbunny, tables, cookies, known, loggedOut, orphans>>

(* TryAuditor: an auditor of the table, of any role, or AnonymousAuditor.  *)
TryAuditor(h) ==
  /\ at[h] = "try"
  /\ Go(h, "reduced")
  /\ id' = [id EXCEPT ![h] = IF @ # NoUser /\ auditors[@] # NoRole THEN @ ELSE NoUser]
  /\ UNCHANGED <<inkbunny, tables, cookies, route, sid, known, loggedOut, orphans>>

(* The second ValidSID of validate, and the end of any other body.         *)
Serve(h) ==
  /\ at[h] \in {"validate", "reduced", "edit"}
  /\ Done(h)
  /\ UNCHANGED <<inkbunny, tables, cookies, loggedOut, orphans>>

-----------------------------------------------------------------------------
(* user.Logout at Inkbunny, which refuses a session that ended, or whose   *)
(* answer may be lost.                                                     *)
EndSession(h, answer) ==
  LET s == sid[h]
  IN  /\ at[h] = "end"
      /\ answer \in {"ok", "lost"} => s \in alive
      /\ alive' = IF answer = "refused" THEN alive ELSE alive \ {s}
      /\ orphans' = IF answer = "lost" THEN orphans \cup {s} ELSE orphans
      /\ IF answer = "ok" THEN Go(h, "remove") /\ UNCHANGED request ELSE Done(h)
      /\ UNCHANGED <<owner, tables, cookies, loggedOut>>

(* Mutant: the hash of the credentials after Logout, not of the sid.       *)
RemoveOtherHash(h, failed) ==
  LET s == sid[h]
  IN  /\ at[h] = "remove"
      /\ orphans' = IF failed THEN orphans \cup {s} ELSE orphans
      /\ loggedOut' = IF failed THEN loggedOut ELSE loggedOut \cup {s}
      /\ Done(h)
      /\ UNCHANGED <<inkbunny, tables, cookies>>

(* db.Error and RemoveSIDHash, for which no row to delete is an error.     *)
RemoveSIDHash(h, failed) ==
  LET s == sid[h]
      removed == ~failed /\ sids[s] # NoUser
  IN  /\ at[h] = "remove"
      /\ sids' = IF removed THEN [sids EXCEPT ![s] = NoUser] ELSE sids
      /\ orphans' = IF failed THEN orphans \cup {s} ELSE orphans
      /\ loggedOut' = IF removed THEN loggedOut \cup {s} ELSE loggedOut
      /\ Done(h)
      /\ UNCHANGED <<inkbunny, auditors, cookies>>

-----------------------------------------------------------------------------
(* newAuditor and upsertAuditor read the auditors, or a part of them when  *)
(* the read fails; deleteAuditor reads none.                               *)
AllAuditors(h, read) ==
  /\ at[h] = "staff"
  /\ \A u \in read : auditors[u] # NoRole
  /\ Go(h, "edit")
  /\ known' = [known EXCEPT ![h] = read]
  /\ UNCHANGED <<inkbunny, tables, cookies, route, sid, id, loggedOut, orphans>>

WriteAuditor(h, to, u, role) ==
  /\ at[h] = "edit"
  /\ route[h] = to
  /\ auditors' = [auditors EXCEPT ![u] = role]
  /\ UNCHANGED <<inkbunny, sids, cookies, at, request, loggedOut, orphans>>

(* One turn of the loop of newAuditor: a name already read is a conflict,  *)
(* an id already there is written over.                                    *)
InsertAuditor(h, u, role, renamed) ==
  /\ u \in known[h] => renamed
  /\ WriteAuditor(h, "PUT", u, role)

(* Of upsertAuditor: the name must be known, the id need not be its own.   *)
EditAuditorRole(h, u, role) ==
  /\ known[h] # {}
  /\ WriteAuditor(h, "PATCH", u, IF auditors[u] = NoRole THEN NoRole ELSE role)

DeleteAuditor(h, u) == WriteAuditor(h, "DELETE", u, NoRole)

-----------------------------------------------------------------------------
(* Inkbunny ends a session by itself.                                      *)
Expire(s) ==
  /\ s \in alive
  /\ alive' = alive \ {s}
  /\ orphans' = orphans \cup {s}
  /\ UNCHANGED <<owner, tables, cookies, at, request, loggedOut>>

(* The server stops, with its requests, and starts.                        *)
Restart ==
  /\ orphans' = orphans \cup {sid[h] : h \in {g \in Handlers : at[g] \in {"store", "remove"}}}
  /\ at' = [h \in Handlers |-> "idle"]
  /\ route' = [h \in Handlers |-> "none"]
  /\ sid' = [h \in Handlers |-> 0]
  /\ id' = [h \in Handlers |-> NoUser]
  /\ known' = [h \in Handlers |-> {}]
  /\ UNCHANGED <<inkbunny, tables, cookies, loggedOut>>

(* Another program: cmd/extension starts, and inserts an auditor of        *)
(* auditors.json into the file that it shares with the server.             *)
InsertConfigured(u) ==
  /\ auditors' = [auditors EXCEPT ![u] = "auditor"]
  /\ UNCHANGED <<inkbunny, sids, cookies, at, request, loggedOut, orphans>>

(* What was so at some time since the request came in.                     *)
Observe ==
  /\ validity' = [h \in Handlers |->
       at'[h] # "idle" /\ sid'[h] # 0 /\ (validity[h] \/ sids'[sid'[h]] # NoUser)]
  /\ authority' = [h \in Handlers |->
       at'[h] # "idle" /\ sid'[h] # 0 /\
         (authority[h] \/ (owner'[sid'[h]] # NoUser /\ auditors'[owner'[sid'[h]]] = "auditor"))]

AccountsStep ==
  \/ \E h \in Handlers :
       \/ \E u \in Users, s \in Sids : Login(h, u, s)
       \/ \E failed \in BOOLEAN : InsertSIDHash(h, failed) \/ RemoveSIDHash(h, failed)
       \/ \E s \in cookies : \/ \E to \in Routes \ {"reduced", "none"} : ValidSID(h, s, to)
                             \/ RequireSID(h, s)
       \/ GetUserIDFromSID(h)
       \/ RequireAuditor(h)
       \/ TryAuditor(h)
       \/ Serve(h)
       \/ \E answer \in {"ok", "lost", "refused"} : EndSession(h, answer)
       \/ \E read \in SUBSET Users : AllAuditors(h, read)
       \/ \E u \in Users, role \in Roles :
            \/ \E renamed \in BOOLEAN : InsertAuditor(h, u, role, renamed)
            \/ EditAuditorRole(h, u, role)
       \/ \E u \in Users : DeleteAuditor(h, u)
  \/ \E s \in Sids : Expire(s)
  \/ Restart
  \/ \E u \in Configured : InsertConfigured(u)

AccountsNext == AccountsStep /\ Observe

AccountsSpec == AccountsInit /\ [][AccountsNext]_accountVars

-----------------------------------------------------------------------------
AccountsTypeOK ==
  /\ owner \in [Sids -> Users \cup {NoUser}]
  /\ alive \subseteq Sids
  /\ sids \in [Sids -> Users \cup {NoUser}]
  /\ auditors \in [Users -> Roles \cup {NoRole}]
  /\ cookies \subseteq Sids
  /\ at \in [Handlers -> Steps]
  /\ route \in [Handlers -> Routes]
  /\ sid \in [Handlers -> Sids \cup {0}]
  /\ id \in [Handlers -> Users \cup {NoUser}]
  /\ known \in [Handlers -> SUBSET Users]
  /\ validity \in [Handlers -> BOOLEAN]
  /\ authority \in [Handlers -> BOOLEAN]
  /\ loggedOut \subseteq Sids
  /\ orphans \subseteq Sids
  /\ \A h \in Handlers :
       /\ at[h] = "idle" <=> sid[h] = 0
       /\ at[h] \in {"require", "end", "validate", "staff", "edit"} => id[h] # NoUser

(***************************************************************************)
(* Inkbunny and the table agree on which sessions there are and whose they *)
(* are, except while a login or a logout is between the two, and for the   *)
(* sessions of one that failed or was cut off there and those that expired *)
(* at Inkbunny.  A session whose logout was answered is gone from both.    *)
(***************************************************************************)
SessionsAgree ==
  \A s \in Sids :
    /\ sids[s] # NoUser =>
         /\ sids[s] = owner[s]
         /\ s \in alive \cup orphans \/ \E h \in Handlers : at[h] = "remove" /\ sid[h] = s
    /\ s \in alive /\ sids[s] = NoUser =>
         s \in orphans \/ \E h \in Handlers : at[h] = "store" /\ sid[h] = s
    /\ s \in loggedOut => s \notin alive /\ sids[s] = NoUser

(***************************************************************************)
(* A request is served as staff only if, at some time since it came in,    *)
(* its session was in the table and, at some time, the user of the session *)
(* was an auditor: one that comes in after a logout was answered, or after *)
(* the role was taken away, is not.  Any request that acts for an auditor  *)
(* acts for the user of its session.                                       *)
(***************************************************************************)
StaffOnly ==
  \A h \in Handlers :
    /\ at[h] \in {"staff", "edit"} => validity[h] /\ authority[h]
    /\ at[h] \in {"staff", "edit", "reduced"} /\ id[h] # NoUser =>
         validity[h] /\ id[h] = owner[sid[h]]

=============================================================================
