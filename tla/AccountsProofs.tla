--------------------------- MODULE AccountsProofs ---------------------------
(***************************************************************************)
(* The two places that know of a session agree, and only the session of an *)
(* auditor is served as staff, for every number of users, sessions and     *)
(* requests, and wherever the server is stopped.                           *)
(***************************************************************************)
EXTENDS Accounts, TLAPS

(* AccountsTypeOK, by what a step may leave alone.                         *)
TablesType ==
  /\ owner \in [Sids -> Users \cup {NoUser}]
  /\ alive \subseteq Sids
  /\ sids \in [Sids -> Users \cup {NoUser}]
  /\ auditors \in [Users -> Roles \cup {NoRole}]
  /\ cookies \subseteq Sids
  /\ loggedOut \subseteq Sids
  /\ orphans \subseteq Sids

RequestsType ==
  /\ at \in [Handlers -> Steps]
  /\ route \in [Handlers -> Routes]
  /\ sid \in [Handlers -> Sids \cup {0}]
  /\ id \in [Handlers -> Users \cup {NoUser}]
  /\ known \in [Handlers -> SUBSET Users]

HistoryType == validity \in [Handlers -> BOOLEAN] /\ authority \in [Handlers -> BOOLEAN]

(* What a request presents: a session that was created, and told to a      *)
(* client unless it is the one of a login; and whom it acts for.           *)
Presents(h) ==
  /\ at[h] = "idle" <=> sid[h] = 0
  /\ at[h] # "idle" => owner[sid[h]] # NoUser
  /\ at[h] \notin {"idle", "store"} => sid[h] \in cookies
  /\ at[h] = "store" => sid[h] \notin cookies /\ sid[h] \in alive \cup orphans
  /\ at[h] = "remove" => sid[h] \notin alive

ActsFor(h) ==
  /\ id[h] # NoUser => at[h] # "idle" /\ validity[h] /\ id[h] = owner[sid[h]]
  /\ at[h] \in {"require", "end", "validate", "staff", "edit"} => id[h] # NoUser
  /\ at[h] \in {"staff", "edit"} => authority[h]

(* No two logins were given one session.                                   *)
StoreAlone ==
  \A g, h \in Handlers : at[g] = "store" /\ at[h] = "store" /\ sid[g] = sid[h] => g = h

Between(step, s) == \E h \in Handlers : at[h] = step /\ sid[h] = s

(* A session in the table was told to a client, as was one logged out.     *)
Known(s) ==
  /\ s \in cookies \cup alive => owner[s] # NoUser
  /\ sids[s] # NoUser \/ s \in loggedOut => s \in cookies

Agrees(s) ==
  /\ sids[s] # NoUser =>
       sids[s] = owner[s] /\ (s \in alive \cup orphans \/ Between("remove", s))
  /\ s \in alive /\ sids[s] = NoUser => s \in orphans \/ Between("store", s)
  /\ s \in loggedOut => s \notin alive /\ sids[s] = NoUser

AccountsInv ==
  /\ TablesType /\ RequestsType /\ HistoryType
  /\ \A h \in Handlers : Presents(h) /\ ActsFor(h)
  /\ StoreAlone
  /\ \A s \in Sids : Known(s) /\ Agrees(s)

-----------------------------------------------------------------------------
(* No request but that of h moves.                                         *)
OnlyMoves(h) ==
  \A g \in Handlers \ {h} : at'[g] = at[g] /\ sid'[g] = sid[g] /\ id'[g] = id[g]

(* An answer ends the request of h, and moves no other.                   *)
LEMMA DoneMoves ==
  ASSUME RequestsType, NEW h \in Handlers, Done(h)
  PROVE  /\ RequestsType' /\ OnlyMoves(h)
         /\ at'[h] = "idle" /\ sid'[h] = 0 /\ id'[h] = NoUser
<1>1. "idle" \in Steps /\ "none" \in Routes
  BY DEF Steps, Routes
<1> QED BY <1>1 DEF RequestsType, OnlyMoves, Done, Go

(* A step within a request moves no other.                                 *)
LEMMA GoMoves ==
  ASSUME RequestsType, NEW h \in Handlers, NEW next \in Steps, Go(h, next), UNCHANGED request
  PROVE  /\ RequestsType' /\ OnlyMoves(h)
         /\ at'[h] = next /\ sid'[h] = sid[h] /\ id'[h] = id[h]
BY DEF RequestsType, OnlyMoves, Go, request

(* What was so during a request stays so until it is answered.             *)
LEMMA ObserveKeeps ==
  ASSUME Observe
  PROVE  /\ HistoryType'
         /\ \A h \in Handlers : at'[h] # "idle" /\ sid'[h] # 0 =>
              /\ validity[h] \/ sids'[sid'[h]] # NoUser => validity'[h]
              /\ authority[h] \/ (/\ owner'[sid'[h]] # NoUser
                                  /\ auditors'[owner'[sid'[h]]] = "auditor")
                   => authority'[h]
BY DEF Observe, HistoryType

(* A request that does not move, while its session stays what it was.      *)
LEMMA HandlerStays ==
  ASSUME AccountsInv, Observe, NEW g \in Handlers,
         at'[g] = at[g], sid'[g] = sid[g], id'[g] = id[g],
         at[g] # "idle" =>
           /\ owner'[sid[g]] = owner[sid[g]]
           /\ sid[g] \in alive' => sid[g] \in alive
           /\ sid[g] \in cookies => sid[g] \in cookies'
           /\ at[g] = "store" => sid[g] \notin cookies' /\ sid[g] \in alive' \cup orphans'
  PROVE  Presents(g)' /\ ActsFor(g)'
<1>1. Presents(g) /\ ActsFor(g)
  BY DEF AccountsInv
<1>2. Presents(g)'
  BY <1>1 DEF Presents
<1>3. at[g] # "idle" => /\ validity[g] => validity'[g]
                        /\ authority[g] => authority'[g]
  BY <1>1, ObserveKeeps DEF Presents
<1>4. ActsFor(g)'
  BY <1>1, <1>3 DEF ActsFor
<1> QED BY <1>2, <1>4

(***************************************************************************)
(* When h moves, it is enough to look at h: sessions that exist keep their *)
(* owner, do not come alive again, and do not vanish before they are told  *)
(* to a client, which only their own login does.                           *)
(***************************************************************************)
LEMMA OthersStay ==
  ASSUME AccountsInv, Observe, NEW h \in Handlers, OnlyMoves(h),
         Presents(h)', ActsFor(h)',
         at'[h] = "store" => owner[sid'[h]] = NoUser,
         \A s \in Sids : owner[s] # NoUser =>
           /\ owner'[s] = owner[s]
           /\ s \in alive' => s \in alive
           /\ s \in cookies => s \in cookies'
           /\ s \in cookies' => s \in cookies \/ (at[h] = "store" /\ s = sid[h])
           /\ s \in (alive \cup orphans) \ cookies => s \in alive' \cup orphans'
  PROVE  (\A g \in Handlers : Presents(g)' /\ ActsFor(g)') /\ StoreAlone'
<1>1. ASSUME NEW g \in Handlers, at[g] # "idle"
      PROVE  sid[g] \in Sids /\ owner[sid[g]] # NoUser
  BY <1>1 DEF AccountsInv, RequestsType, Presents
<1>2. ASSUME NEW g \in Handlers PROVE Presents(g)' /\ ActsFor(g)'
  <2>1. CASE g = h
    BY <2>1
  <2>2. CASE g # h
    <3>1. at'[g] = at[g] /\ sid'[g] = sid[g] /\ id'[g] = id[g]
      BY <2>2 DEF OnlyMoves
    <3>2. CASE at[g] = "store"
      <4>1. sid[g] \notin cookies /\ sid[g] \in alive \cup orphans
        BY <3>2 DEF AccountsInv, Presents
      <4>2. ~(at[h] = "store" /\ sid[g] = sid[h])
        BY <2>2, <3>2 DEF AccountsInv, StoreAlone
      <4>3. sid[g] \notin cookies' /\ sid[g] \in alive' \cup orphans'
        BY <1>1, <3>2, <4>1, <4>2
      <4> QED BY <1>1, <3>1, <3>2, <4>3, HandlerStays
    <3>3. CASE at[g] # "store"
      BY <1>1, <3>1, <3>3, HandlerStays
    <3> QED BY <3>2, <3>3
  <2> QED BY <2>1, <2>2
<1>3. ASSUME NEW f \in Handlers, NEW g \in Handlers,
             at'[f] = "store", at'[g] = "store", sid'[f] = sid'[g]
      PROVE  f = g
  <2>1. \A e \in Handlers \ {h} : at'[e] = "store" => at[e] = "store" /\ owner[sid'[e]] # NoUser
    BY <1>1 DEF OnlyMoves
  <2>2. CASE f # h /\ g # h
    BY <1>3, <2>2 DEF OnlyMoves, AccountsInv, StoreAlone
  <2> QED BY <1>3, <2>1, <2>2
<1> QED BY <1>2, <1>3 DEF StoreAlone

(* A step of h that changes no session.                                    *)
LEMMA LocalStep ==
  ASSUME AccountsInv, Observe, NEW h \in Handlers, OnlyMoves(h), RequestsType',
         auditors' \in [Users -> Roles \cup {NoRole}],
         UNCHANGED <<owner, alive, sids, cookies, loggedOut, orphans>>,
         at[h] \notin {"store", "remove"}, at'[h] # "store",
         Presents(h)', ActsFor(h)'
  PROVE  AccountsInv'
<1>1. (\A g \in Handlers : Presents(g)' /\ ActsFor(g)') /\ StoreAlone'
  BY OthersStay
<1>2. TablesType' /\ HistoryType'
  BY ObserveKeeps DEF AccountsInv, TablesType
<1>3. ASSUME NEW s \in Sids PROVE Known(s)' /\ Agrees(s)'
  <2>1. \A step \in {"store", "remove"} : Between(step, s) => Between(step, s)'
    BY DEF Between, OnlyMoves
  <2>2. Known(s) /\ Agrees(s)
    BY DEF AccountsInv
  <2> QED BY <2>1, <2>2 DEF Known, Agrees
<1> QED BY <1>1, <1>2, <1>3 DEF AccountsInv

-----------------------------------------------------------------------------
(* The session of a request is one that was created.                       *)
LEMMA SidOf ==
  ASSUME AccountsInv, NEW h \in Handlers
  PROVE  /\ at[h] # "idle" => sid[h] \in Sids /\ owner[sid[h]] # NoUser
         /\ at[h] = "idle" => sid[h] = 0 /\ id[h] = NoUser
         /\ Presents(h) /\ ActsFor(h) /\ RequestsType /\ TablesType
         /\ 0 \notin Sids /\ Sids \subseteq Nat
BY DEF AccountsInv, RequestsType, Presents, ActsFor, Sids

(* A request is answered, which changes no session.                        *)
LEMMA DoneKeeps ==
  ASSUME AccountsInv, Observe, NEW h \in Handlers, Done(h),
         auditors' \in [Users -> Roles \cup {NoRole}],
         UNCHANGED <<owner, alive, sids, cookies, loggedOut, orphans>>,
         at[h] \notin {"store", "remove"}
  PROVE  AccountsInv'
<1>1. RequestsType
  BY DEF AccountsInv
<1>2. /\ RequestsType' /\ OnlyMoves(h)
      /\ at'[h] = "idle" /\ sid'[h] = 0 /\ id'[h] = NoUser
  BY <1>1, DoneMoves
<1>3. Presents(h)' /\ ActsFor(h)'
  BY <1>2 DEF Presents, ActsFor
<1> QED BY <1>2, <1>3, LocalStep

(* The middlewares, and what follows them in the routes.                   *)
LEMMA MiddlewaresKeep ==
  ASSUME AccountsInv, Observe, NEW h \in Handlers,
         \/ \E s \in cookies : \/ \E to \in Routes \ {"reduced", "none"} : ValidSID(h, s, to)
                               \/ RequireSID(h, s)
         \/ GetUserIDFromSID(h)
         \/ RequireAuditor(h)
         \/ TryAuditor(h)
         \/ Serve(h)
         \/ \E read \in SUBSET Users : AllAuditors(h, read)
  PROVE  AccountsInv'
<1>0. /\ at[h] # "idle" => sid[h] \in Sids /\ owner[sid[h]] # NoUser
      /\ at[h] = "idle" => sid[h] = 0 /\ id[h] = NoUser
      /\ Presents(h) /\ ActsFor(h) /\ RequestsType /\ TablesType
      /\ 0 \notin Sids /\ Sids \subseteq Nat
  BY SidOf
<1>a. \A s \in Sids : /\ sids[s] # NoUser => sids[s] = owner[s]
                      /\ s \in cookies => owner[s] # NoUser
  BY DEF AccountsInv, Agrees, Known
<1>1. ASSUME NEW s \in cookies, NEW to \in Routes \ {"reduced", "none"}, ValidSID(h, s, to)
      PROVE  AccountsInv'
  <2>1. /\ at[h] = "idle" /\ s \in Sids /\ owner[s] # NoUser
        /\ at' = [at EXCEPT ![h] = "lookup"] /\ sid' = [sid EXCEPT ![h] = s]
        /\ route' = [route EXCEPT ![h] = to]
        /\ UNCHANGED <<owner, alive, sids, auditors, cookies, id, known, loggedOut, orphans>>
    BY <1>0, <1>a, <1>1 DEF ValidSID, Go, inkbunny, tables, TablesType
  <2>2. RequestsType' /\ OnlyMoves(h) /\ at'[h] = "lookup" /\ sid'[h] = s /\ id'[h] = NoUser
    BY <1>0, <2>1 DEF RequestsType, OnlyMoves, Steps
  <2>3. Presents(h)' /\ ActsFor(h)'
    BY <1>0, <2>1, <2>2 DEF Presents, ActsFor
  <2> QED BY <1>0, <2>1, <2>2, <2>3, LocalStep DEF TablesType
<1>2. ASSUME NEW s \in cookies, RequireSID(h, s) PROVE AccountsInv'
  <2>1. /\ at[h] = "idle" /\ s \in Sids /\ owner[s] # NoUser
        /\ at' = [at EXCEPT ![h] = "try"] /\ sid' = [sid EXCEPT ![h] = s]
        /\ id' = [id EXCEPT ![h] = sids[s]] /\ route' = [route EXCEPT ![h] = "reduced"]
        /\ UNCHANGED <<owner, alive, sids, auditors, cookies, known, loggedOut, orphans>>
    BY <1>0, <1>a, <1>2 DEF RequireSID, Go, inkbunny, tables, TablesType
  <2>2. RequestsType' /\ OnlyMoves(h) /\ at'[h] = "try" /\ sid'[h] = s /\ id'[h] = sids[s]
    BY <1>0, <2>1 DEF RequestsType, TablesType, OnlyMoves, Steps, Routes
  <2>3. Presents(h)'
    BY <1>0, <2>1, <2>2 DEF Presents
  <2>4. sids[s] # NoUser => validity'[h]
    BY <1>0, <2>1, <2>2, ObserveKeeps
  <2>5. ActsFor(h)'
    BY <1>0, <1>a, <2>1, <2>2, <2>4 DEF ActsFor
  <2> QED BY <1>0, <2>1, <2>2, <2>3, <2>5, LocalStep DEF TablesType
<1>3. ASSUME GetUserIDFromSID(h) PROVE AccountsInv'
  <2>1. at[h] = "lookup" /\ UNCHANGED <<owner, alive, sids, auditors, cookies, loggedOut, orphans>>
    BY <1>3 DEF GetUserIDFromSID, inkbunny, tables
  <2>2. CASE sids[sid[h]] = NoUser
    <3>1. Done(h)
      BY <1>3, <2>2 DEF GetUserIDFromSID
    <3> QED BY <1>0, <2>1, <3>1, DoneKeeps DEF TablesType
  <2>3. CASE sids[sid[h]] # NoUser
    <3>1. PICK next \in {"end", "validate", "require"} : at' = [at EXCEPT ![h] = next]
      <4>1. CASE route[h] = "logout"
        BY <1>3, <2>3, <4>1 DEF GetUserIDFromSID, Go
      <4>2. CASE route[h] = "validate"
        BY <1>3, <2>3, <4>2 DEF GetUserIDFromSID, Go
      <4>3. CASE route[h] \notin {"logout", "validate"}
        BY <1>3, <2>3, <4>3 DEF GetUserIDFromSID, Go
      <4> QED BY <4>1, <4>2, <4>3
    <3>2. id' = [id EXCEPT ![h] = sids[sid[h]]] /\ UNCHANGED <<route, sid, known>>
      BY <1>3, <2>3 DEF GetUserIDFromSID
    <3>3. /\ RequestsType' /\ OnlyMoves(h)
          /\ at'[h] = next /\ sid'[h] = sid[h] /\ id'[h] = sids[sid[h]]
      BY <1>0, <2>1, <3>1, <3>2 DEF RequestsType, TablesType, OnlyMoves, Steps
    <3>4. Presents(h)'
      BY <1>0, <2>1, <3>3 DEF Presents
    <3>5. validity'[h]
      BY <1>0, <2>1, <2>3, <3>1, <3>3, ObserveKeeps
    <3>6. ActsFor(h)'
      BY <1>0, <1>a, <2>1, <2>3, <3>3, <3>5 DEF ActsFor
    <3> QED BY <1>0, <2>1, <3>3, <3>4, <3>6, LocalStep DEF TablesType
  <2> QED BY <2>2, <2>3
<1>4. ASSUME RequireAuditor(h) PROVE AccountsInv'
  <2>1. /\ at[h] = "require"
        /\ UNCHANGED <<owner, alive, sids, auditors, cookies, loggedOut, orphans>>
    BY <1>4 DEF RequireAuditor, inkbunny, tables
  <2>2. CASE auditors[id[h]] = "auditor"
    <3>1. Go(h, "staff") /\ UNCHANGED request /\ "staff" \in Steps
      BY <1>4, <2>2 DEF RequireAuditor, Steps
    <3>2. /\ RequestsType' /\ OnlyMoves(h)
          /\ at'[h] = "staff" /\ sid'[h] = sid[h] /\ id'[h] = id[h]
      BY <1>0, <3>1, GoMoves
    <3>3. Presents(h)'
      BY <1>0, <2>1, <3>2 DEF Presents
    <3>4. id[h] # NoUser /\ validity[h] /\ id[h] = owner[sid[h]]
      BY <1>0, <2>1 DEF ActsFor
    <3>5. validity'[h] /\ authority'[h]
      BY <1>0, <2>1, <2>2, <3>2, <3>4, ObserveKeeps
    <3>6. ActsFor(h)'
      BY <2>1, <3>2, <3>4, <3>5 DEF ActsFor
    <3> QED BY <1>0, <2>1, <3>2, <3>3, <3>6, LocalStep DEF TablesType
  <2>3. CASE auditors[id[h]] # "auditor"
    <3>1. Done(h)
      BY <1>4, <2>3 DEF RequireAuditor
    <3> QED BY <1>0, <2>1, <3>1, DoneKeeps DEF TablesType
  <2> QED BY <2>2, <2>3
<1>5. ASSUME TryAuditor(h) PROVE AccountsInv'
  <2>1. /\ at[h] = "try" /\ at' = [at EXCEPT ![h] = "reduced"]
        /\ UNCHANGED <<owner, alive, sids, auditors, cookies, route, sid, known, loggedOut, orphans>>
    BY <1>5 DEF TryAuditor, Go, inkbunny, tables
  <2>2. PICK u \in {id[h], NoUser} : id' = [id EXCEPT ![h] = u]
    BY <1>0, <1>5 DEF TryAuditor, RequestsType
  <2>3. RequestsType' /\ OnlyMoves(h) /\ at'[h] = "reduced" /\ sid'[h] = sid[h] /\ id'[h] = u
    BY <1>0, <2>1, <2>2 DEF RequestsType, OnlyMoves, Steps
  <2>4. Presents(h)'
    BY <1>0, <2>1, <2>3 DEF Presents
  <2>5. validity[h] => validity'[h]
    BY <1>0, <2>1, <2>3, ObserveKeeps
  <2>6. ActsFor(h)'
    BY <1>0, <2>1, <2>3, <2>5 DEF ActsFor
  <2> QED BY <1>0, <2>1, <2>3, <2>4, <2>6, LocalStep DEF TablesType
<1>6. ASSUME Serve(h) PROVE AccountsInv'
  <2>1. /\ at[h] \in {"validate", "reduced", "edit"} /\ Done(h)
        /\ UNCHANGED <<owner, alive, sids, auditors, cookies, loggedOut, orphans>>
    BY <1>6 DEF Serve, inkbunny, tables
  <2> QED BY <1>0, <2>1, DoneKeeps DEF TablesType
<1>7. ASSUME NEW read \in SUBSET Users, AllAuditors(h, read) PROVE AccountsInv'
  <2>1. /\ at[h] = "staff" /\ at' = [at EXCEPT ![h] = "edit"]
        /\ known' = [known EXCEPT ![h] = read]
        /\ UNCHANGED <<owner, alive, sids, auditors, cookies, route, sid, id, loggedOut, orphans>>
    BY <1>7 DEF AllAuditors, Go, inkbunny, tables
  <2>2. RequestsType' /\ OnlyMoves(h) /\ at'[h] = "edit" /\ sid'[h] = sid[h] /\ id'[h] = id[h]
    BY <1>0, <2>1 DEF RequestsType, OnlyMoves, Steps
  <2>3. Presents(h)'
    BY <1>0, <2>1, <2>2 DEF Presents
  <2>4. validity'[h] /\ authority'[h]
    BY <1>0, <2>1, <2>2, ObserveKeeps DEF ActsFor
  <2>5. ActsFor(h)'
    BY <1>0, <2>1, <2>2, <2>4 DEF ActsFor
  <2> QED BY <1>0, <2>1, <2>2, <2>3, <2>5, LocalStep DEF TablesType
<1> QED BY <1>1, <1>2, <1>3, <1>4, <1>5, <1>6, <1>7

-----------------------------------------------------------------------------
(* A login is given a session that no other request and no table has.      *)
LEMMA LoginKeeps ==
  ASSUME AccountsInv, Observe, NEW h \in Handlers, NEW u \in Users, NEW s \in Sids,
         Login(h, u, s)
  PROVE  AccountsInv'
<1>0. /\ \A g \in Handlers : at[g] # "idle" => sid[g] \in Sids /\ owner[sid[g]] # NoUser
      /\ at[h] = "idle" => sid[h] = 0 /\ id[h] = NoUser
      /\ Presents(h) /\ ActsFor(h) /\ RequestsType /\ TablesType
      /\ 0 \notin Sids /\ u # NoUser
  BY SidOf, AccountsAssumption
<1>1. /\ at[h] = "idle" /\ owner[s] = NoUser
      /\ owner' = [owner EXCEPT ![s] = u] /\ alive' = alive \cup {s}
      /\ at' = [at EXCEPT ![h] = "store"] /\ sid' = [sid EXCEPT ![h] = s]
      /\ UNCHANGED <<sids, auditors, cookies, route, id, known, loggedOut, orphans>>
  BY DEF Login, Go, tables
<1>2. s \notin cookies /\ s \notin alive /\ sids[s] = NoUser /\ s \notin loggedOut
  BY <1>1 DEF AccountsInv, Known
<1>3. RequestsType' /\ OnlyMoves(h) /\ at'[h] = "store" /\ sid'[h] = s /\ id'[h] = NoUser
  BY <1>0, <1>1 DEF RequestsType, OnlyMoves, Steps
<1>4. Presents(h)' /\ ActsFor(h)'
  <2>1. owner'[s] = u
    BY <1>0, <1>1 DEF TablesType
  <2> QED BY <1>0, <1>1, <1>2, <1>3, <2>1 DEF Presents, ActsFor
<1>5. (\A g \in Handlers : Presents(g)' /\ ActsFor(g)') /\ StoreAlone'
  <2>1. \A r \in Sids : owner[r] # NoUser =>
          /\ owner'[r] = owner[r]
          /\ r \in alive' => r \in alive
          /\ r \in cookies => r \in cookies'
          /\ r \in cookies' => r \in cookies \/ (at[h] = "store" /\ r = sid[h])
          /\ r \in (alive \cup orphans) \ cookies => r \in alive' \cup orphans'
    BY <1>0, <1>1 DEF TablesType
  <2> QED BY <1>1, <1>3, <1>4, <2>1, OthersStay
<1>6. TablesType' /\ HistoryType'
  BY <1>0, <1>1, ObserveKeeps DEF TablesType
<1>7. ASSUME NEW r \in Sids PROVE Known(r)' /\ Agrees(r)'
  <2>1. Known(r) /\ Agrees(r)
    BY DEF AccountsInv
  <2>2. CASE r = s
    <3>1. owner'[r] = u /\ sids'[r] = NoUser /\ r \notin loggedOut'
      BY <1>0, <1>1, <1>2, <2>2 DEF TablesType
    <3>2. Between("store", r)'
      BY <1>3, <2>2 DEF Between
    <3> QED BY <1>0, <1>1, <1>2, <2>2, <3>1, <3>2 DEF Known, Agrees
  <2>3. CASE r # s
    <3>1. owner'[r] = owner[r] /\ (r \in alive' <=> r \in alive)
      BY <1>0, <1>1, <2>3 DEF TablesType
    <3>2. \A step \in {"store", "remove"} : Between(step, r) => Between(step, r)'
      BY <1>1, <1>3 DEF Between, OnlyMoves
    <3> QED BY <1>1, <2>1, <3>1, <3>2 DEF Known, Agrees
  <2> QED BY <2>2, <2>3
<1> QED BY <1>3, <1>5, <1>6, <1>7 DEF AccountsInv

(* The end of a login: its session is in the table, or an orphan.          *)
LEMMA InsertSIDHashKeeps ==
  ASSUME AccountsInv, Observe, NEW h \in Handlers, NEW failed \in BOOLEAN,
         InsertSIDHash(h, failed)
  PROVE  AccountsInv'
<1>0. /\ at[h] = "store" /\ sid[h] \in Sids /\ owner[sid[h]] # NoUser
      /\ sid[h] \notin cookies /\ sid[h] \in alive \cup orphans
      /\ RequestsType /\ TablesType /\ Done(h)
      /\ UNCHANGED <<owner, alive, auditors, loggedOut>>
  BY SidOf DEF InsertSIDHash, inkbunny, Presents
<1>1. /\ sids' = IF failed THEN sids ELSE [sids EXCEPT ![sid[h]] = owner[sid[h]]]
      /\ cookies' = IF failed THEN cookies ELSE cookies \cup {sid[h]}
      /\ orphans' = IF failed THEN orphans \cup {sid[h]} ELSE orphans
  BY DEF InsertSIDHash
<1>2. /\ RequestsType' /\ OnlyMoves(h)
      /\ at'[h] = "idle" /\ sid'[h] = 0 /\ id'[h] = NoUser
  BY <1>0, DoneMoves
<1>3. Presents(h)' /\ ActsFor(h)'
  BY <1>2 DEF Presents, ActsFor
<1>4. (\A g \in Handlers : Presents(g)' /\ ActsFor(g)') /\ StoreAlone'
  <2>1. \A r \in Sids : owner[r] # NoUser =>
          /\ owner'[r] = owner[r]
          /\ r \in alive' => r \in alive
          /\ r \in cookies => r \in cookies'
          /\ r \in cookies' => r \in cookies \/ (at[h] = "store" /\ r = sid[h])
          /\ r \in (alive \cup orphans) \ cookies => r \in alive' \cup orphans'
    BY <1>0, <1>1
  <2> QED BY <1>2, <1>3, <2>1, OthersStay
<1>5. TablesType' /\ HistoryType'
  BY <1>0, <1>1, ObserveKeeps DEF TablesType
<1>6. ASSUME NEW r \in Sids PROVE Known(r)' /\ Agrees(r)'
  <2>1. Known(r) /\ Agrees(r)
    BY DEF AccountsInv
  <2>2. Between("remove", r) => Between("remove", r)'
    BY <1>0, <1>2 DEF Between, OnlyMoves
  <2>3. CASE r = sid[h]
    <3>1. r \notin loggedOut /\ sids[r] = NoUser
      BY <1>0, <2>1, <2>3 DEF Known
    <3>2. CASE failed
      BY <1>0, <1>1, <2>1, <2>3, <3>1, <3>2 DEF Known, Agrees
    <3>3. CASE ~failed
      <4>1. sids'[r] = owner[r] /\ r \in cookies'
        BY <1>0, <1>1, <2>3, <3>3 DEF TablesType
      <4> QED BY <1>0, <1>1, <2>3, <3>1, <3>3, <4>1 DEF Known, Agrees
    <3> QED BY <3>2, <3>3
  <2>4. CASE r # sid[h]
    <3>1. sids'[r] = sids[r] /\ (r \in cookies' <=> r \in cookies)
          /\ (r \in orphans' <=> r \in orphans)
      BY <1>0, <1>1, <2>4 DEF TablesType
    <3>2. Between("store", r) => Between("store", r)'
      BY <1>2, <2>4 DEF Between, OnlyMoves
    <3> QED BY <1>0, <2>1, <2>2, <3>1, <3>2 DEF Known, Agrees
  <2> QED BY <2>3, <2>4
<1> QED BY <1>2, <1>4, <1>5, <1>6 DEF AccountsInv

(* Inkbunny ends the session of a logout.                                  *)
LEMMA EndSessionKeeps ==
  ASSUME AccountsInv, Observe, NEW h \in Handlers, NEW answer \in {"ok", "lost", "refused"},
         EndSession(h, answer)
  PROVE  AccountsInv'
<1>0. /\ at[h] = "end" /\ sid[h] \in Sids /\ owner[sid[h]] # NoUser /\ sid[h] \in cookies
      /\ Presents(h) /\ ActsFor(h) /\ RequestsType /\ TablesType
      /\ UNCHANGED <<owner, sids, auditors, cookies, loggedOut>>
  BY SidOf DEF EndSession, tables, Presents
<1>1. /\ alive' = IF answer = "refused" THEN alive ELSE alive \ {sid[h]}
      /\ orphans' = IF answer = "lost" THEN orphans \cup {sid[h]} ELSE orphans
  BY DEF EndSession
<1>2. /\ RequestsType' /\ OnlyMoves(h) /\ at'[h] # "store"
      /\ answer = "ok" => at'[h] = "remove" /\ sid'[h] = sid[h]
      /\ Presents(h)' /\ ActsFor(h)'
  <2>1. CASE answer = "ok"
    <3>1. Go(h, "remove") /\ UNCHANGED request /\ "remove" \in Steps
      BY <2>1 DEF EndSession, Steps
    <3>2. /\ RequestsType' /\ OnlyMoves(h)
          /\ at'[h] = "remove" /\ sid'[h] = sid[h] /\ id'[h] = id[h]
      BY <1>0, <3>1, GoMoves
    <3>3. Presents(h)'
      BY <1>0, <1>1, <2>1, <3>2 DEF Presents
    <3>4. validity[h] => validity'[h]
      BY <1>0, <3>2, <3>3, ObserveKeeps DEF Presents
    <3>5. ActsFor(h)'
      BY <1>0, <3>2, <3>4 DEF ActsFor
    <3> QED BY <3>2, <3>3, <3>5
  <2>2. CASE answer # "ok"
    <3>1. Done(h)
      BY <2>2 DEF EndSession
    <3>2. /\ RequestsType' /\ OnlyMoves(h)
          /\ at'[h] = "idle" /\ sid'[h] = 0 /\ id'[h] = NoUser
      BY <1>0, <3>1, DoneMoves
    <3> QED BY <2>2, <3>2 DEF Presents, ActsFor
  <2> QED BY <2>1, <2>2
<1>3. (\A g \in Handlers : Presents(g)' /\ ActsFor(g)') /\ StoreAlone'
  <2>1. \A r \in Sids : owner[r] # NoUser =>
          /\ owner'[r] = owner[r]
          /\ r \in alive' => r \in alive
          /\ r \in cookies => r \in cookies'
          /\ r \in cookies' => r \in cookies \/ (at[h] = "store" /\ r = sid[h])
          /\ r \in (alive \cup orphans) \ cookies => r \in alive' \cup orphans'
    BY <1>0, <1>1
  <2> QED BY <1>2, <2>1, OthersStay
<1>4. TablesType' /\ HistoryType'
  BY <1>0, <1>1, ObserveKeeps DEF TablesType
<1>5. ASSUME NEW r \in Sids PROVE Known(r)' /\ Agrees(r)'
  <2>1. Known(r) /\ Agrees(r)
    BY DEF AccountsInv
  <2>2. \A step \in {"store", "remove"} : Between(step, r) => Between(step, r)'
    BY <1>0, <1>2 DEF Between, OnlyMoves
  <2>3. r \in alive' => r \in alive
    BY <1>1
  <2>4. r \in alive \cup orphans => r \in alive' \cup orphans' \/ Between("remove", r)'
    BY <1>1, <1>2 DEF Between
  <2>5. r \in orphans => r \in orphans'
    BY <1>1
  <2> QED BY <1>0, <2>1, <2>2, <2>3, <2>4, <2>5 DEF Known, Agrees
<1> QED BY <1>2, <1>3, <1>4, <1>5 DEF AccountsInv

(* The end of a logout: the session is gone from the table, or an orphan.  *)
LEMMA RemoveSIDHashKeeps ==
  ASSUME AccountsInv, Observe, NEW h \in Handlers, NEW failed \in BOOLEAN,
         RemoveSIDHash(h, failed)
  PROVE  AccountsInv'
<1>0. /\ at[h] = "remove" /\ sid[h] \in Sids /\ owner[sid[h]] # NoUser
      /\ sid[h] \in cookies /\ sid[h] \notin alive
      /\ RequestsType /\ TablesType /\ Done(h)
      /\ UNCHANGED <<owner, alive, auditors, cookies>>
  BY SidOf DEF RemoveSIDHash, inkbunny, Presents
<1>1. /\ failed \/ sids[sid[h]] = NoUser => sids' = sids /\ loggedOut' = loggedOut
      /\ ~failed /\ sids[sid[h]] # NoUser =>
           sids' = [sids EXCEPT ![sid[h]] = NoUser] /\ loggedOut' = loggedOut \cup {sid[h]}
      /\ orphans' = IF failed THEN orphans \cup {sid[h]} ELSE orphans
  BY DEF RemoveSIDHash
<1>2. /\ RequestsType' /\ OnlyMoves(h)
      /\ at'[h] = "idle" /\ sid'[h] = 0 /\ id'[h] = NoUser
  BY <1>0, DoneMoves
<1>3. Presents(h)' /\ ActsFor(h)'
  BY <1>2 DEF Presents, ActsFor
<1>4. (\A g \in Handlers : Presents(g)' /\ ActsFor(g)') /\ StoreAlone'
  <2>1. \A r \in Sids : owner[r] # NoUser =>
          /\ owner'[r] = owner[r]
          /\ r \in alive' => r \in alive
          /\ r \in cookies => r \in cookies'
          /\ r \in cookies' => r \in cookies \/ (at[h] = "store" /\ r = sid[h])
          /\ r \in (alive \cup orphans) \ cookies => r \in alive' \cup orphans'
    BY <1>0, <1>1
  <2> QED BY <1>2, <1>3, <2>1, OthersStay
<1>5. TablesType' /\ HistoryType'
  BY <1>0, <1>1, ObserveKeeps DEF TablesType
<1>6. ASSUME NEW r \in Sids PROVE Known(r)' /\ Agrees(r)'
  <2>1. Known(r) /\ Agrees(r)
    BY DEF AccountsInv
  <2>2. Between("store", r) => Between("store", r)'
    BY <1>0, <1>2 DEF Between, OnlyMoves
  <2>3. CASE r = sid[h]
    <3>1. CASE ~failed /\ sids[r] # NoUser
      <4>1. sids'[r] = NoUser /\ r \notin alive'
        BY <1>0, <1>1, <2>3, <3>1 DEF TablesType
      <4> QED BY <1>0, <2>1, <2>3, <4>1 DEF Known, Agrees
    <3>2. CASE failed
      <4>1. sids' = sids /\ loggedOut' = loggedOut /\ r \in orphans'
        BY <1>1, <2>3, <3>2
      <4> QED BY <1>0, <2>1, <2>3, <4>1 DEF Known, Agrees
    <3>3. CASE sids[r] = NoUser
      <4>1. sids' = sids /\ loggedOut' = loggedOut
        BY <1>1, <2>3, <3>3
      <4> QED BY <1>0, <2>1, <2>3, <3>3, <4>1 DEF Known, Agrees
    <3> QED BY <3>1, <3>2, <3>3
  <2>4. CASE r # sid[h]
    <3>1. sids'[r] = sids[r] /\ (r \in loggedOut' <=> r \in loggedOut)
          /\ (r \in orphans' <=> r \in orphans)
      BY <1>0, <1>1, <2>4 DEF TablesType
    <3>2. Between("remove", r) => Between("remove", r)'
      BY <1>2, <2>4 DEF Between, OnlyMoves
    <3> QED BY <1>0, <2>1, <2>2, <3>1, <3>2 DEF Known, Agrees
  <2> QED BY <2>3, <2>4
<1> QED BY <1>2, <1>4, <1>5, <1>6 DEF AccountsInv

-----------------------------------------------------------------------------
(* A write to the table auditors moves no request.                         *)
LEMMA WriteAuditorKeeps ==
  ASSUME AccountsInv, Observe, NEW h \in Handlers, NEW u \in Users,
         NEW role \in Roles \cup {NoRole}, NEW to, WriteAuditor(h, to, u, role)
  PROVE  AccountsInv'
<1>0. Presents(h) /\ ActsFor(h) /\ RequestsType /\ TablesType
  BY SidOf
<1>1. /\ at[h] = "edit" /\ auditors' = [auditors EXCEPT ![u] = role]
      /\ UNCHANGED <<owner, alive, sids, cookies, at, route, sid, id, known, loggedOut, orphans>>
  BY DEF WriteAuditor, inkbunny, request
<1>2. auditors' \in [Users -> Roles \cup {NoRole}] /\ RequestsType' /\ OnlyMoves(h)
  BY <1>0, <1>1 DEF TablesType, RequestsType, OnlyMoves
<1>3. Presents(h)' /\ ActsFor(h)'
  BY <1>0, <1>1, HandlerStays DEF Presents
<1> QED BY <1>1, <1>2, <1>3, LocalStep

(* Inkbunny ends a session by itself.                                      *)
LEMMA ExpireKeeps ==
  ASSUME AccountsInv, Observe, NEW s \in Sids, Expire(s)
  PROVE  AccountsInv'
<1>0. RequestsType /\ TablesType
  BY DEF AccountsInv
<1>1. /\ alive' = alive \ {s} /\ orphans' = orphans \cup {s}
      /\ UNCHANGED <<owner, sids, auditors, cookies, at, route, sid, id, known, loggedOut>>
  BY DEF Expire, tables, request
<1>2. ASSUME NEW g \in Handlers PROVE Presents(g)' /\ ActsFor(g)'
  <2>1. at[g] = "store" => sid[g] \notin cookies' /\ sid[g] \in alive' \cup orphans'
    BY <1>1 DEF AccountsInv, Presents
  <2> QED BY <1>1, <2>1, HandlerStays
<1>3. TablesType' /\ RequestsType' /\ HistoryType' /\ StoreAlone'
  BY <1>0, <1>1, ObserveKeeps DEF TablesType, RequestsType, AccountsInv, StoreAlone
<1>4. ASSUME NEW r \in Sids PROVE Known(r)' /\ Agrees(r)'
  <2>1. Known(r) /\ Agrees(r)
    BY DEF AccountsInv
  <2>2. \A step \in {"store", "remove"} : Between(step, r) => Between(step, r)'
    BY <1>1 DEF Between
  <2> QED BY <1>1, <2>1, <2>2 DEF Known, Agrees
<1> QED BY <1>2, <1>3, <1>4 DEF AccountsInv

(* The server stops: the sessions of what it was between are orphans.      *)
LEMMA RestartKeeps ==
  ASSUME AccountsInv, Observe, Restart
  PROVE  AccountsInv'
<1>0. RequestsType /\ TablesType
  BY DEF AccountsInv
<1>1. /\ at' = [h \in Handlers |-> "idle"] /\ route' = [h \in Handlers |-> "none"]
      /\ sid' = [h \in Handlers |-> 0] /\ id' = [h \in Handlers |-> NoUser]
      /\ known' = [h \in Handlers |-> {}]
      /\ UNCHANGED <<owner, alive, sids, auditors, cookies, loggedOut>>
  BY DEF Restart, inkbunny, tables
<1>2. orphans' = orphans \cup {sid[h] : h \in {g \in Handlers : at[g] \in {"store", "remove"}}}
  BY DEF Restart
<1>3. RequestsType'
  BY <1>1 DEF RequestsType, Steps, Routes
<1>4. \A g \in Handlers : Presents(g)' /\ ActsFor(g)'
  BY <1>1 DEF Presents, ActsFor
<1>5. StoreAlone'
  BY <1>1 DEF StoreAlone
<1>6. TablesType' /\ HistoryType'
  <2>1. orphans' \subseteq Sids
    BY <1>0, <1>2, SidOf DEF TablesType
  <2> QED BY <1>0, <1>1, <2>1, ObserveKeeps DEF TablesType
<1>7. ASSUME NEW r \in Sids PROVE Known(r)' /\ Agrees(r)'
  <2>1. Known(r) /\ Agrees(r)
    BY DEF AccountsInv
  <2>2. Between("store", r) \/ Between("remove", r) \/ r \in orphans => r \in orphans'
    BY <1>2 DEF Between
  <2> QED BY <1>1, <2>1, <2>2 DEF Known, Agrees
<1> QED BY <1>3, <1>4, <1>5, <1>6, <1>7 DEF AccountsInv

(* A role is given at the start of the other program, whoever is served.   *)
LEMMA InsertConfiguredKeeps ==
  ASSUME AccountsInv, Observe, NEW u \in Configured, InsertConfigured(u)
  PROVE  AccountsInv'
<1>0. RequestsType /\ TablesType /\ u \in Users
  BY AccountsAssumption DEF AccountsInv
<1>1. /\ auditors' = [auditors EXCEPT ![u] = "auditor"]
      /\ UNCHANGED <<owner, alive, sids, cookies, at, route, sid, id, known, loggedOut, orphans>>
  BY DEF InsertConfigured, inkbunny, request
<1>2. ASSUME NEW g \in Handlers PROVE Presents(g)' /\ ActsFor(g)'
  <2>1. at[g] = "store" => sid[g] \notin cookies' /\ sid[g] \in alive' \cup orphans'
    BY <1>1 DEF AccountsInv, Presents
  <2> QED BY <1>1, <2>1, HandlerStays
<1>3. auditors' \in [Users -> Roles \cup {NoRole}]
  BY <1>0, <1>1 DEF TablesType, Roles
<1>4. TablesType' /\ RequestsType' /\ HistoryType' /\ StoreAlone'
  BY <1>0, <1>1, <1>3, ObserveKeeps DEF TablesType, RequestsType, AccountsInv, StoreAlone
<1>5. ASSUME NEW r \in Sids PROVE Known(r)' /\ Agrees(r)'
  <2>1. Known(r) /\ Agrees(r)
    BY DEF AccountsInv
  <2>2. \A step \in {"store", "remove"} : Between(step, r) => Between(step, r)'
    BY <1>1 DEF Between
  <2> QED BY <1>1, <2>1, <2>2 DEF Known, Agrees
<1> QED BY <1>2, <1>4, <1>5 DEF AccountsInv

(* Every step keeps the invariant.                                         *)
LEMMA AccountsNextInv == AccountsInv /\ [AccountsNext]_accountVars => AccountsInv'
<1> SUFFICES ASSUME AccountsInv, [AccountsNext]_accountVars PROVE AccountsInv'
  OBVIOUS
<1>1. CASE UNCHANGED accountVars
  BY <1>1 DEF accountVars, inkbunny, tables, request, AccountsInv, TablesType,
              RequestsType, HistoryType, Presents, ActsFor, StoreAlone, Known, Agrees, Between
<1>2. CASE AccountsStep /\ Observe
  <2>1. ASSUME NEW h \in Handlers, NEW u \in Users,
               \/ \E role \in Roles :
                    \/ \E renamed \in BOOLEAN : InsertAuditor(h, u, role, renamed)
                    \/ EditAuditorRole(h, u, role)
               \/ DeleteAuditor(h, u)
        PROVE  AccountsInv'
    <3>1. PICK role \in Roles \cup {NoRole}, to \in {"PUT", "PATCH", "DELETE"} :
            WriteAuditor(h, to, u, role)
      BY <2>1 DEF InsertAuditor, EditAuditorRole, DeleteAuditor
    <3> QED BY <1>2, <3>1, WriteAuditorKeeps
  <2>2. ASSUME NEW h \in Handlers, NEW u \in Users, NEW s \in Sids, Login(h, u, s)
        PROVE  AccountsInv'
    BY <1>2, <2>2, LoginKeeps
  <2>3. ASSUME NEW h \in Handlers, NEW failed \in BOOLEAN,
               InsertSIDHash(h, failed) \/ RemoveSIDHash(h, failed)
        PROVE  AccountsInv'
    BY <1>2, <2>3, InsertSIDHashKeeps, RemoveSIDHashKeeps
  <2>4. ASSUME NEW h \in Handlers, NEW answer \in {"ok", "lost", "refused"},
               EndSession(h, answer)
        PROVE  AccountsInv'
    BY <1>2, <2>4, EndSessionKeeps
  <2>5. ASSUME NEW s \in Sids, Expire(s) PROVE AccountsInv'
    BY <1>2, <2>5, ExpireKeeps
  <2>6. CASE Restart
    BY <1>2, <2>6, RestartKeeps
  <2>8. ASSUME NEW u \in Configured, InsertConfigured(u) PROVE AccountsInv'
    BY <1>2, <2>8, InsertConfiguredKeeps
  <2>7. ASSUME NEW h \in Handlers,
               \/ \E s \in cookies : \/ \E to \in Routes \ {"reduced", "none"} : ValidSID(h, s, to)
                                     \/ RequireSID(h, s)
               \/ GetUserIDFromSID(h)
               \/ RequireAuditor(h)
               \/ TryAuditor(h)
               \/ Serve(h)
               \/ \E read \in SUBSET Users : AllAuditors(h, read)
        PROVE  AccountsInv'
    BY <1>2, <2>7, MiddlewaresKeep
  <2> QED BY <1>2, <2>1, <2>2, <2>3, <2>4, <2>5, <2>6, <2>7, <2>8 DEF AccountsStep
<1> QED BY <1>1, <1>2 DEF AccountsNext

(* There are no sessions and no requests.                                  *)
LEMMA AccountsInitInv == AccountsInit => AccountsInv
<1> SUFFICES ASSUME AccountsInit PROVE AccountsInv
  OBVIOUS
<1>1. TablesType /\ RequestsType /\ HistoryType
  BY DEF AccountsInit, TablesType, RequestsType, HistoryType, Steps, Routes, Roles
<1>2. \A h \in Handlers : Presents(h) /\ ActsFor(h)
  BY DEF AccountsInit, Presents, ActsFor
<1>3. StoreAlone /\ \A s \in Sids : Known(s) /\ Agrees(s)
  BY DEF AccountsInit, StoreAlone, Known, Agrees
<1> QED BY <1>1, <1>2, <1>3 DEF AccountsInv

-----------------------------------------------------------------------------
(* The typing of the tables, the requests and the history.                 *)
THEOREM AccountsTyping == AccountsSpec => []AccountsTypeOK
<1>1. AccountsInv => AccountsTypeOK
  BY DEF AccountsInv, TablesType, RequestsType, HistoryType, Presents, ActsFor, AccountsTypeOK
<1> QED BY AccountsInitInv, AccountsNextInv, <1>1, PTL DEF AccountsSpec

(***************************************************************************)
(* Inkbunny and the table sids agree on every session, but for those a     *)
(* login or a logout left half way and those that expired at Inkbunny.     *)
(***************************************************************************)
THEOREM SessionsAlwaysAgree == AccountsSpec => []SessionsAgree
<1>1. AccountsInv => SessionsAgree
  BY DEF AccountsInv, Agrees, Between, SessionsAgree
<1> QED BY AccountsInitInv, AccountsNextInv, <1>1, PTL DEF AccountsSpec

(***************************************************************************)
(* Who is served as staff had a session in the table and an auditor's role *)
(* during the request, and a request acts for the user of its session.     *)
(***************************************************************************)
THEOREM OnlyStaffIsServed == AccountsSpec => []StaffOnly
<1>1. AccountsInv => StaffOnly
  BY DEF AccountsInv, ActsFor, StaffOnly
<1> QED BY AccountsInitInv, AccountsNextInv, <1>1, PTL DEF AccountsSpec

=============================================================================
