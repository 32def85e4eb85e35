--------------------------- MODULE DatabaseProofs ---------------------------
(***************************************************************************)
(* The parts of the database, each and together: a name of a model is only *)
(* lost by requests that cross at its hash, or fail to read it, and an     *)
(* artist only written over for the same two reasons; tickets keep their   *)
(* ids, whatever clients send back; and the start of the program leaves    *)
(* the file migrated, wherever it is killed.                               *)
(***************************************************************************)
EXTENDS MCDatabase, AccountsProofs

-----------------------------------------------------------------------------
AllNames == Names \cup {Blank}

(* What a PATCH /models has left to write holds what it read.              *)
InsertCovers ==
  \A p \in Callers, h \in Hashes :
    phase[p] = "insert" /\ todo[p][h] # NoRow => Stored(seen[p][h]) \subseteq todo[p][h]

(* An artist that newArtist thinks is new, and is not, has moved, or was   *)
(* left out of what newArtist read.                                        *)
NewOrMoved ==
  \A p \in Callers, u \in Usernames :
    phase[p] = "artists" /\ u \notin knownArtists[p] /\ artists[u] # NoRow => u \in moved \cup unlisted

CatalogInv == CatalogTypeOK /\ InsertCovers /\ NamesKept /\ NewOrMoved /\ ArtistsKept

(* A table without rows, and no requests.                                  *)
LEMMA CatalogInitInv == CatalogInit => CatalogInv
<1> SUFFICES ASSUME CatalogInit PROVE CatalogInv
  OBVIOUS
<1>1. CatalogTypeOK
  BY DEF CatalogInit, CatalogTypeOK, Nothing, Rows
<1>2. InsertCovers /\ NamesKept /\ NewOrMoved /\ ArtistsKept
  BY DEF CatalogInit, InsertCovers, NamesKept, NewOrMoved, ArtistsKept
<1> QED BY <1>1, <1>2 DEF CatalogInv

-----------------------------------------------------------------------------
(* CatalogTypeOK, by what a step may leave alone.                          *)
CatalogTables ==
  /\ models \in Rows
  /\ artists \in [Usernames -> UserIDs \cup {NoRow}]
  /\ written \subseteq Hashes \X AllNames
  /\ contended \subseteq Hashes
  /\ unread \subseteq Hashes
  /\ moved \subseteq Usernames
  /\ unlisted \subseteq Usernames
  /\ taken \subseteq Usernames

(* What a request has read of each hash.                                   *)
Reads == [Hashes -> {NoRow, Unread} \cup SUBSET AllNames]

JobsType ==
  /\ phase \in [Callers -> {"idle", "upsert", "write", "insert", "artists"}]
  /\ todo \in [Callers -> Rows]
  /\ seen \in [Callers -> Reads]
  /\ target \in [Callers -> Hashes \cup {NoRow}]
  /\ after \in [Callers -> Hashes \cup {NoRow}]
  /\ knownArtists \in [Callers -> SUBSET Usernames]

(* What the invariant says of one request.                                 *)
JobOK(p) ==
  /\ phase[p] = "write" => target[p] \in Hashes /\ todo[p][target[p]] # NoRow
  /\ phase[p] = "insert" => \A h \in Hashes :
       todo[p][h] # NoRow => Stored(seen[p][h]) \subseteq todo[p][h]
  /\ phase[p] = "artists" => \A u \in Usernames :
       u \notin knownArtists[p] /\ artists[u] # NoRow => u \in moved \cup unlisted

(* The invariant, request by request; of this state, and of the next.      *)
LEMMA InvParts ==
  CatalogInv <=>
    CatalogTables /\ JobsType /\ (\A p \in Callers : JobOK(p)) /\ NamesKept /\ ArtistsKept
BY DEF CatalogInv, CatalogTypeOK, AllNames, Reads, CatalogTables, JobsType, JobOK, InsertCovers,
       NewOrMoved, Pending

(* The same, of the state a step leads to.                                 *)
LEMMA InvPartsNext ==
  ASSUME CatalogTables', JobsType', \A p \in Callers : JobOK(p)', NamesKept', ArtistsKept'
  PROVE  CatalogInv'
<1>1. CatalogTypeOK'
  BY DEF CatalogTypeOK, AllNames, Reads, CatalogTables, JobsType, JobOK, Pending, Rows
<1>2. InsertCovers' /\ NewOrMoved'
  BY DEF InsertCovers, NewOrMoved, JobOK, Stored
<1> QED BY <1>1, <1>2 DEF CatalogInv

(* No request but that of p moves.                                         *)
OnlyJobMoves(p) ==
  \A q \in Callers \ {p} :
    /\ phase'[q] = phase[q] /\ todo'[q] = todo[q] /\ seen'[q] = seen[q]
    /\ target'[q] = target[q] /\ knownArtists'[q] = knownArtists[q]

(* The end of the request of p.                                            *)
LEMMA JobDone ==
  ASSUME JobsType, NEW p \in Callers, CatalogDone(p)
  PROVE  JobsType' /\ OnlyJobMoves(p) /\ JobOK(p)'
<1>1. Nothing \in Rows /\ Nothing \in Reads
  BY DEF Nothing, Rows, Reads
<1>2. phase'[p] = "idle"
  BY DEF JobsType, CatalogDone
<1> QED BY <1>1, <1>2 DEF JobsType, CatalogDone, OnlyJobMoves, JobOK

(* The begin of an upsert of p.                                            *)
LEMMA BeginMoves ==
  ASSUME JobsType, NEW p \in Callers, NEW names \in Rows, NEW then \in Hashes \cup {NoRow},
         Begin(p, names, then)
  PROVE  JobsType' /\ OnlyJobMoves(p) /\ JobOK(p)'
<1>1. phase'[p] = "upsert"
  BY DEF JobsType, Begin
<1> QED BY <1>1 DEF JobsType, Begin, OnlyJobMoves, JobOK

(* A step of p that leaves the artists alone.                              *)
LEMMA OtherJobsStay ==
  ASSUME CatalogInv, NEW p \in Callers, OnlyJobMoves(p), JobOK(p)', JobsType',
         CatalogTables', NamesKept', UNCHANGED <<artists, artistsHistory>>
  PROVE  CatalogInv'
<1>1. ASSUME NEW q \in Callers, q # p PROVE JobOK(q)'
  BY <1>1, InvParts DEF OnlyJobMoves, JobOK, artistsHistory
<1>2. ArtistsKept'
  BY DEF CatalogInv, ArtistsKept, artistsHistory
<1> QED BY <1>1, <1>2, InvPartsNext

(* A step of p that leaves both tables alone.                              *)
LEMMA LocalJobStep ==
  ASSUME CatalogInv, NEW p \in Callers, OnlyJobMoves(p), JobOK(p)', JobsType',
         UNCHANGED <<models, artists, namesHistory, artistsHistory>>
  PROVE  CatalogInv'
<1>1. CatalogTables' /\ NamesKept'
  BY InvParts DEF CatalogTables, NamesKept, namesHistory, artistsHistory
<1> QED BY <1>1, OtherJobsStay

(***************************************************************************)
(* An upsert that adds to what was read loses no name, or it finds the row *)
(* changed and leaves its hash contended, or has not read it, and leaves   *)
(* its hash unread.                                                        *)
(***************************************************************************)
LEMMA PutKeeps ==
  ASSUME CatalogInv, NEW p \in Callers, NEW h \in Hashes, NEW names \in SUBSET AllNames,
         Stored(seen[p][h]) \subseteq names, PutNames(p, h, names),
         UNCHANGED <<artists, artistsHistory>>
  PROVE  CatalogTables' /\ NamesKept'
<1>1. /\ models \in Rows /\ contended \subseteq Hashes /\ unread \subseteq Hashes
      /\ written \subseteq Hashes \X AllNames
      /\ names # NoRow
  BY CatalogAssumption, InvParts DEF CatalogTables, AllNames
<1>2. /\ models' = [models EXCEPT ![h] = names]
      /\ written' = written \cup {<<h, n>> : n \in names}
      /\ contended' = IF seen[p][h] \in {models[h], Unread} THEN contended ELSE contended \cup {h}
      /\ unread' = IF seen[p][h] = Unread THEN unread \cup {h} ELSE unread
      /\ UNCHANGED <<artists, moved, unlisted, taken>>
  BY DEF PutNames, artistsHistory
<1>3. CatalogTables'
  <2>1. models' \in Rows
    BY <1>1, <1>2 DEF Rows, AllNames
  <2>2. written' \subseteq Hashes \X AllNames
    BY <1>1, <1>2
  <2>3. contended' \subseteq Hashes /\ unread' \subseteq Hashes
    BY <1>1, <1>2
  <2> QED BY <1>2, <2>1, <2>2, <2>3, InvParts DEF CatalogTables, Rows, AllNames
<1>4. ASSUME NEW g \in Hashes, NEW n \in AllNames, <<g, n>> \in written'
      PROVE  g \in contended' \cup unread' \/ (models'[g] # NoRow /\ n \in models'[g])
  <2>1. <<g, n>> \in written =>
          g \in contended \cup unread \/ (models[g] # NoRow /\ n \in models[g])
    BY DEF CatalogInv, NamesKept
  <2>2. CASE g # h
    <3>1. models'[g] = models[g] /\ <<g, n>> \in written
      BY <1>1, <1>2, <1>4, <2>2 DEF Rows
    <3> QED BY <1>2, <2>1, <3>1
  <2>3. CASE g = h
    <3>1. models'[g] = names
      BY <1>1, <1>2, <2>3 DEF Rows
    <3>2. CASE n \in names
      BY <1>1, <3>1, <3>2
    <3>3. CASE n \notin names
      <4>1. <<g, n>> \in written
        BY <1>2, <1>4, <3>3
      <4>2. CASE g \in contended \cup unread
        BY <1>2, <4>2
      <4>3. CASE models[g] # NoRow /\ n \in models[g]
        <5>1. CASE seen[p][h] = Unread
          BY <1>2, <2>3, <5>1
        <5>2. CASE seen[p][h] # Unread
          <6>1. models[h] # seen[p][h]
            BY <2>3, <3>3, <4>3, <5>2 DEF Stored
          <6> QED BY <1>2, <2>3, <5>2, <6>1
        <5> QED BY <5>1, <5>2
      <4> QED BY <2>1, <4>1, <4>2, <4>3
    <3> QED BY <3>2, <3>3
  <2> QED BY <2>2, <2>3
<1>5. NamesKept'
  <2> SUFFICES ASSUME NEW w \in written'
               PROVE  \/ w[1] \in contended' \cup unread'
                      \/ models'[w[1]] # NoRow /\ w[2] \in models'[w[1]]
    BY DEF NamesKept
  <2>1. w[1] \in Hashes /\ w[2] \in AllNames /\ w = <<w[1], w[2]>>
    BY <1>3 DEF CatalogTables
  <2> QED BY <1>4, <2>1
<1> QED BY <1>3, <1>5

-----------------------------------------------------------------------------
(* The handlers of models, up to their writes.                             *)
LEMMA ModelReadsKeep ==
  ASSUME CatalogInv, NEW p \in Callers,
         NEW failed \in BOOLEAN,
         \/ \E h \in Hashes, civitai \in SUBSET Names \ {{}} : GetModels(p, h, civitai, failed)
         \/ \E h \in Hashes, found \in Found : Recache(p, h, found)
         \/ \E h \in Hashes : ModelNamesFromHash(p, h, failed)
         \/ \E civitai \in SUBSET Names \ {{}} : Upserted(p, civitai)
         \/ \E body \in Bodies, read \in SUBSET Hashes : AllModels(p, body, read)
  PROVE  CatalogInv'
<1>0. JobsType /\ CatalogTables
  BY InvParts
<1>n. Nothing \in Rows
  BY DEF Nothing, Rows
<1>1. ASSUME NEW h \in Hashes, NEW names \in SUBSET Names
      PROVE  [Nothing EXCEPT ![h] = names] \in Rows
  BY <1>n DEF Rows
<1>2. ASSUME NEW h \in Hashes, NEW civitai \in SUBSET Names \ {{}},
             GetModels(p, h, civitai, failed)
      PROVE  CatalogInv'
  <2>1. PICK names \in Rows : Begin(p, names, NoRow)
    BY <1>1, <1>2 DEF GetModels
  <2> QED BY <1>0, <1>2, <2>1, BeginMoves, LocalJobStep DEF GetModels
<1>3. ASSUME NEW h \in Hashes, NEW found \in Found, Recache(p, h, found) PROVE CatalogInv'
  <2>1. found \in Rows
    BY DEF Found, Rows
  <2>2. PICK then \in Hashes \cup {NoRow} : Begin(p, found, then)
    BY <1>3 DEF Recache
  <2> QED BY <1>0, <1>3, <2>1, <2>2, BeginMoves, LocalJobStep DEF Recache
<1>4. ASSUME NEW h \in Hashes, ModelNamesFromHash(p, h, failed) PROVE CatalogInv'
  <2> DEFINE row == IF failed /\ models[h] # NoRow THEN Unread ELSE models[h]
  <2>1. /\ phase[p] = "upsert" /\ todo[p][h] # NoRow
        /\ UNCHANGED <<models, artists, after, knownArtists, namesHistory, artistsHistory>>
    BY <1>4 DEF ModelNamesFromHash, Pending
  <2>4. row \in {NoRow, Unread} \cup SUBSET AllNames
    BY <1>0 DEF CatalogTables, Rows, AllNames
  <2>2. CASE todo[p][h] \ {Blank} \subseteq Stored(row)
    <3>1. todo' = [todo EXCEPT ![p][h] = NoRow] /\ UNCHANGED <<phase, seen, target>>
      BY <1>4, <2>2 DEF ModelNamesFromHash
    <3>2. JobsType' /\ OnlyJobMoves(p)
      BY <1>0, <2>1, <3>1 DEF JobsType, OnlyJobMoves, Rows
    <3>3. JobOK(p)'
      BY <2>1, <3>1 DEF JobOK
    <3> QED BY <2>1, <3>2, <3>3, LocalJobStep
  <2>3. CASE ~(todo[p][h] \ {Blank} \subseteq Stored(row))
    <3>1. /\ phase' = [phase EXCEPT ![p] = "write"]
          /\ seen' = [seen EXCEPT ![p][h] = row]
          /\ target' = [target EXCEPT ![p] = h] /\ UNCHANGED todo
      BY <1>4, <2>3 DEF ModelNamesFromHash
    <3> HIDE DEF row
    <3>2. JobsType' /\ OnlyJobMoves(p) /\ phase'[p] = "write" /\ target'[p] = h
      BY <1>0, <2>1, <2>4, <3>1 DEF JobsType, OnlyJobMoves, Rows, Reads
    <3>3. JobOK(p)'
      BY <2>1, <3>1, <3>2 DEF JobOK
    <3> QED BY <2>1, <3>2, <3>3, LocalJobStep
  <2> QED BY <2>2, <2>3
<1>5. ASSUME NEW civitai \in SUBSET Names \ {{}}, Upserted(p, civitai) PROVE CatalogInv'
  <2>1. UNCHANGED <<models, artists, namesHistory, artistsHistory>>
    BY <1>5 DEF Upserted
  <2>2. CASE after[p] # NoRow
    <3>1. after[p] \in Hashes
      BY <1>0, <2>2 DEF JobsType
    <3>2. PICK names \in Rows : Begin(p, names, NoRow)
      BY <1>1, <1>5, <2>2, <3>1 DEF Upserted
    <3> QED BY <1>0, <2>1, <3>2, BeginMoves, LocalJobStep
  <2>3. CASE after[p] = NoRow
    <3>1. CatalogDone(p)
      BY <1>5, <2>3 DEF Upserted
    <3> QED BY <1>0, <2>1, <3>1, JobDone, LocalJobStep
  <2> QED BY <2>2, <2>3
<1>6. ASSUME NEW body \in Bodies, NEW read \in SUBSET Hashes, AllModels(p, body, read)
      PROVE  CatalogInv'
  <2> DEFINE row(h) == IF h \in read \/ models[h] = NoRow THEN models[h] ELSE Unread
             rows == [h \in Hashes |-> row(h)]
             back == [h \in Hashes |-> IF h \notin read /\ body[h] = NoRow THEN NoRow
                                       ELSE Stored(row(h)) \cup Stored(body[h])]
  <2>1. /\ phase' = [phase EXCEPT ![p] = "insert"]
        /\ seen' = [seen EXCEPT ![p] = rows] /\ todo' = [todo EXCEPT ![p] = back]
        /\ UNCHANGED <<models, artists, target, after, knownArtists, namesHistory, artistsHistory>>
    BY <1>6 DEF AllModels
  <2>2. \A h \in Hashes : row(h) \in {NoRow, Unread} \cup SUBSET AllNames
    BY <1>0 DEF CatalogTables, Rows, AllNames
  <2>3. rows \in Reads
    BY <2>2 DEF Reads
  <2>4. back \in Rows
    <3>1. body \in Rows
      BY DEF Bodies, Rows
    <3> HIDE DEF row
    <3>2. \A h \in Hashes : Stored(row(h)) \cup Stored(body[h]) \subseteq AllNames
      BY <2>2, <3>1 DEF Rows, Stored, AllNames
    <3> QED BY <3>2 DEF Rows, AllNames
  <2>5. \A h \in Hashes : back[h] # NoRow => Stored(rows[h]) \subseteq back[h]
    BY DEF Stored
  <2> HIDE DEF rows, back
  <2>6. JobsType' /\ OnlyJobMoves(p) /\ phase'[p] = "insert" /\ seen'[p] = rows /\ todo'[p] = back
    BY <1>0, <2>1, <2>3, <2>4 DEF JobsType, OnlyJobMoves
  <2>7. JobOK(p)'
    BY <2>5, <2>6 DEF JobOK, Stored
  <2> QED BY <2>1, <2>6, <2>7, LocalJobStep
<1> QED BY <1>2, <1>3, <1>4, <1>5, <1>6

(* The write of UpsertModel, and one turn of InsertModel.                  *)
LEMMA ModelWritesKeep ==
  ASSUME CatalogInv, NEW p \in Callers, NEW failed \in BOOLEAN,
         UpsertModel(p, failed) \/ \E h \in Hashes : InsertModel(p, h, failed)
  PROVE  CatalogInv'
<1>0. JobsType /\ CatalogTables /\ JobOK(p)
  BY InvParts
<1>1. UNCHANGED <<artists, artistsHistory>>
  BY DEF UpsertModel, InsertModel
<1>2. CASE CatalogDone(p) /\ UNCHANGED <<models, namesHistory>>
  BY <1>0, <1>1, <1>2, JobDone, LocalJobStep
<1>3. ASSUME NEW h \in Hashes, phase[p] = "write", h = target[p], todo[p][h] # NoRow,
             PutNames(p, h, Stored(seen[p][h]) \cup (todo[p][h] \ {Blank})),
             phase' = [phase EXCEPT ![p] = "upsert"],
             todo' = [todo EXCEPT ![p][h] = NoRow],
             seen' = [seen EXCEPT ![p][h] = NoRow],
             target' = [target EXCEPT ![p] = NoRow],
             UNCHANGED <<after, knownArtists>>
      PROVE  CatalogInv'
  <2>1. PICK names \in SUBSET AllNames : names = Stored(seen[p][h]) \cup (todo[p][h] \ {Blank})
    <3>1. seen[p][h] \in {NoRow, Unread} \cup SUBSET AllNames /\ todo[p][h] \in SUBSET AllNames
      BY <1>0, <1>3 DEF JobsType, Rows, Reads, AllNames
    <3>2. Stored(seen[p][h]) \subseteq AllNames
      BY <3>1 DEF Stored
    <3> QED BY <3>1, <3>2
  <2>2. CatalogTables' /\ NamesKept'
    BY <1>1, <1>3, <2>1, PutKeeps
  <2>3. JobsType' /\ OnlyJobMoves(p) /\ phase'[p] = "upsert"
    BY <1>0, <1>3 DEF JobsType, OnlyJobMoves, Rows, Reads
  <2>4. JobOK(p)'
    BY <2>3 DEF JobOK
  <2> QED BY <1>1, <2>2, <2>3, <2>4, OtherJobsStay
<1>4. ASSUME UpsertModel(p, failed) PROVE CatalogInv'
  <2>1. target[p] \in Hashes /\ todo[p][target[p]] # NoRow /\ phase[p] = "write"
    BY <1>0, <1>4 DEF JobOK, UpsertModel
  <2>2. CASE failed
    BY <1>2, <1>4, <2>2 DEF UpsertModel
  <2>3. CASE ~failed
    BY <1>3, <1>4, <2>1, <2>3 DEF UpsertModel
  <2> QED BY <2>2, <2>3
<1>5. ASSUME NEW h \in Hashes, InsertModel(p, h, failed) PROVE CatalogInv'
  <2>1. phase[p] = "insert" /\ todo[p][h] # NoRow
    BY <1>5 DEF InsertModel, Pending
  <2>2. CASE failed
    BY <1>2, <1>5, <2>2 DEF InsertModel
  <2>3. CASE ~failed
    <3>1. PICK names \in SUBSET AllNames : names = todo[p][h]
      BY <1>0, <2>1 DEF JobsType, Rows, AllNames
    <3>2. Stored(seen[p][h]) \subseteq names /\ PutNames(p, h, names)
      BY <1>0, <1>5, <2>1, <2>3, <3>1 DEF JobOK, InsertModel
    <3>3. CatalogTables' /\ NamesKept'
      BY <1>1, <3>2, PutKeeps
    <3>4. CASE Pending(p) = {h}
      <4>1. CatalogDone(p)
        BY <1>5, <2>3, <3>4 DEF InsertModel
      <4> QED BY <1>0, <1>1, <3>3, <4>1, JobDone, OtherJobsStay
    <3>5. CASE Pending(p) # {h}
      <4>1. /\ todo' = [todo EXCEPT ![p][h] = NoRow]
            /\ seen' = [seen EXCEPT ![p][h] = NoRow]
            /\ UNCHANGED <<phase, target, after, knownArtists>>
        BY <1>5, <2>3, <3>5 DEF InsertModel
      <4>2. JobsType' /\ OnlyJobMoves(p)
        BY <1>0, <4>1 DEF JobsType, OnlyJobMoves, Rows, Reads
      <4>3. \A g \in Hashes : todo'[p][g] # NoRow =>
              todo'[p][g] = todo[p][g] /\ seen'[p][g] = seen[p][g]
        BY <1>0, <4>1 DEF JobsType, Rows, Reads
      <4>4. JobOK(p)'
        BY <1>0, <2>1, <4>1, <4>3 DEF JobOK, Stored
      <4> QED BY <1>1, <3>3, <4>2, <4>4, OtherJobsStay
    <3> QED BY <3>4, <3>5
  <2> QED BY <2>2, <2>3
<1> QED BY <1>4, <1>5

-----------------------------------------------------------------------------
(* A write to artists, which is moved for whoever thinks it new.           *)
LEMMA MoveKeeps ==
  ASSUME CatalogInv, NEW u \in Usernames, NEW row \in UserIDs \cup {NoRow}, Move(u, row),
         taken' = {}
  PROVE  CatalogInv'
<1>0. JobsType /\ CatalogTables
  BY InvParts
<1>1. /\ artists' = [artists EXCEPT ![u] = row]
      /\ moved' = IF \E q \in Callers : phase[q] = "artists" /\ u \notin knownArtists[q]
                  THEN moved \cup {u} ELSE moved
      /\ UNCHANGED <<models, phase, todo, seen, target, after, knownArtists,
                     written, contended, unread, unlisted>>
  BY DEF Move, job, namesHistory
<1>2. CatalogTables' /\ JobsType'
  BY <1>0, <1>1 DEF CatalogTables, JobsType
<1>3. ASSUME NEW p \in Callers PROVE JobOK(p)'
  <2>1. JobOK(p)
    BY InvParts
  <2>2. ASSUME phase[p] = "artists", NEW v \in Usernames,
               v \notin knownArtists[p], artists'[v] # NoRow
        PROVE  v \in moved' \cup unlisted'
    <3>1. CASE v = u
      BY <1>1, <2>2, <3>1
    <3>2. CASE v # u
      <4>1. artists'[v] = artists[v]
        BY <1>0, <1>1, <3>2 DEF CatalogTables
      <4> QED BY <1>1, <2>1, <2>2, <4>1 DEF JobOK
    <3> QED BY <3>1, <3>2
  <2>3. phase'[p] = "artists" => \A v \in Usernames :
          v \notin knownArtists'[p] /\ artists'[v] # NoRow => v \in moved' \cup unlisted'
    BY <1>1, <2>2
  <2> QED BY <1>1, <2>1, <2>3 DEF JobOK, Stored
<1>4. NamesKept' /\ ArtistsKept'
  BY <1>1 DEF CatalogInv, NamesKept, ArtistsKept
<1> QED BY <1>2, <1>3, <1>4, InvPartsNext

(* newArtist, and the writes of the other routes of artists.               *)
LEMMA ArtistsNextKeeps ==
  ASSUME CatalogInv, ArtistsNext
  PROVE  CatalogInv'
<1>0. JobsType /\ CatalogTables /\ taken = {}
  BY InvParts DEF ArtistsKept
<1>1. ASSUME NEW p \in Callers, NEW read \in SUBSET Usernames, AllArtists(p, read)
      PROVE  CatalogInv'
  <2> DEFINE stored == {u \in Usernames : artists[u] # NoRow}
  <2>1. /\ phase' = [phase EXCEPT ![p] = "artists"]
        /\ knownArtists' = [knownArtists EXCEPT ![p] = read]
        /\ unlisted' = unlisted \cup (stored \ read)
        /\ UNCHANGED <<models, artists, todo, seen, target, after, written, contended, unread,
                       moved, taken>>
    BY <1>1 DEF AllArtists, namesHistory
  <2>2. JobsType' /\ OnlyJobMoves(p) /\ phase'[p] = "artists" /\ knownArtists'[p] = read
    BY <1>0, <2>1 DEF JobsType, OnlyJobMoves
  <2>3. JobOK(p)'
    BY <2>1, <2>2 DEF JobOK
  <2>4. ASSUME NEW q \in Callers, q # p PROVE JobOK(q)'
    BY <2>1, <2>2, <2>4, InvParts DEF OnlyJobMoves, JobOK
  <2>5. CatalogTables' /\ NamesKept' /\ ArtistsKept'
    BY <1>0, <2>1, InvParts DEF CatalogTables, NamesKept, ArtistsKept
  <2> QED BY <2>2, <2>3, <2>4, <2>5, InvPartsNext
<1>2. ASSUME NEW p \in Callers, NEW u \in Usernames, NEW i \in UserIDs, NewArtist(p, u, i)
      PROVE  CatalogInv'
  <2>1. artists[u] # NoRow => u \in moved \cup unlisted
    BY <1>2, InvParts DEF NewArtist, JobOK
  <2>2. Move(u, i) /\ taken' = {}
    BY <1>0, <1>2, <2>1 DEF NewArtist
  <2> QED BY <2>2, MoveKeeps
<1>3. ASSUME NEW p \in Callers, EndArtists(p) PROVE CatalogInv'
  BY <1>0, <1>3, JobDone, LocalJobStep DEF EndArtists
<1>4. ASSUME NEW u \in Usernames, NEW row \in UserIDs \cup {NoRow}, SetArtist(u, row)
      PROVE  CatalogInv'
  BY <1>0, <1>4, MoveKeeps DEF SetArtist
<1> QED BY <1>1, <1>2, <1>3, <1>4 DEF ArtistsNext

(* Every step keeps the invariant.                                         *)
LEMMA CatalogNextInv == CatalogInv /\ [CatalogNext]_catalogVars => CatalogInv'
<1> SUFFICES ASSUME CatalogInv, [CatalogNext]_catalogVars PROVE CatalogInv'
  OBVIOUS
<1>1. CASE ModelsNext
  BY <1>1, ModelReadsKeep, ModelWritesKeep DEF ModelsNext
<1>2. CASE ArtistsNext
  BY <1>2, ArtistsNextKeeps
<1>3. CASE UNCHANGED catalogVars
  BY <1>3 DEF catalogVars, job, namesHistory, artistsHistory, CatalogInv, CatalogTypeOK, InsertCovers, NamesKept,
              NewOrMoved, ArtistsKept, Pending, Stored
<1> QED BY <1>1, <1>2, <1>3 DEF CatalogNext

(* The typing of the tables and of the requests.                           *)
THEOREM CatalogTyping == CatalogSpec => []CatalogTypeOK
<1>1. CatalogInv => CatalogTypeOK
  BY DEF CatalogInv
<1> QED BY CatalogInitInv, CatalogNextInv, <1>1, PTL DEF CatalogSpec

(***************************************************************************)
(* A name stored for a model stays unless two requests cross at its hash,  *)
(* or one writes it whose read of the row had failed; and newArtist writes *)
(* over no artist that was not written meanwhile, or left out of a read.   *)
(***************************************************************************)
THEOREM CatalogIsKept == CatalogSpec => []CatalogKept
<1>1. CatalogInv => CatalogKept
  BY DEF CatalogInv, CatalogKept
<1> QED BY CatalogInitInv, CatalogNextInv, <1>1, PTL DEF CatalogSpec

-----------------------------------------------------------------------------
(* What assertArgs makes of the fields, Scan reads as ReadBack says.       *)
LEMMA ScanOfArgs ==
  ASSUME NEW fields \in Fields
  PROVE  Scan(AssertArgs(fields)) = ReadBack(fields)
<1>1. fields.closed \in {"nil", "time"} /\ fields.labels \in {"nil", "empty", "some"}
  BY DEF Fields
<1>2. AssertArgs(fields)["closed"] = IF fields.closed = "nil" THEN "NULL" ELSE "text"
  BY <1>1 DEF AssertArgs
<1>3. AssertArgs(fields)["labels"] = IF fields.labels = "some" THEN "JSON" ELSE "NULL"
  BY <1>1 DEF AssertArgs
<1> QED BY <1>1, <1>2, <1>3 DEF Scan, ReadBack

(* A ticket is made with the id that counts it: the id tells which it is.  *)
CopiesNumbered ==
  \A c \in Clients :
    copies[c] # NoTicket /\ copies[c].id # 0 =>
      copies[c].serial = copies[c].id /\ copies[c].id <= sequence

RowsNumbered ==
  \A i \in IDs :
    /\ serials[i] \in {i, NoSerial}
    /\ tickets[i] # NoTicket => serials[i] = i /\ i <= sequence

RowsReadBack ==
  \A i \in IDs : tickets[i] # NoTicket => Scan(tickets[i]) = ReadBack(sent[i])

TicketsInv == TicketsTypeOK /\ CopiesNumbered /\ RowsNumbered /\ RowsReadBack

(* There is no ticket and no copy.                                         *)
LEMMA TicketsInitInv == TicketsInit => TicketsInv
<1> SUFFICES ASSUME TicketsInit PROVE TicketsInv
  OBVIOUS
<1>1. TicketsTypeOK
  BY TicketsAssumption DEF TicketsInit, TicketsTypeOK, IDs, NoSerial
<1>2. CopiesNumbered /\ RowsNumbered /\ RowsReadBack
  BY DEF TicketsInit, CopiesNumbered, RowsNumbered, RowsReadBack
<1> QED BY <1>1, <1>2 DEF TicketsInv

(***************************************************************************)
(* Fields stored under the id that is their serial, and a copy of them     *)
(* held under that id or none, keep the invariant.                         *)
(***************************************************************************)
LEMMA StoreKeeps ==
  ASSUME TicketsInv, NEW c \in Clients, NEW fields \in Fields, NEW i \in IDs,
         NEW held \in {0, i},
         sequence' \in 0..MaxTicketID, sequence <= sequence', i <= sequence',
         Store(i, fields, i), Hold(c, held, fields, i), answered' = held
  PROVE  TicketsInv'
<1>1. /\ i \in Nat /\ IDs \subseteq 0..MaxTicketID /\ sequence \in Nat
      /\ tickets \in [IDs -> Columns \cup {NoTicket}]
      /\ copies \in [Clients -> Tickets \cup {NoTicket}]
      /\ serials \in [IDs -> 0..MaxTicketID] /\ sent \in [IDs -> Fields \cup {NoTicket}]
  BY TicketsAssumption DEF TicketsInv, TicketsTypeOK, IDs
<1>2. AssertArgs(fields) \in Columns
  BY DEF Columns
<1>3. /\ tickets' = [tickets EXCEPT ![i] = AssertArgs(fields)]
      /\ serials' = [serials EXCEPT ![i] = i]
      /\ sent' = [sent EXCEPT ![i] = fields]
  BY DEF Store
<1> DEFINE copy == [id |-> held, fields |-> fields, serial |-> i]
<1>4. copy \in Tickets /\ copy.id = held /\ copy.serial = i
  <2>1. held \in 0..MaxTicketID /\ i \in 0..MaxTicketID
    BY <1>1, TicketsAssumption
  <2> QED BY <2>1 DEF Tickets
<1>5. copies' = [copies EXCEPT ![c] = copy]
  BY DEF Hold
<1> HIDE DEF copy
<1>6. TicketsTypeOK'
  <2>1. tickets' \in [IDs -> Columns \cup {NoTicket}] /\ sent' \in [IDs -> Fields \cup {NoTicket}]
    BY <1>1, <1>2, <1>3
  <2>2. serials' \in [IDs -> 0..MaxTicketID]
    BY <1>1, <1>3
  <2>3. copies' \in [Clients -> Tickets \cup {NoTicket}]
    BY <1>1, <1>4, <1>5
  <2>4. answered' \in -1..MaxTicketID
    BY TicketsAssumption DEF IDs
  <2> QED BY <2>1, <2>2, <2>3, <2>4 DEF TicketsTypeOK, Columns
<1>7. CopiesNumbered'
  <2> SUFFICES ASSUME NEW d \in Clients, copies'[d] # NoTicket, copies'[d].id # 0
               PROVE  copies'[d].serial = copies'[d].id /\ copies'[d].id <= sequence'
    BY DEF CopiesNumbered
  <2>1. CASE d = c
    BY <1>1, <1>4, <1>5, <2>1
  <2>2. CASE d # c
    <3>1. copies'[d] = copies[d] /\ copies[d] \in Tickets
      BY <1>1, <1>5, <2>2
    <3>2. copies[d].id \in Nat
      BY <3>1 DEF Tickets
    <3> QED BY <1>1, <3>1, <3>2 DEF TicketsInv, CopiesNumbered
  <2> QED BY <2>1, <2>2
<1>8. RowsNumbered'
  <2> SUFFICES ASSUME NEW j \in IDs
               PROVE  /\ serials'[j] \in {j, NoSerial}
                      /\ tickets'[j] # NoTicket => serials'[j] = j /\ j <= sequence'
    BY DEF RowsNumbered
  <2>1. CASE j = i
    BY <1>1, <1>3, <2>1
  <2>2. CASE j # i
    <3>1. serials'[j] = serials[j] /\ tickets'[j] = tickets[j] /\ j \in Nat
      BY <1>1, <1>3, <2>2
    <3> QED BY <1>1, <3>1 DEF TicketsInv, RowsNumbered
  <2> QED BY <2>1, <2>2
<1>9. RowsReadBack'
  <2> SUFFICES ASSUME NEW j \in IDs, tickets'[j] # NoTicket
               PROVE  Scan(tickets'[j]) = ReadBack(sent'[j])
    BY DEF RowsReadBack, Scan, ReadBack
  <2>1. CASE j = i
    <3>1. tickets'[j] = AssertArgs(fields) /\ sent'[j] = fields
      BY <1>1, <1>3, <2>1
    <3> QED BY <3>1, ScanOfArgs
  <2>2. CASE j # i
    <3>1. tickets'[j] = tickets[j] /\ sent'[j] = sent[j]
      BY <1>1, <1>3, <2>2
    <3> QED BY <3>1 DEF TicketsInv, RowsReadBack
  <2> QED BY <2>1, <2>2
<1> QED BY <1>6, <1>7, <1>8, <1>9 DEF TicketsInv

(* A new ticket has the id after the largest ever used, and its serial.    *)
LEMMA InsertKeeps ==
  ASSUME TicketsInv, NEW c \in Clients, NEW fields \in Fields, InsertTicket(c, fields)
  PROVE  TicketsInv'
<1>1. sequence \in 0..MaxTicketID /\ sequence < MaxTicketID /\ sequence' = sequence + 1
  BY DEF InsertTicket, TicketsInv, TicketsTypeOK
<1>2. sequence + 1 \in IDs /\ sequence' \in 0..MaxTicketID /\ sequence <= sequence'
  BY <1>1, TicketsAssumption DEF IDs
<1>3. PICK i \in IDs : i = sequence + 1
  BY <1>2
<1>4. Store(i, fields, i) /\ Hold(c, 0, fields, i) /\ answered' = 0 /\ i <= sequence'
  BY <1>1, <1>3 DEF InsertTicket
<1> QED BY <1>2, <1>4, StoreKeeps

(* Every request keeps the invariant.                                      *)
LEMMA TicketsNextInv == TicketsInv /\ [TicketsNext]_ticketVars => TicketsInv'
<1> SUFFICES ASSUME TicketsInv, [TicketsNext]_ticketVars PROVE TicketsInv'
  OBVIOUS
<1>0. /\ tickets \in [IDs -> Columns \cup {NoTicket}] /\ sequence \in 0..MaxTicketID
      /\ copies \in [Clients -> Tickets \cup {NoTicket}]
      /\ serials \in [IDs -> 0..MaxTicketID] /\ sent \in [IDs -> Fields \cup {NoTicket}]
      /\ MaxTicketID \in Nat /\ IDs \subseteq 0..MaxTicketID
  BY TicketsAssumption DEF TicketsInv, TicketsTypeOK, IDs
<1>1. ASSUME NEW c \in Clients, NEW fields \in Fields, NewTicket(c, fields)
      PROVE  TicketsInv'
  BY <1>1, InsertKeeps DEF NewTicket
<1>2. ASSUME NEW c \in Clients, NEW fields \in Fields, UpdateTicket(c, fields)
      PROVE  TicketsInv'
  <2>1. CASE copies[c].id = 0
    BY <1>2, <2>1, InsertKeeps DEF UpdateTicket
  <2>2. CASE copies[c].id # 0
    <3>1. copies[c] # NoTicket /\ copies[c] \in Tickets
      BY <1>0, <1>2 DEF UpdateTicket
    <3>2. copies[c].id \in 0..MaxTicketID
      BY <3>1 DEF Tickets
    <3>3. PICK i \in IDs : i = copies[c].id
      BY <2>2, <3>2, TicketsAssumption DEF IDs
    <3>4. copies[c].serial = i /\ i <= sequence
      BY <2>2, <3>1, <3>3 DEF TicketsInv, CopiesNumbered
    <3>5. /\ Store(i, fields, i) /\ Hold(c, i, fields, i) /\ answered' = i
          /\ sequence' = sequence
      BY <1>2, <2>2, <3>3, <3>4 DEF UpdateTicket
    <3>6. sequence' \in 0..MaxTicketID /\ sequence <= sequence' /\ i <= sequence'
      BY <1>0, <3>4, <3>5
    <3> QED BY <3>5, <3>6, StoreKeeps
  <2> QED BY <2>1, <2>2
<1>3. ASSUME NEW i \in IDs, DeleteTicket(i) PROVE TicketsInv'
  <2>1. /\ tickets' = [tickets EXCEPT ![i] = NoTicket]
        /\ serials' = [serials EXCEPT ![i] = 0]
        /\ sent' = [sent EXCEPT ![i] = NoTicket]
        /\ answered' = i /\ UNCHANGED <<sequence, copies>>
    BY <1>3 DEF DeleteTicket, NoSerial
  <2>2. TicketsTypeOK'
    <3>1. tickets' \in [IDs -> Columns \cup {NoTicket}] /\ sent' \in [IDs -> Fields \cup {NoTicket}]
      BY <1>0, <2>1
    <3>2. serials' \in [IDs -> 0..MaxTicketID] /\ answered' \in -1..MaxTicketID
      BY <1>0, <2>1
    <3> QED BY <1>0, <2>1, <3>1, <3>2 DEF TicketsTypeOK, Columns
  <2>3. CopiesNumbered'
    BY <2>1 DEF TicketsInv, CopiesNumbered
  <2>4. ASSUME NEW j \in IDs
        PROVE  /\ serials'[j] \in {j, NoSerial}
               /\ tickets'[j] # NoTicket =>
                    serials'[j] = j /\ j <= sequence' /\ Scan(tickets'[j]) = ReadBack(sent'[j])
    <3>1. CASE j = i
      BY <1>0, <2>1, <3>1 DEF NoSerial
    <3>2. CASE j # i
      <4>1. serials'[j] = serials[j] /\ tickets'[j] = tickets[j] /\ sent'[j] = sent[j]
            /\ sequence' = sequence
        BY <1>0, <2>1, <3>2
      <4> QED BY <4>1 DEF TicketsInv, RowsNumbered, RowsReadBack
    <3> QED BY <3>1, <3>2
  <2>5. RowsNumbered' /\ RowsReadBack'
    BY <2>4 DEF RowsNumbered, RowsReadBack, Scan, ReadBack
  <2> QED BY <2>2, <2>3, <2>5 DEF TicketsInv
<1>4. ASSUME NEW c \in Clients, NEW i \in IDs, GetTickets(c, i) PROVE TicketsInv'
  <2>1. tickets[i] # NoTicket /\ serials[i] = i /\ i <= sequence /\ i \in 0..MaxTicketID
    BY <1>0, <1>4 DEF GetTickets, TicketsInv, RowsNumbered
  <2>2. Scan(tickets[i]) \in Fields
    <3>1. PICK fields \in Fields : tickets[i] = AssertArgs(fields)
      BY <1>0, <2>1 DEF Columns
    <3>2. Scan(tickets[i]) = ReadBack(fields)
      BY <3>1, ScanOfArgs
    <3>3. fields.closed \in {"nil", "time"} /\ fields.labels \in {"nil", "empty", "some"}
      BY DEF Fields
    <3> QED BY <3>2, <3>3 DEF ReadBack, Fields
  <2> DEFINE copy == [id |-> i, fields |-> Scan(tickets[i]), serial |-> i]
  <2>3. copies' = [copies EXCEPT ![c] = copy]
    BY <1>4, <2>1 DEF GetTickets, Hold
  <2>4. copy \in Tickets /\ copy.id = i /\ copy.serial = i
    BY <2>1, <2>2 DEF Tickets
  <2> HIDE DEF copy
  <2>5. UNCHANGED <<tickets, sequence, serials, sent>> /\ answered' = -1
    BY <1>4 DEF GetTickets
  <2>6. copies' \in [Clients -> Tickets \cup {NoTicket}]
    BY <1>0, <2>3, <2>4
  <2>7. TicketsTypeOK'
    BY <1>0, <2>5, <2>6 DEF TicketsTypeOK, Columns
  <2>8. ASSUME NEW d \in Clients, copies'[d] # NoTicket, copies'[d].id # 0
        PROVE  copies'[d].serial = copies'[d].id /\ copies'[d].id <= sequence'
    <3>1. CASE d = c
      BY <1>0, <2>1, <2>3, <2>4, <2>5, <3>1
    <3>2. CASE d # c
      <4>1. copies'[d] = copies[d] /\ sequence' = sequence
        BY <1>0, <2>3, <2>5, <3>2
      <4> QED BY <2>8, <4>1 DEF TicketsInv, CopiesNumbered
    <3> QED BY <3>1, <3>2
  <2>9. CopiesNumbered' /\ RowsNumbered' /\ RowsReadBack'
    BY <2>5, <2>8 DEF TicketsInv, CopiesNumbered, RowsNumbered, RowsReadBack, Scan, ReadBack
  <2> QED BY <2>7, <2>9 DEF TicketsInv
<1>5. ASSUME Refuse \/ UNCHANGED ticketVars PROVE TicketsInv'
  <2>1. UNCHANGED <<tickets, sequence, copies, serials, sent>> /\ answered' \in {-1, answered}
    BY <1>5 DEF Refuse, ticketVars
  <2>2. TicketsTypeOK'
    BY <1>0, <2>1 DEF TicketsInv, TicketsTypeOK, Columns
  <2> QED BY <2>1, <2>2 DEF TicketsInv, CopiesNumbered, RowsNumbered, RowsReadBack, Scan, ReadBack
<1> QED
  BY <1>1, <1>2, <1>3, <1>4, <1>5 DEF TicketsNext

(***************************************************************************)
(* For any number of clients and of rows: the copy a client holds is never *)
(* written over another ticket, and a row reads back as it was sent.       *)
(***************************************************************************)
THEOREM TicketsKeepIdentity == TicketsSpec => []TicketIdentity
<1>1. TicketsInv => TicketIdentity
  BY DEF TicketsInv, TicketIdentity, CopiesNumbered, RowsNumbered, RowsReadBack, TicketsTypeOK, Tickets, IDs
<1> QED BY TicketsInitInv, TicketsNextInv, <1>1, PTL DEF TicketsSpec

-----------------------------------------------------------------------------
(* What the migration that runs has done, in its transaction alone; after  *)
(* the last, the file has all of them.                                     *)
MigratesNext ==
  boot \in {"query", "version", "commit"} =>
    migrating = userVersion + 1 /\ migrating <= Migrations

InTransaction ==
  transaction = CASE boot = "version" -> <<{migrating}, 0>>
                  [] boot = "commit" -> <<{migrating}, migrating>>
                  [] OTHER -> Idle

AllMigrated == boot \in {"insert", "serving"} => Migrations <= userVersion

StartupInv ==
  /\ userVersion \in 0..(Migrations + Later)
  /\ schema = 1..userVersion
  /\ inserted \subseteq Carried
  /\ migrating \in 0..Migrations
  /\ boot \in {"down", "query", "version", "commit", "insert", "serving"}
  /\ MigratesNext
  /\ InTransaction
  /\ AllMigrated

(* Whatever version the file has, nothing was done to it yet.              *)
LEMMA StartupInitInv == StartupInit => StartupInv
BY StartupAssumption DEF StartupInit, StartupInv, MigratesNext, InTransaction, AllMigrated

(* Every step, also the end of the program, keeps the invariant.           *)
LEMMA StartupNextInv == StartupInv /\ [StartupNext]_startupVars => StartupInv'
<1> SUFFICES ASSUME StartupInv, [StartupNext]_startupVars PROVE StartupInv'
  OBVIOUS
<1> USE StartupAssumption DEF StartupInv, MigratesNext, AllMigrated, InTransaction, file, Idle
<1>1. CASE Migrate
  <2>1. CASE userVersion < Migrations
    BY <1>1, <2>1 DEF Migrate
  <2>2. CASE ~(userVersion < Migrations)
    BY <1>1, <2>2 DEF Migrate
  <2> QED BY <2>1, <2>2
<1>2. CASE ExecQuery
  BY <1>2 DEF ExecQuery
<1>3. CASE SetVersion
  <2>1. transaction' = <<{migrating}, migrating>>
    BY <1>3 DEF SetVersion
  <2> QED BY <1>3, <2>1 DEF SetVersion
<1>4. CASE Commit
  <2>1. transaction[1] = {migrating} /\ transaction[2] = migrating
    BY <1>4 DEF Commit
  <2>2. /\ migrating = userVersion + 1 /\ migrating <= Migrations
        /\ userVersion' = userVersion + 1 /\ schema' = schema \cup {userVersion + 1}
        /\ transaction' = <<{}, 0>>
    BY <1>4, <2>1 DEF Commit
  <2>3. schema' = 1..userVersion' /\ userVersion' \in 0..(Migrations + Later)
    BY <2>2
  <2>4. CASE migrating < Migrations
    BY <1>4, <2>2, <2>3, <2>4 DEF Commit
  <2>5. CASE ~(migrating < Migrations)
    BY <1>4, <2>2, <2>3, <2>5 DEF Commit
  <2> QED BY <2>4, <2>5
<1>5. ASSUME NEW row \in Carried, InsertCarried(row) \/ DeleteRow(row) PROVE StartupInv'
  BY <1>5 DEF InsertCarried, DeleteRow
<1>6. CASE Serving
  BY <1>6 DEF Serving
<1>7. CASE Stop
  BY <1>7 DEF Stop
<1>8. CASE UNCHANGED startupVars
  BY <1>8 DEF startupVars
<1> QED BY <1>1, <1>2, <1>3, <1>4, <1>5, <1>6, <1>7, <1>8 DEF StartupNext

(***************************************************************************)
(* For any number of migrations and any version of the file: wherever the  *)
(* program is killed, the version counts the tables of the file, and what  *)
(* serves has all that it needs.                                           *)
(***************************************************************************)
THEOREM StartMigrates == StartupSpec => []ServesMigrated
<1>1. StartupInv => ServesMigrated
  BY StartupAssumption DEF StartupInv, AllMigrated, ServesMigrated
<1> QED BY <1>1, StartupInitInv, StartupNextInv, PTL DEF StartupSpec

-----------------------------------------------------------------------------
(* Each part keeps its invariant in the steps of the others.               *)
MCInv == AccountsInv /\ CatalogInv /\ TicketsInv /\ StartupInv

LEMMA MCInitInv == MCInit => MCInv
BY AccountsInitInv, CatalogInitInv, TicketsInitInv, StartupInitInv DEF MCInit, MCInv

LEMMA MCNextInv ==
  MCInv /\ [MCNext]_<<accountVars, catalogVars, ticketVars, startupVars, focus>> => MCInv'
<1> SUFFICES ASSUME MCInv,
                    [MCNext]_<<accountVars, catalogVars, ticketVars, startupVars, focus>>
             PROVE  MCInv'
  OBVIOUS
<1>1. /\ [AccountsNext]_accountVars /\ [CatalogNext]_catalogVars
      /\ [TicketsNext]_ticketVars /\ [StartupNext]_startupVars
  BY DEF MCNext, CatalogNext
<1> QED BY <1>1, AccountsNextInv, CatalogNextInv, TicketsNextInv, StartupNextInv DEF MCInv

(***************************************************************************)
(* The types of every part, whichever of them a behaviour is about.        *)
(***************************************************************************)
THEOREM DatabaseTypes == MCSpec => []DatabaseTypesOK
<1>1. AccountsInv => AccountsTypeOK
  BY DEF AccountsInv, TablesType, RequestsType, HistoryType, Presents, ActsFor, AccountsTypeOK
<1>2. CatalogInv => CatalogTypeOK
  BY DEF CatalogInv
<1>3. TicketsInv => TicketsTypeOK
  BY DEF TicketsInv
<1>4. StartupInv => StartupTypeOK
  <2> SUFFICES ASSUME StartupInv PROVE StartupTypeOK
    OBVIOUS
  <2>1. ServesMigrated
    BY StartupAssumption DEF StartupInv, AllMigrated, ServesMigrated
  <2>2. transaction \in {Idle} \cup ({{migrating}} \X {0, migrating})
    BY DEF StartupInv, InTransaction
  <2> QED BY <2>1, <2>2 DEF StartupInv, StartupTypeOK
<1>5. MCInv => DatabaseTypesOK
  BY <1>1, <1>2, <1>3, <1>4 DEF MCInv, DatabaseTypesOK
<1> QED BY MCInitInv, MCNextInv, <1>5, PTL DEF MCSpec

=============================================================================
