------------------------------ MODULE Catalog ------------------------------
(***************************************************************************)
(* The tables models and artists.  The names of a model are under its      *)
(* hash, as one JSON array: GetModelsHandler, QueryHost and QueryCivitAI   *)
(* add to it with UpsertModel, the route PATCH /models with InsertModel.   *)
(* Both read and then write, and nothing keeps two requests apart; nor do  *)
(* they tell a read that failed from a row that is not there.              *)
(***************************************************************************)
EXTENDS Integers

CONSTANTS
  Hashes, Names,
  Blank,        \* the name ""
  Usernames, UserIDs,
  Callers,      \* goroutines that serve a request, one at a time
  NoRow,        \* no row, or nothing to do
  Unread        \* a row that a request did not see, because the read failed

ASSUME CatalogAssumption ==
  /\ Blank \notin Names
  /\ NoRow \notin UserIDs
  /\ Unread # NoRow
  /\ \A names \in SUBSET (Names \cup {Blank}) : NoRow # names /\ Unread # names

VARIABLES
  models,       \* the names of each hash, or NoRow
  artists,      \* the user id of each username, or NoRow
  phase,        \* what each request does next
  todo,         \* the names it has to add to each hash, or to write, or NoRow
  seen,         \* the names of each hash as it read them, or NoRow, or Unread
  target,       \* the hash UpsertModel is about to write, or NoRow
  after,        \* the hash to look for at CivitAI then, or NoRow
  knownArtists, \* the usernames newArtist has read
  written,      \* history: <<hash, name>> ever in the table
  contended,    \* history: hashes written by one request between the read
                \* and the write of another
  unread,       \* history: hashes written by a request whose read of the row
                \* had failed
  moved,        \* history: artists written or deleted while a newArtist
                \* that had found them new was not over
  unlisted,     \* history: artists that a newArtist failed to read
  taken         \* history: artists newArtist wrote over, for neither reason

job == <<phase, todo, seen, target, after, knownArtists>>
catalogVars == <<models, artists, job, written, contended, unread, moved, unlisted, taken>>

namesHistory == <<written, contended, unread>>
artistsHistory == <<moved, unlisted, taken>>

Nothing == [h \in Hashes |-> NoRow]
Bodies == [Hashes -> {NoRow} \cup (SUBSET (Names \cup {Blank}) \ {{}})]
Found == [Hashes -> {NoRow} \cup (SUBSET Names \ {{}})]
Pending(p) == {h \in Hashes : todo[p][h] # NoRow}
Stored(names) == IF names \in {NoRow, Unread} THEN {} ELSE names

CatalogInit ==
  /\ models = Nothing
  /\ artists = [u \in Usernames |-> NoRow]
  /\ phase = [p \in Callers |-> "idle"]
  /\ todo = [p \in Callers |-> Nothing]
  /\ seen = [p \in Callers |-> Nothing]
  /\ target = [p \in Callers |-> NoRow]
  /\ after = [p \in Callers |-> NoRow]
  /\ knownArtists = [p \in Callers |-> {}]
  /\ written = {}
  /\ contended = {}
  /\ unread = {}
  /\ moved = {}
  /\ unlisted = {}
  /\ taken = {}

CatalogDone(p) ==
  /\ phase' = [phase EXCEPT ![p] = "idle"]
  /\ todo' = [todo EXCEPT ![p] = Nothing]
  /\ seen' = [seen EXCEPT ![p] = Nothing]
  /\ target' = [target EXCEPT ![p] = NoRow]
  /\ after' = [after EXCEPT ![p] = NoRow]
  /\ knownArtists' = [knownArtists EXCEPT ![p] = {}]

Begin(p, names, then) ==
  /\ phase' = [phase EXCEPT ![p] = "upsert"]
  /\ todo' = [todo EXCEPT ![p] = names]
  /\ after' = [after EXCEPT ![p] = then]
  /\ UNCHANGED <<seen, target, knownArtists>>

(* What an upsert of names into h does to the table and the history.       *)
PutNames(p, h, names) ==
  /\ models' = [models EXCEPT ![h] = names]
  /\ written' = written \cup {<<h, n>> : n \in names}
  /\ contended' = IF seen[p][h] \in {models[h], Unread} THEN contended ELSE contended \cup {h}
  /\ unread' = IF seen[p][h] = Unread THEN unread \cup {h} ELSE unread

-----------------------------------------------------------------------------
(***************************************************************************)
(* GetModelsHandler for a hash without a row, or whose row it cannot read. *)
(* A lora of the host with that hash is answered but not stored; otherwise *)
(* CivitAI is asked.                                                       *)
(***************************************************************************)
GetModels(p, h, civitai, failed) ==
  /\ phase[p] = "idle"
  /\ failed \/ models[h] = NoRow
  /\ Begin(p, [Nothing EXCEPT ![h] = civitai], NoRow)
  /\ UNCHANGED <<models, artists, namesHistory, artistsHistory>>

(* With recache=true QueryHost upserts the names of every lora it finds.   *)
Recache(p, h, found) ==
  /\ phase[p] = "idle"
  /\ Begin(p, found, IF found[h] = NoRow THEN h ELSE NoRow)
  /\ UNCHANGED <<models, artists, namesHistory, artistsHistory>>

(***************************************************************************)
(* UpsertModel reads the names of a hash; with none to add it goes on.  It *)
(* gets nil for a row that is not there, and for any error: then all names *)
(* are new.                                                                *)
(***************************************************************************)
ModelNamesFromHash(p, h, failed) ==
  LET new == todo[p][h] \ {Blank}
      row == IF failed /\ models[h] # NoRow THEN Unread ELSE models[h]
  IN  /\ phase[p] = "upsert"
      /\ h \in Pending(p)
      /\ IF new \subseteq Stored(row)
         THEN /\ todo' = [todo EXCEPT ![p][h] = NoRow]
              /\ UNCHANGED <<phase, seen, target>>
         ELSE /\ phase' = [phase EXCEPT ![p] = "write"]
              /\ seen' = [seen EXCEPT ![p][h] = row]
              /\ target' = [target EXCEPT ![p] = h]
              /\ UNCHANGED todo
      /\ UNCHANGED <<models, artists, after, knownArtists, namesHistory, artistsHistory>>

(* Mutant: the names are written without those read.                       *)
UpsertModelOnly(p, failed) ==
  LET h == target[p]
  IN  /\ phase[p] = "write"
      /\ IF failed
         THEN CatalogDone(p) /\ UNCHANGED <<models, namesHistory>>
         ELSE /\ PutNames(p, h, todo[p][h] \ {Blank})
              /\ phase' = [phase EXCEPT ![p] = "upsert"]
              /\ todo' = [todo EXCEPT ![p][h] = NoRow]
              /\ seen' = [seen EXCEPT ![p][h] = NoRow]
              /\ target' = [target EXCEPT ![p] = NoRow]
              /\ UNCHANGED <<after, knownArtists>>
      /\ UNCHANGED <<artists, artistsHistory>>

(* And writes what it read and what is new.                                *)
UpsertModel(p, failed) ==
  LET h == target[p]
  IN  /\ phase[p] = "write"
      /\ IF failed
         THEN CatalogDone(p) /\ UNCHANGED <<models, namesHistory>>
         ELSE /\ PutNames(p, h, Stored(seen[p][h]) \cup (todo[p][h] \ {Blank}))
              /\ phase' = [phase EXCEPT ![p] = "upsert"]
              /\ todo' = [todo EXCEPT ![p][h] = NoRow]
              /\ seen' = [seen EXCEPT ![p][h] = NoRow]
              /\ target' = [target EXCEPT ![p] = NoRow]
              /\ UNCHANGED <<after, knownArtists>>
      /\ UNCHANGED <<artists, artistsHistory>>

(* All is upserted: QueryCivitAI is next, with its names, or the answer.   *)
Upserted(p, civitai) ==
  /\ phase[p] = "upsert"
  /\ Pending(p) = {}
  /\ IF after[p] # NoRow
     THEN Begin(p, [Nothing EXCEPT ![after[p]] = civitai], NoRow)
     ELSE CatalogDone(p)
  /\ UNCHANGED <<models, artists, namesHistory, artistsHistory>>

-----------------------------------------------------------------------------
(***************************************************************************)
(* PATCH /models (upsertModel) reads all rows, refuses a blank name for a  *)
(* hash it found, and when there is no row at all.  What it writes back is *)
(* every row it read, with the names of the body.  AllModels does not see  *)
(* that its rows end early: read are the hashes it got.                    *)
(***************************************************************************)
AllModels(p, body, read) ==
  LET row(h) == IF h \in read \/ models[h] = NoRow THEN models[h] ELSE Unread
  IN  /\ phase[p] = "idle"
      /\ read # {}
      /\ \A h \in read : models[h] # NoRow
      /\ body # Nothing
      /\ \A h \in read : body[h] # NoRow => Blank \notin body[h]
      /\ phase' = [phase EXCEPT ![p] = "insert"]
      /\ seen' = [seen EXCEPT ![p] = [h \in Hashes |-> row(h)]]
      /\ todo' = [todo EXCEPT ![p] =
           [h \in Hashes |-> IF h \notin read /\ body[h] = NoRow THEN NoRow
                             ELSE Stored(row(h)) \cup Stored(body[h])]]
      /\ UNCHANGED <<models, artists, target, after, knownArtists, namesHistory, artistsHistory>>

(* One turn of the loop of InsertModel, which stops at an error.           *)
InsertModel(p, h, failed) ==
  /\ phase[p] = "insert"
  /\ h \in Pending(p)
  /\ IF failed
     THEN CatalogDone(p) /\ UNCHANGED <<models, namesHistory>>
     ELSE /\ PutNames(p, h, todo[p][h])
          /\ IF Pending(p) = {h}
             THEN CatalogDone(p)
             ELSE /\ todo' = [todo EXCEPT ![p][h] = NoRow]
                  /\ seen' = [seen EXCEPT ![p][h] = NoRow]
                  /\ UNCHANGED <<phase, target, after, knownArtists>>
  /\ UNCHANGED <<artists, artistsHistory>>

-----------------------------------------------------------------------------
(***************************************************************************)
(* newArtist reads the usernames, then inserts one artist after another.   *)
(* AllArtists returns nil when a read fails, and those before when its     *)
(* rows end early: read are the usernames it got.                          *)
(***************************************************************************)
AllArtists(p, read) ==
  LET stored == {u \in Usernames : artists[u] # NoRow}
  IN  /\ phase[p] = "idle"
      /\ read \subseteq stored
      /\ phase' = [phase EXCEPT ![p] = "artists"]
      /\ knownArtists' = [knownArtists EXCEPT ![p] = read]
      /\ unlisted' = unlisted \cup (stored \ read)
      /\ UNCHANGED <<models, artists, todo, seen, target, after, namesHistory, moved, taken>>

Move(u, row) ==
  /\ artists' = [artists EXCEPT ![u] = row]
  /\ moved' = IF \E q \in Callers : phase[q] = "artists" /\ u \notin knownArtists[q]
              THEN moved \cup {u} ELSE moved
  /\ UNCHANGED <<models, job, namesHistory, unlisted>>

NewArtist(p, u, i) ==
  /\ phase[p] = "artists"
  /\ u \notin knownArtists[p]
  /\ Move(u, i)
  /\ taken' = IF artists[u] # NoRow /\ u \notin moved \cup unlisted
               THEN taken \cup {u} ELSE taken

(* The list ends, or has a username that was read: those before stay.      *)
EndArtists(p) ==
  /\ phase[p] = "artists"
  /\ CatalogDone(p)
  /\ UNCHANGED <<models, artists, namesHistory, artistsHistory>>

(* PATCH (upsertArtist) and DELETE of an artist, which read nothing.       *)
SetArtist(u, row) == Move(u, row) /\ UNCHANGED taken

ModelsNext ==
  \E p \in Callers, failed \in BOOLEAN :
    \/ \E h \in Hashes, civitai \in SUBSET Names \ {{}} : GetModels(p, h, civitai, failed)
    \/ \E h \in Hashes, found \in Found : Recache(p, h, found)
    \/ \E h \in Hashes : ModelNamesFromHash(p, h, failed)
    \/ UpsertModel(p, failed)
    \/ \E civitai \in SUBSET Names \ {{}} : Upserted(p, civitai)
    \/ \E body \in Bodies, read \in SUBSET Hashes : AllModels(p, body, read)
    \/ \E h \in Hashes : InsertModel(p, h, failed)

ArtistsNext ==
  \/ \E p \in Callers :
       \/ \E read \in SUBSET Usernames : AllArtists(p, read)
       \/ \E u \in Usernames, i \in UserIDs : NewArtist(p, u, i)
       \/ EndArtists(p)
  \/ \E u \in Usernames, row \in UserIDs \cup {NoRow} : SetArtist(u, row)

CatalogNext == ModelsNext \/ ArtistsNext

CatalogSpec == CatalogInit /\ [][CatalogNext]_catalogVars

-----------------------------------------------------------------------------
Rows == [Hashes -> {NoRow} \cup SUBSET (Names \cup {Blank})]

CatalogTypeOK ==
  /\ models \in Rows
  /\ artists \in [Usernames -> UserIDs \cup {NoRow}]
  /\ phase \in [Callers -> {"idle", "upsert", "write", "insert", "artists"}]
  /\ todo \in [Callers -> Rows]
  /\ seen \in [Callers -> [Hashes -> {NoRow, Unread} \cup SUBSET (Names \cup {Blank})]]
  /\ target \in [Callers -> Hashes \cup {NoRow}]
  /\ after \in [Callers -> Hashes \cup {NoRow}]
  /\ knownArtists \in [Callers -> SUBSET Usernames]
  /\ written \subseteq Hashes \X (Names \cup {Blank})
  /\ contended \subseteq Hashes
  /\ unread \subseteq Hashes
  /\ moved \subseteq Usernames
  /\ unlisted \subseteq Usernames
  /\ taken \subseteq Usernames
  /\ \A p \in Callers :
       phase[p] = "write" => target[p] \in Pending(p)

(***************************************************************************)
(* A name that was ever stored for a hash stays, also when PATCH /models   *)
(* writes back rows it was not asked about, unless a request wrote the row *)
(* of that hash between the read and the write of another, or wrote it     *)
(* after its own read of the row had failed.                               *)
(***************************************************************************)
NamesKept ==
  \A w \in written :
    \/ w[1] \in contended \cup unread
    \/ models[w[1]] # NoRow /\ w[2] \in models[w[1]]

(***************************************************************************)
(* newArtist writes over an artist only when that was written after it had *)
(* read the table, by its own list or by another request, or when a read   *)
(* of the table left that artist out.                                      *)
(***************************************************************************)
ArtistsKept == taken = {}

CatalogKept == NamesKept /\ ArtistsKept

=============================================================================
