------------------------------ MODULE Startup ------------------------------
(***************************************************************************)
(* The start of the extension: db.New opens the file, a database of some   *)
(* earlier version of the program or none, and runs the migrations it has  *)
(* not had, each in a transaction; then the artists and the auditors that  *)
(* the program carries are inserted, and it serves.  It may be killed at   *)
(* any time, and stops by itself (Fatal) at any error.  The start of       *)
(* cmd/server, on the same file, goes as far as the migrations.            *)
(***************************************************************************)
EXTENDS Integers

CONSTANTS
  Migrations,   \* how many there are
  Later,        \* how many more a later version of the program has
  Carried       \* the artists and auditors the program carries

ASSUME StartupAssumption == Migrations \in Nat \ {0} /\ Later \in Nat

VARIABLES
  userVersion,  \* PRAGMA user_version of the file
  schema,       \* the tables of the file, by the migration that makes them
  inserted,     \* of the artists and auditors carried, those in the file
  boot,         \* what the program does next
  migrating,    \* the migration it runs
  transaction   \* what its transaction has done: <<tables, version>>

startupVars == <<userVersion, schema, inserted, boot, migrating, transaction>>
file == <<userVersion, schema, inserted>>

Idle == <<{}, 0>>

StartupInit ==
  /\ userVersion \in 0..(Migrations + Later)
  /\ schema = 1..userVersion
  /\ inserted = {}
  /\ boot = "down"
  /\ migrating = 0
  /\ transaction = Idle

(* New and migrate: the version is read once.                              *)
Migrate ==
  /\ boot = "down"
  /\ IF userVersion < Migrations
     THEN boot' = "query" /\ migrating' = userVersion + 1
     ELSE boot' = "insert" /\ migrating' = 0
  /\ UNCHANGED <<file, transaction>>

(* execMigration: CREATE TABLE IF NOT EXISTS, ...                          *)
ExecQuery ==
  /\ boot = "query"
  /\ transaction' = <<{migrating}, 0>>
  /\ boot' = "version"
  /\ UNCHANGED <<file, migrating>>

(* Mutant: the version is set outside of the transaction.                  *)
SetVersionAtOnce ==
  /\ boot = "version"
  /\ userVersion' = migrating
  /\ transaction' = [transaction EXCEPT ![2] = migrating]
  /\ boot' = "commit"
  /\ UNCHANGED <<schema, inserted, migrating>>

(* ... its number, ...                                                     *)
SetVersion ==
  /\ boot = "version"
  /\ transaction' = [transaction EXCEPT ![2] = migrating]
  /\ boot' = "commit"
  /\ UNCHANGED <<file, migrating>>

(* ... and the commit of both.                                             *)
Commit ==
  /\ boot = "commit"
  /\ schema' = schema \cup transaction[1]
  /\ userVersion' = transaction[2]
  /\ transaction' = Idle
  /\ IF migrating < Migrations
     THEN boot' = "query" /\ migrating' = migrating + 1
     ELSE boot' = "insert" /\ migrating' = 0
  /\ UNCHANGED inserted

(* UpsertArtist and InsertAuditor, one row after another.                  *)
InsertCarried(row) ==
  /\ boot = "insert"
  /\ row \notin inserted
  /\ inserted' = inserted \cup {row}
  /\ UNCHANGED <<userVersion, schema, boot, migrating, transaction>>

Serving ==
  /\ boot = "insert"
  /\ inserted = Carried
  /\ boot' = "serving"
  /\ UNCHANGED <<file, migrating, transaction>>

(* A request deletes an artist or an auditor.                              *)
DeleteRow(row) ==
  /\ boot = "serving"
  /\ inserted' = inserted \ {row}
  /\ UNCHANGED <<userVersion, schema, boot, migrating, transaction>>

(* The program is killed, or Fatal: SQLite discards the transaction.       *)
Stop ==
  /\ boot # "down"
  /\ boot' = "down"
  /\ migrating' = 0
  /\ transaction' = Idle
  /\ UNCHANGED file

StartupNext ==
  \/ Migrate \/ ExecQuery \/ SetVersion \/ Commit \/ Serving \/ Stop
  \/ \E row \in Carried : InsertCarried(row) \/ DeleteRow(row)

StartupSpec == StartupInit /\ [][StartupNext]_startupVars

-----------------------------------------------------------------------------
(***************************************************************************)
(* The version of the file counts its tables, wherever the program was     *)
(* killed, and what serves has every table it needs.                       *)
(***************************************************************************)
ServesMigrated ==
  /\ userVersion \in 0..(Migrations + Later)
  /\ schema = 1..userVersion
  /\ boot = "serving" => 1..Migrations \subseteq schema

StartupTypeOK ==
  /\ ServesMigrated
  /\ inserted \subseteq Carried
  /\ boot \in {"down", "query", "version", "commit", "insert", "serving"}
  /\ migrating \in 0..Migrations
  /\ transaction \in {Idle} \cup ({{migrating}} \X {0, migrating})

=============================================================================
