------------------------------ MODULE Tickets ------------------------------
(***************************************************************************)
(* The table tickets and its routes: newTicket, updateTicket, deleteTicket *)
(* and GetTicketsHandler.  A client changes a ticket by sending back the   *)
(* copy it holds, from the list or from the answer to an earlier request,  *)
(* whatever became of the row since.                                       *)
(*                                                                         *)
(* Each request is one SQL statement.  assertArgs makes columns of the     *)
(* fields of a ticket and Scan fields of the columns; of the fields two    *)
(* stand for all: a *time.Time and a slice.                                *)
(***************************************************************************)
EXTENDS Integers

CONSTANTS
  Clients,
  MaxTicketID,  \* bound: rows inserted
  NoTicket

ASSUME TicketsAssumption == MaxTicketID \in Nat \ {0}

IDs == 1..MaxTicketID
Fields == [closed : {"nil", "time"}, labels : {"nil", "empty", "some"}]

(* A Ticket; serial is history: which of the tickets ever made it is.      *)
NoSerial == 0
Tickets == [id : 0..MaxTicketID, fields : Fields, serial : 0..MaxTicketID]

VARIABLES
  tickets,      \* for each id, the columns of its row, or NoTicket
  sequence,     \* the largest id ever used (AUTOINCREMENT)
  copies,       \* the ticket each client holds, or NoTicket
  serials,      \* history: for each id, the ticket its row is
  sent,         \* history: for each id, the fields last accepted for it
  answered      \* the id the last request was answered with, or -1

ticketVars == <<tickets, sequence, copies, serials, sent, answered>>

(* assertArgs: a nil pointer or slice, and an empty slice, become NULL.    *)
AssertArgs(fields) ==
  [column \in {"closed", "labels"} |->
     CASE fields[column] \in {"nil", "empty"} -> "NULL"
       [] fields[column] = "time" -> "text"
       [] fields[column] = "some" -> "JSON"]

Scan(columns) ==
  [closed |-> IF columns["closed"] = "NULL" THEN "nil" ELSE "time",
   labels |-> IF columns["labels"] = "NULL" THEN "nil" ELSE "some"]

TicketsInit ==
  /\ tickets = [i \in IDs |-> NoTicket]
  /\ sequence = 0
  /\ copies = [c \in Clients |-> NoTicket]
  /\ serials = [i \in IDs |-> NoSerial]
  /\ sent = [i \in IDs |-> NoTicket]
  /\ answered = -1

Store(i, fields, serial) ==
  /\ tickets' = [tickets EXCEPT ![i] = AssertArgs(fields)]
  /\ serials' = [serials EXCEPT ![i] = serial]
  /\ sent' = [sent EXCEPT ![i] = fields]

Hold(c, i, fields, serial) ==
  copies' = [copies EXCEPT ![c] = [id |-> i, fields |-> fields, serial |-> serial]]

(* Mutant: without AUTOINCREMENT, the largest id of the rows and one.      *)
InsertTicketAfterLast(c, fields) ==
  LET used == {i \in IDs : tickets[i] # NoTicket}
      i == (CHOOSE j \in used \cup {0} : \A k \in used : k <= j) + 1
  IN  /\ sequence < MaxTicketID
      /\ i \in IDs
      /\ sequence' = sequence + 1
      /\ Store(i, fields, sequence + 1)
      /\ answered' = 0
      /\ Hold(c, 0, fields, sequence + 1)

(***************************************************************************)
(* UpsertTicket of a ticket without an id inserts a row with the next id,  *)
(* and returns the id of the ticket, which is still 0.                     *)
(***************************************************************************)
InsertTicket(c, fields) ==
  /\ sequence < MaxTicketID
  /\ sequence' = sequence + 1
  /\ Store(sequence + 1, fields, sequence + 1)
  /\ answered' = 0
  /\ Hold(c, 0, fields, sequence + 1)

(* newTicket, which refuses a ticket with an id.                           *)
NewTicket(c, fields) == InsertTicket(c, fields)

(* UpdateTicket of a copy, edited: without an id it is inserted once more; *)
(* with one it replaces the row, or makes it again if it was deleted.      *)
UpdateTicket(c, fields) ==
  /\ copies[c] # NoTicket
  /\ LET old == copies[c]
     IN  IF old.id = 0
         THEN InsertTicket(c, fields)
         ELSE /\ Store(old.id, fields, old.serial)
              /\ answered' = old.id
              /\ Hold(c, old.id, fields, old.serial)
              /\ UNCHANGED sequence

DeleteTicket(i) ==
  /\ tickets[i] # NoTicket
  /\ tickets' = [tickets EXCEPT ![i] = NoTicket]
  /\ serials' = [serials EXCEPT ![i] = NoSerial]
  /\ sent' = [sent EXCEPT ![i] = NoTicket]
  /\ answered' = i
  /\ UNCHANGED <<sequence, copies>>

(* A route that fails, of a ticket with an id for newTicket, one without a *)
(* date for updateTicket, one that is not there for deleteTicket, or for a *)
(* foreign key or db.Error, changes nothing.                               *)
Refuse ==
  /\ answered' = -1
  /\ UNCHANGED <<tickets, sequence, copies, serials, sent>>

(* GetTicketsHandler: the client keeps one of the tickets listed.          *)
GetTickets(c, i) ==
  /\ tickets[i] # NoTicket
  /\ Hold(c, i, Scan(tickets[i]), serials[i])
  /\ answered' = -1
  /\ UNCHANGED <<tickets, sequence, serials, sent>>

TicketsNext ==
  \/ \E c \in Clients, fields \in Fields : NewTicket(c, fields) \/ UpdateTicket(c, fields)
  \/ \E i \in IDs : DeleteTicket(i)
  \/ \E c \in Clients, i \in IDs : GetTickets(c, i)
  \/ Refuse

TicketsSpec == TicketsInit /\ [][TicketsNext]_ticketVars

-----------------------------------------------------------------------------
Columns == {AssertArgs(fields) : fields \in Fields}

TicketsTypeOK ==
  /\ tickets \in [IDs -> Columns \cup {NoTicket}]
  /\ sequence \in 0..MaxTicketID
  /\ copies \in [Clients -> Tickets \cup {NoTicket}]
  /\ serials \in [IDs -> 0..MaxTicketID]
  /\ sent \in [IDs -> Fields \cup {NoTicket}]
  /\ answered \in -1..MaxTicketID

(* What a client may expect of the fields it sent: an empty slice as none. *)
ReadBack(fields) ==
  [closed |-> fields.closed,
   labels |-> IF fields.labels = "empty" THEN "nil" ELSE fields.labels]

(***************************************************************************)
(* An id is never given to another ticket: the copy a client holds, of a   *)
(* ticket that has been changed, deleted, or made again by another client  *)
(* since, never overwrites one it is not a copy of.  And what is read back *)
(* of a row is what was last accepted for it.                              *)
(***************************************************************************)
TicketIdentity ==
  /\ \A c \in Clients :
       copies[c] # NoTicket /\ copies[c].id # 0 =>
         /\ copies[c].id <= sequence
         /\ serials[copies[c].id] \in {copies[c].serial, NoSerial}
  /\ \A i \in IDs :
       tickets[i] # NoTicket =>
         Scan(tickets[i]) = ReadBack(sent[i])

(***************************************************************************)
(* insert.go:403: the id that UpsertTicket returns of a new ticket is that *)
(* of the row it inserted ("last insert id %v does not match ticket id" is *)
(* an error), so a new ticket is answered with an id of the table.         *)
(***************************************************************************)
AnsweredIdStored == answered # -1 => answered \in IDs /\ answered <= sequence

=============================================================================
