SPECIFICATION MCSpec
CONSTANTS
  Users = {u1, u2}
  Handlers = {p1, p2}
  Configured = {u1}
  MaxSid = 2
  NoUser = NoUser
  Hashes = {g1, g2}
  Names = {n1, n2}
  Blank = Blank
  Usernames = {w1, w2}
  UserIDs = {i1, i2}
  Callers = {p1, p2}
  NoRow = NoRow
  Unread = Unread
  Clients = {p1, p2}
  MaxTicketID = 2
  NoTicket = NoTicket
  Migrations = 8
  Later = 1
  Carried = {r1, r2}
SYMMETRY Symmetry
INVARIANTS DatabaseTypesOK SessionsAgree StaffOnly CatalogKept TicketIdentity
CHECK_DEADLOCK FALSE
