SPECIFICATION TicketsSpec
CONSTANTS
  Clients = {c1, c2}
  MaxTicketID = 3
  NoTicket = NoTicket
INVARIANT AnsweredIdStored
CHECK_DEADLOCK FALSE
