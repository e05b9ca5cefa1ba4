CONSTANTS
    Machines = {"m1", "m2"}
    Keys = {"laptop", "LAPTOP", "phone"}
    Owner <- MCOwner
    TicketsBefore <- MCTicketsBefore
    Passes = {"auto", "request"}
    AutoPass = "auto"
    Directions = {"pull", "push", "two_way"}
    Hazards = {"insert_error"}
    MaxUserActions = 3
SPECIFICATION FairSpec
INVARIANTS TypeOK LookupsAgree OneLinkPerTicket
PROPERTIES ImplementsRegistry ImportableRowsAreLinked
