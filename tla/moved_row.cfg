CONSTANTS
    Machines = {"m1", "m2"}
    Keys = {"laptop", "LAPTOP", "phone"}
    Owner <- MCOwner
    TicketsBefore <- MCTicketsBefore
    Passes = {"auto", "request"}
    AutoPass = "auto"
    Directions = {"push"}
    Hazards = {"move_during_write"}
    MaxUserActions = 3
SPECIFICATION Spec
PROPERTY MovedRowsKeepTheirTickets
