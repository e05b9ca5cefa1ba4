CONSTANTS
    Texts = {"dead fan", "no power", "A1"}
    Amounts = {"10.00"}
    Dates = {"2024-05-01"}
    Scribbles = {"soon", "n/a"}
    Field = {"Notes"}
    Type <- MCType
    Transform <- MCTransform
    TicketInput <- MCTicketInput
    CellInput <- MCCellInput
    StatusInput = {}
    StatusCells = {}
    Runs = {"auto", "request"}
    AutoSync = "auto"
    Directions = {"two_way"}
    Hazards = {"insert_error"}
    MaxUserActions = 4
SPECIFICATION MSpec
PROPERTY ConflictsArePersisted
CHECK_DEADLOCK FALSE
