CONSTANTS
    Texts = {"dead fan", "no power", "A1"}
    Amounts = {"10.00"}
    Dates = {"2024-05-01"}
    Scribbles = {"soon", "n/a"}
    Field = {"Status"}
    Type <- MCType
    Transform <- MCTransform
    TicketInput <- MCTicketInput
    CellInput <- MCCellInput
    StatusInput = {"in_repair"}
    StatusCells = {"", "on hold"}
    Runs = {"auto", "request"}
    AutoSync = "auto"
    Directions = {"two_way"}
    Hazards = {}
    MaxUserActions = 4
SPECIFICATION MSpec
PROPERTY SheetDecisionIsApplied
CHECK_DEADLOCK FALSE
