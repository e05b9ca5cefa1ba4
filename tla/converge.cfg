CONSTANTS
    Texts = {"dead fan", "no power", "A1"}
    Amounts = {"10.00"}
    Dates = {"2024-05-01"}
    Scribbles = {"soon", "n/a"}
    Field = {"Status", "DueDate"}
    Type <- MCType
    Transform <- MCTransform
    TicketInput <- MCTicketInput
    CellInput <- MCCellInput
    StatusInput = {"open", "closed"}
    StatusCells = {"", "closed"}
    Runs = {"auto", "request"}
    AutoSync = "auto"
    Directions = {"two_way"}
    Hazards = {"overlap", "write_error", "crash", "unassigned", "stale_resolve", "remap"}
    MaxUserActions = 3
SPECIFICATION FairSpec
INVARIANT TypeOK
PROPERTY Converges
CHECK_DEADLOCK FALSE
