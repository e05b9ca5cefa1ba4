CONSTANTS
    Texts = {"dead fan", "no power", "A1"}
    Amounts = {"10.00"}
    Dates = {"2024-05-01"}
    Scribbles = {"soon", "n/a"}
    Field = {"Notes", "Fixed", "Rack"}
    Type <- MCType
    Transform <- MCTransform
    TicketInput <- MCTicketInput
    CellInput <- MCCellInput
    StatusInput = {}
    StatusCells = {}
    Runs = {"auto", "request"}
    AutoSync = "auto"
    Directions = {"two_way", "push", "pull"}
    Hazards = {"insert_error"}
    MaxUserActions = 4
SPECIFICATION MSpec
INVARIANTS CommonAncestor ReconcileIsIdempotent
PROPERTIES NoLostTicketEdit NoLostSheetEdit
CHECK_DEADLOCK FALSE
