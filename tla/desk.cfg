CONSTANTS
    Users = {1, 2, 3}
    Role <- MCRole
    Issues = {screen, battery}
    Texts = {a, b}
    NewStatuses = {"resolved", "closed"}
    ExcelStatuses = {"open"}
    Requests = {r1, r2}
    MaxTickets = 2
    Workloads <- MCWorkloads
    Steps <- MCSteps
    MaxWorkflows = 2
SPECIFICATION Spec
SYMMETRY Symmetry
CHECK_DEADLOCK FALSE
INVARIANTS TypeOK SavesSeeWhatFormsSaved AssigneesAreChosen ResolvedTicketsHaveATime ImportsDoNotDuplicate OneActiveWorkflow WorkflowsReachEveryStep NobodyIsLockedOut
