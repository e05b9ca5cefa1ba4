CONSTANTS
    Files <- MCFiles
    Needs <- MCNeeds
    Creates <- MCCreates
    Baseline = {"002_create_users", "004_create_tickets"}
    ModelTables = {"users", "tickets", "google_tokens"}
    Faults = {}
    MaxFaults = 0
    MaxStarts = 3
    Accounts = {A, B}
    Admins = {"admin"}
    Clients = {c1, c2}
    MaxTokens = 0
    MaxTurns = 0
    MaxEvents = 0
SPECIFICATION Spec
CHECK_DEADLOCK FALSE
INVARIANT SkipsOldMigrations
