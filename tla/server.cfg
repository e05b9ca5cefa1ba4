CONSTANTS
    Files <- MCFiles
    Needs <- MCNeeds
    Creates <- MCCreates
    Baseline = {"002_create_users", "004_create_tickets"}
    ModelTables = {"users", "tickets", "google_tokens"}
    Faults = {"look_for_table", "create_table", "look_for_tickets", "preseed",
              "look_for_file", "transaction", "sync"}
    MaxFaults = 3
    MaxStarts = 3
    Accounts = {A, B}
    Admins = {"admin"}
    Clients = {c1, c2}
    MaxTokens = 4
    MaxTurns = 5
    MaxEvents = 5
SPECIFICATION Spec
SYMMETRY Symmetry
CHECK_DEADLOCK FALSE
INVARIANTS TypeOK AppliedOnce CleanStartCatchesUp StaysConnected UsesTheChosenAccount
