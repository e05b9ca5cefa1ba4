CONSTANTS
    Conns = {"asus", "acer"}
    Goroutines = {"g1", "g2"}
    Requests = {"req"}
    Settings = {"two_way"}
    MaxDeletions = 1
    MaxRestarts = 1
SPECIFICATION FairSpec
INVARIANTS TypeOK OnePassPerConnection
PROPERTIES KeepsSyncing DeletedConnectionsRest
