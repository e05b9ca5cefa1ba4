CONSTANTS
    Conns = {"asus"}
    Goroutines = {"g1"}
    Requests = {"req"}
    Settings = {"two_way", "pull"}
    MaxDeletions = 1
    MaxRestarts = 1
SPECIFICATION Spec
PROPERTY OnlyAdminsConfigure
