CONSTANTS
    Dirs <- McDirs
    Links = {"up"}
    Files = {"file"}
    Target <- SideTarget
    Walks <- HostileWalks
    MaxName = 3
    Top = "top"
    Home = "home"
    Stdin = "none"
    Roots <- RootA
    ListedInstrs = {"follow", "skip"}
    Faults <- MostFaults
    Renaming = TRUE
    MaxMishaps = 1
SPECIFICATION Spec
CHECK_DEADLOCK FALSE
INVARIANTS CwdFollowsWalk CycleTableLive NoStaleList CwdKept
