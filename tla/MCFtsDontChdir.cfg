CONSTANTS
    Dirs <- McDirs
    Links = {"up"}
    Files = {"file"}
    Target <- SideTarget
    Walks <- ListWalks
    MaxName = 2
    Top = "top"
    Home = "home"
    Stdin = "none"
    Roots <- RootA
    ListedInstrs = {}
    Faults <- DontChdir
    Renaming = FALSE
    MaxMishaps = 1
SPECIFICATION Spec
CHECK_DEADLOCK FALSE
INVARIANTS CwdFollowsWalk
