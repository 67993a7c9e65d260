CONSTANTS
    Dirs <- McDirs
    Links = {"up"}
    Files = {"file"}
    Target <- SideTarget
    Walks <- FollowWalks
    MaxName = 2
    Top = "top"
    Home = "home"
    Stdin = "none"
    Roots <- RootsAB
    ListedInstrs = {}
    Faults = {}
    Renaming = FALSE
    MaxMishaps = 0
SPECIFICATION Spec
CHECK_DEADLOCK FALSE
INVARIANTS DescriptorsBalanced
