CONSTANTS
    Dirs <- McDirs
    Links = {"up"}
    Files = {"file"}
    Target <- McTarget
    Walks <- QuietWalks
    MaxName = 2
    Top = "top"
    Home = "home"
    Stdin = "none"
    Roots <- RootsAB
    ListedInstrs = {}
    Faults = {}
    Renaming = FALSE
    MaxMishaps = 0
SPECIFICATION Spec
CHECK_DEADLOCK FALSE
INVARIANTS AccessPathResolves CycleIsAncestor SoundDirectoryRead CwdKept
PROPERTIES WalkSpec WalkEnds
