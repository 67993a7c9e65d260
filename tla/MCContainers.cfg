SPECIFICATION EitherSpec
CONSTANTS
    Elms = {e1, e2, e3, e4}
    Heads = {h1, h2}
    RemoveMasked = FALSE
    RbElms = {1, 2, 3, 4, 5, 6, 7, 8}
    SplayElms = {1, 2, 3, 4, 5, 9}
    Null = Null
    Stale = Stale
    Node = Node
SYMMETRY Alike
INVARIANTS WellLinked LoopSeesAll Balanced Lookups
PROPERTIES ListsSpec SetSpec
