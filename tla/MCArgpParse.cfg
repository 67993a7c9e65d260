SPECIFICATION FairSpec
CONSTANTS
    Argps <- MCArgps
    Letters <- MCLetters
    Top = "top"
    Length = 4
    Cases <- MCCases
    MaxMoves = 1
CHECK_DEADLOCK FALSE
INVARIANTS Indices Delivered
PROPERTIES CallsSpec Terminates
