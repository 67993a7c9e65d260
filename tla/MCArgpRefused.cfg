SPECIFICATION Spec
CONSTANTS
    Argps <- MCArgps
    Letters <- MCLetters
    Top = "top"
    Length = 2
    Cases <- RefusedCases
    MaxMoves = 0
CHECK_DEADLOCK FALSE
INVARIANT RefusalReported
