SPECIFICATION Spec
CONSTANTS
    N = 3
INVARIANTS
    RowsMatch
    ForegroundIsOver
    LineParses
    UnitsAccounted
PROPERTIES
    
    LinesEnd
