SPECIFICATION Spec
CONSTANTS
    Threads = {t1, t2, t3}
    NoThread = NoThread
    Functions = {glClear}
    Notes = {n1, n2}
    NoNote = NoNote
    Tests = {bootstrap, phaseA}
    NoTest = NoTest
SYMMETRY Symmetry
INVARIANTS TypeOK MarkEntered
PROPERTIES TableSpec
