SPECIFICATION RegistrySpec
CONSTANTS
    Threads = {t1, t2, t3, t4}
    NoThread = NoThread
    Addresses = {c1, c2, c3}
    NoContext = NoContext
SYMMETRY Symmetry
INVARIANTS
    RegistryTypeOK
    RegistrySound
