CONSTANTS
    f1 = f1
    f2 = f2
    k1 = k1
    k2 = k2
    Local = Local
    Absent = Absent
    Unasked = Unasked
    Missing = Missing
    Malformed = Malformed
    Forks <- TwoForks
    Keys <- OneKey
    TestKeys <- Nothing
    Versions = {1}
SPECIFICATION Spec
INVARIANTS
    TypeOK
PROPERTIES
    ImplementsService
    KeepsWhatItRead
