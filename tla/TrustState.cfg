SPECIFICATION Spec
CONSTANTS
    a = a
    b = b
    c1 = c1
    c2 = c2
    NoOne = NoOne
    Keys = {a, b}
    Tokened = {a, b}
    Unpinned = {b}
    Commands = {c1, c2}
    MaxBuddies = 2
    MaxMigrations = 1
    MaxOps = 2
PROPERTY RevokedNeverStored
 
 
CHECK_DEADLOCK FALSE
