CONSTANTS
    Mid = {1, 2, 3}
    own1 = own1
    own2 = own2
    own3 = own3
    ownJunk = ownJunk
    FName = {f, own2, temp}
    FileLen = {0, 2}
    Drift <- Drifts
    TextName <- LocalNames
    Temp = temp
    NoFile = NoFile
    Nameless = Nameless
    Unsigned = Unsigned
    Junk = Junk
SPECIFICATION Spec
INVARIANTS
    TypeOK
    LocalFilesFaithful
CHECK_DEADLOCK FALSE
