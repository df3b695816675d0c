CONSTANTS
    Uid = {u1, u2}
    Password = {pw1}
    GName = {red, blue}
    MaxGroups = 2
    MaxMsg = 0
    NoFile = NoFile
    Malformed = Malformed
SPECIFICATION RestartSpec
INVARIANTS
    RestartTypeOK
PROPERTIES
    FreshUserInheritsNothing
    NewGroupIsFresh
