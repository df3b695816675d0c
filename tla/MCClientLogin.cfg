CONSTANTS
    a = a
    b = b
    ua = ua
    ub = ub
    Client = {a, b}
    MayUse <- Own
    Uid = {ua, ub}
    Password = {p1}
    GName = {red}
    MaxGroups = 1
    LongName = {}
    MaxMsg = 0
    MaxSockets = 2
    NoFile = NoFile
    Malformed = Malformed
    LoggedOut = LoggedOut
    Nothing = Nothing
SPECIFICATION LossySpec
PROPERTIES
    LoginWasValidated
