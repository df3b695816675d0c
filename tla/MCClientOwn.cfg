CONSTANTS
    a = a
    b = b
    ua = ua
    ub = ub
    Client = {a, b}
    MayUse <- Own
    Uid = {ua, ub}
    Password = {p1, p2}
    GName = {red, longest}
    MaxGroups = 1
    LongName = {longest}
    MaxMsg = 0
    MaxSockets = 1
    NoFile = NoFile
    Malformed = Malformed
    LoggedOut = LoggedOut
    Nothing = Nothing
SPECIFICATION ReliableSpec
INVARIANTS
    SessionAgrees
PROPERTIES
    LogoutForgets
    SubscribedIsTrue
