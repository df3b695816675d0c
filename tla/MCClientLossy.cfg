CONSTANTS
    a = a
    b = b
    ua = ua
    ub = ub
    Client = {a}
    MayUse <- Shared
    Uid = {ua}
    Password = {p1}
    GName = {red}
    MaxGroups = 1
    LongName = {red}
    MaxMsg = 0
    MaxSockets = 2
    NoFile = NoFile
    Malformed = Malformed
    LoggedOut = LoggedOut
    Nothing = Nothing
SPECIFICATION WakingSpec
INVARIANTS
    ClientTypeOK
    AnswerIsToTheCommand
PROPERTIES
    CommandsEnd
