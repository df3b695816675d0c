CONSTANTS
    u1 = u1
    u2 = u2
    short = short
    long = long
    msgDirectory = msgDirectory
    Uid = {u1, u2}
    Password = {pw1, pw2}
    GName = {short, long}
    MaxGroups = 2
    MaxMsg = 1
    NoFile = NoFile
    Malformed = Malformed
    Other = {msgDirectory}
    Rank <- Order
    FlushAt = 1
    NameLen <- Lengths
    Everyone = Everyone
    Radix = 2
SPECIFICATION ListingSpec
INVARIANTS
    DirTypeOK
    NoGhostUsers
    GroupsDense
    ListReadBack
    ListsTheMembers
PROPERTIES
    FreshUserInheritsNothing
    NewGroupIsFresh
