CONSTANTS
    Child = {c1, c2}
    Uid = {u1}
    Password = {pw}
    GName = {red}
    MaxGroups = 1
    MaxMsg = 2
    Text = {t1}
    FName = {f1}
    FileLen = 1
    Window = 2
    NoFile = NoFile
    Empty = Empty
    Malformed = Malformed
SPECIFICATION SerialSpec
INVARIANTS
    AckNamesThePost
    ListedIsLast
    AckedStayCounted
SYMMETRY ChildSymmetry
PROPERTIES
    ImplementsLog
    GroupsPermanent
