CONSTANTS
    Child = {c1, c2}
    Uid = {u1}
    Password = {pw}
    GName = {red}
    MaxGroups = 1
    MaxMsg = 2
    Text = {t1}
    FName = {f1}
    FileLen = 0
    Window = 1
    NoFile = NoFile
    Empty = Empty
    Malformed = Malformed
SPECIFICATION MsgSpec
PROPERTIES
    EachPostIncrements
