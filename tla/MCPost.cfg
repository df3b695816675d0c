CONSTANTS
    TextLen = {1, 2, 10}
    FileLen = {0, 3}
    Name = 1
    SizeLen <- FileDigits
    TailRead = 7
    Block = 2
    StraySize = {0, 1, 2}
    StrayFile = {0, 3}
    Verdict = {"fine", "badFile", "refused"}
    NoFile = NoFile
    Garbled = Garbled
SPECIFICATION FairSpec
INVARIANTS
    TypeOK
    UploadComplete
    PostedIsStored
    FinePostAccepted
    ConfirmationDisplayed
PROPERTIES
    PostsEnd
CHECK_DEADLOCK FALSE
