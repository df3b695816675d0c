CONSTANTS
    main = main
    c1 = c1
    c2 = c2
    Entry <- Paths
    Dir <- Dirs
    Groups = "GROUPS"
    Users = "USERS"
    Parent <- ParentOf
    TreeOf <- TreeOfIt
    Rank <- RankOf
    Stored <- OnDisk
    Process = {main, c1, c2}
    Main = main
    Creates <- Posts
SPECIFICATION FairSpec
INVARIANTS
    TypeOK
    UsersEmptied
PROPERTIES
    DeletesAll
    ShutdownEnds
CHECK_DEADLOCK FALSE
