------------------------------ MODULE MCShutdown ------------------------------
(* Shutdown for TLC: one group, one user, and two children, one of which may  *)
(* be about to create the first message.                                      *)
EXTENDS Shutdown

CONSTANTS main, c1, c2

Tree ==  \* path :> parent, in the order of a listing
    << <<"GROUPS", "GROUPS">>, <<"G/01", "GROUPS">>, <<"G/01/name", "G/01">>,
       <<"G/01/MSG", "G/01">>, <<"M/num", "G/01/MSG">>, <<"M/0001", "G/01/MSG">>,
       <<"M/0001/A", "M/0001">>, <<"M/0001/T", "M/0001">>,
       <<"USERS", "USERS">>, <<"U/u", "USERS">>, <<"U/u/pass", "U/u">> >>

New == <<"M/0001", "M/0001/A", "M/0001/T">>

Paths    == {Tree[i][1] : i \in 1 .. Len(Tree)}
Parents  == [e \in Paths |-> (CHOOSE i \in 1 .. Len(Tree) : Tree[i][1] = e)]
ParentOf == [e \in Paths |-> Tree[Parents[e]][2]]
RankOf   == Parents
TreeOfIt == [e \in Paths |-> IF e \in {"USERS", "U/u", "U/u/pass"} THEN "USERS" ELSE "GROUPS"]
Dirs     == {ParentOf[e] : e \in Paths}
OnDisk   == Paths \ {New[i] : i \in 1 .. Len(New)}

Posts    == [p \in Process |-> IF p = c1 THEN New ELSE <<>>]
=============================================================================
